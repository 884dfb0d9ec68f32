---------------------------- MODULE WireProofs ----------------------------
(***************************************************************************)
(* The bytes of Wire, for every width of the fields, every number of       *)
(* messages and every size: what is read is what was written.              *)
(*                                                                         *)
(* The reading half.  A number of a fixed width is read back when it fits, *)
(* an event that is encoded at an offset is decoded from there and its end *)
(* found, and of an event whose last bytes are missing nothing comes,      *)
(* because a decoder that succeeds on the beginning of a message succeeds  *)
(* on the whole with the same result.  The invariant ReadInv says of every *)
(* place in readEvents which bytes are still to come, at which offset of   *)
(* which vector the decoder stands and which events it holds, and that the *)
(* vectors dealt with were delivered as meant.                             *)
(*                                                                         *)
(* The sending half.  An item of RLP is found by its header wherever it    *)
(* stands, so that a request is unpacked from its bytes, and a part of a   *)
(* frame is short of the length it begins with.  The invariant SendInv     *)
(* says that the bytes on their way are the whole frames that the txpool   *)
(* has not taken and a part of the next.                                   *)
(***************************************************************************)
EXTENDS Wire, SequenceTheorems, WellFoundedInduction, TLAPS

-----------------------------------------------------------------------------
(* Induction and recursion.  The library's induction theorems take an      *)
(* operator as a parameter; a set does as well, and its least              *)
(* counterexample.                                                         *)

(* A set of naturals that is not empty has a least element.                *)
LEMMA Least ==
    ASSUME NEW S, S \subseteq Nat, S # {}
    PROVE \E m \in S : \A k \in S : m <= k
    <1> DEFINE R == {ss \in Nat \X Nat : ss[1] < ss[2]}
    <1>1. IsWellFoundedOn(R, Nat)
        BY NatLessThanWellFounded DEF OpToRel
    <1>2. \E m \in S : \A k \in S : ~(<<k, m>> \in R)
        <2> HIDE DEF R
        <2> QED BY <1>1, WFMin
    <1>3. PICK m \in S : \A k \in S : ~(<<k, m>> \in R)
        BY <1>2
    <1>4. \A k \in S : m <= k
        <2> TAKE k \in S
        <2>1. ~(k < m)
            BY <1>3
        <2> QED BY <2>1
    <1> QED BY <1>4

(* What holds of zero and passes from each number to the next holds of     *)
(* every number: the set of its counterexamples would have a least one.    *)
LEMMA Induct ==
    ASSUME NEW S, 0 \in S, \A n \in Nat : n \in S => n + 1 \in S
    PROVE Nat \subseteq S
    <1> DEFINE D == Nat \ S
    <1>1. SUFFICES ASSUME D # {} PROVE FALSE
        OBVIOUS
    <1>2. PICK m \in D : \A k \in D : m <= k
        <2>1. D \subseteq Nat
            OBVIOUS
        <2> HIDE DEF D
        <2> QED BY <1>1, <2>1, Least
    <1>3. m # 0 /\ m - 1 \in Nat /\ m - 1 \notin D
        BY <1>2
    <1> QED BY <1>3

(* Primitive recursion: step gives the value at n from the one before.     *)
Recursion(f, z, step) ==
    f = [n \in Nat |-> IF n = 0 THEN z ELSE step[<<n, f[n - 1]>>]]

(* A function by primitive recursion exists.  Of the definitions that      *)
(* agree with it up to a number there is one for every number.             *)
LEMMA RecursionExists ==
    ASSUME NEW T, NEW z \in T, NEW step \in [Nat \X T -> T]
    PROVE \E f \in [Nat -> T] : Recursion(f, z, step)
    <1> DEFINE Upto(n, g) == /\ g \in [0..n -> T] /\ g[0] = z
                             /\ \A k \in 1..n : g[k] = step[<<k, g[k - 1]>>]
               S == {n \in Nat : \E g : Upto(n, g)}
    <1>1. 0 \in S
        <2>1. Upto(0, [k \in 0..0 |-> z])
            OBVIOUS
        <2> HIDE DEF Upto
        <2> QED BY <2>1
    <1>2. ASSUME NEW n \in Nat, n \in S PROVE n + 1 \in S
        <2>1. PICK g : Upto(n, g)
            BY <1>2
        <2> DEFINE h == [k \in 0..(n + 1) |-> IF k = n + 1 THEN step[<<n + 1, g[n]>>] ELSE g[k]]
        <2>2. n \in 0..n /\ g[n] \in T /\ step[<<n + 1, g[n]>>] \in T
            BY <2>1
        <2>3. h \in [0..(n + 1) -> T] /\ h[0] = z
            BY <2>1, <2>2
        <2>4. ASSUME NEW k \in 1..(n + 1) PROVE h[k] = step[<<k, h[k - 1]>>]
            <3>1. CASE k = n + 1
                <4>1. k - 1 = n /\ n \in 0..(n + 1) /\ n # n + 1 /\ n + 1 \in 0..(n + 1)
                    BY <3>1
                <4>2. h[n] = g[n] /\ h[n + 1] = step[<<n + 1, g[n]>>]
                    BY <4>1
                <4> HIDE DEF h
                <4> QED BY <3>1, <4>1, <4>2
            <3>2. CASE k # n + 1
                <4>1. k \in 1..n /\ h[k] = g[k] /\ h[k - 1] = g[k - 1]
                    BY <3>2
                <4> QED BY <4>1, <2>1
            <3> QED BY <3>1, <3>2
        <2>5. Upto(n + 1, h)
            <3> HIDE DEF h
            <3> QED BY <2>3, <2>4
        <2>6. \E u : Upto(n + 1, u)
            <3> HIDE DEF h, Upto
            <3> QED BY <2>5
        <2> HIDE DEF Upto
        <2> QED BY <2>6
    <1>3. Nat \subseteq S
        <2> HIDE DEF S
        <2> QED BY <1>1, <1>2, Induct
    <1>4. PICK G : \A n \in Nat : Upto(n, G[n])
        <2> DEFINE H == [n \in Nat |-> CHOOSE g : Upto(n, g)]
        <2>1. ASSUME NEW n \in Nat PROVE Upto(n, H[n])
            <3>1. \E g : Upto(n, g)
                BY <1>3
            <3>2. Upto(n, CHOOSE g : Upto(n, g))
                <4> HIDE DEF Upto
                <4> QED BY <3>1
            <3>3. H[n] = CHOOSE g : Upto(n, g)
                <4> HIDE DEF Upto
                <4> QED OBVIOUS
            <3> HIDE DEF H
            <3> QED BY <3>2, <3>3
        <2> HIDE DEF H, Upto
        <2> QED BY <2>1
    <1>5. ASSUME NEW n \in Nat PROVE G[n + 1][n] = G[n][n]
        <2> DEFINE E == {k \in Nat : k <= n => G[n + 1][k] = G[n][k]}
        <2>0. Upto(n, G[n]) /\ Upto(n + 1, G[n + 1])
            BY <1>4
        <2>1. 0 \in E
            BY <2>0
        <2>2. ASSUME NEW k \in Nat, k \in E PROVE k + 1 \in E
            <3>1. SUFFICES ASSUME k + 1 <= n PROVE G[n + 1][k + 1] = G[n][k + 1]
                OBVIOUS
            <3>2. G[n + 1][k] = G[n][k]
                BY <2>2, <3>1
            <3>3. k + 1 \in 1..n /\ k + 1 \in 1..(n + 1) /\ (k + 1) - 1 = k
                BY <3>1
            <3>4. /\ G[n][k + 1] = step[<<k + 1, G[n][(k + 1) - 1]>>]
                  /\ G[n + 1][k + 1] = step[<<k + 1, G[n + 1][(k + 1) - 1]>>]
                BY <2>0, <3>3
            <3> QED BY <3>2, <3>3, <3>4
        <2>3. Nat \subseteq E
            <3> HIDE DEF E
            <3> QED BY <2>1, <2>2, Induct
        <2>4. n \in E
            BY <2>3
        <2> QED BY <2>4
    <1> DEFINE f == [n \in Nat |-> G[n][n]]
    <1>6. f \in [Nat -> T] /\ f[0] = z
        BY <1>4
    <1>7. ASSUME NEW n \in Nat, n # 0 PROVE f[n] = step[<<n, f[n - 1]>>]
        <2>1. n - 1 \in Nat /\ (n - 1) + 1 = n /\ n \in 1..n
            BY <1>7
        <2>2. G[n][n - 1] = G[n - 1][n - 1]
            BY <1>5, <2>1
        <2>3. G[n][n] = step[<<n, G[n][n - 1]>>]
            BY <1>4, <2>1
        <2> QED BY <2>1, <2>2, <2>3
    <1>8. Recursion(f, z, step)
        <2> HIDE DEF f
        <2>1. f = [n \in Nat |-> f[n]]
            BY <1>6
        <2>2. ASSUME NEW n \in Nat PROVE f[n] = IF n = 0 THEN z ELSE step[<<n, f[n - 1]>>]
            BY <1>6, <1>7
        <2> QED BY <2>1, <2>2 DEF Recursion
    <1> HIDE DEF f
    <1> QED BY <1>6, <1>8

(* Power is what its definition says, which CHOOSE alone does not tell.    *)
LEMMA PowerDef ==
    /\ Power \in [Nat -> Nat \ {0}]
    /\ Power[0] = 1
    /\ \A w \in Nat : Power[w + 1] = Base * Power[w]
    <1> DEFINE step == [p \in Nat \X (Nat \ {0}) |-> Base * p[2]]
               Is(g) == g = [w \in Nat |-> IF w = 0 THEN 1 ELSE Base * g[w - 1]]
               Positive == Nat \ {0}
    <1>1. step \in [Nat \X Positive -> Positive] /\ 1 \in Positive
        BY BaseAssumption
    <1>2. PICK f \in [Nat -> Positive] : Recursion(f, 1, step)
        <2> HIDE DEF step, Positive
        <2> QED BY <1>1, RecursionExists
    <1>3. Is(f)
        <2>1. \A w \in Nat \ {0} : step[<<w, f[w - 1]>>] = Base * f[w - 1]
            OBVIOUS
        <2> QED BY <1>2, <2>1 DEF Recursion
    <1>4. Power = CHOOSE g : Is(g)
        BY DEF Power
    <1>5. Is(Power)
        <2> HIDE DEF Is
        <2> QED BY <1>3, <1>4
    <1>6. Power[0] = 1 /\ \A w \in Nat : Power[w + 1] = Base * Power[w]
        <2>1. \A w \in Nat : Power[w] = IF w = 0 THEN 1 ELSE Base * Power[w - 1]
            BY <1>5
        <2>2. \A w \in Nat : w + 1 # 0 /\ w + 1 \in Nat /\ (w + 1) - 1 = w
            OBVIOUS
        <2> QED BY <2>1, <2>2
    <1>7. Power \in [Nat -> Nat \ {0}]
        <2> DEFINE S == {w \in Nat : Power[w] \in Nat \ {0}}
        <2>1. Nat \subseteq S
            <3>1. 0 \in S
                BY <1>6
            <3>2. \A w \in Nat : w \in S => w + 1 \in S
                BY <1>6, BaseAssumption
            <3> HIDE DEF S
            <3> QED BY <3>1, <3>2, Induct
        <2>2. Power = [w \in Nat |-> Power[w]]
            BY <1>5
        <2> QED BY <2>1, <2>2
    <1> QED BY <1>6, <1>7

(* A power of the base is a natural number that is not zero.               *)
LEMMA PowerType == \A w \in Nat : Power[w] \in Nat \ {0}
    BY PowerDef

-----------------------------------------------------------------------------
(* Numbers of a fixed width.                                               *)

(* What Number has added up before its last byte.                          *)
Sums(bytes, value) ==
    /\ value \in [0..Len(bytes) -> Nat]
    /\ value[0] = 0
    /\ \A j \in 1..Len(bytes) : value[j] = value[j - 1] + bytes[j] * Power[j - 1]

(* Sums and products of naturals are naturals.                             *)
LEMMA Product == \A x, y, z \in Nat : x + y * z \in Nat
    <1>1. \A y, z \in Nat : y * z \in Nat
        OBVIOUS
    <1> QED BY <1>1

(* Number adds up the bytes, each times the power of its place.            *)
LEMMA NumberDef ==
    ASSUME NEW bytes \in Seq(Byte)
    PROVE \E value : Sums(bytes, value) /\ Number(bytes) = value[Len(bytes)]
    <1> DEFINE n == Len(bytes)
               step == [p \in Nat \X Nat |->
                          IF p[1] \in 1..n THEN p[2] + bytes[p[1]] * Power[p[1] - 1] ELSE 0]
               Is(g) == g = [j \in 0..n |-> IF j = 0 THEN 0 ELSE g[j - 1] + bytes[j] * Power[j - 1]]
    <1>0. /\ n \in Nat
          /\ \A j \in 1..n : bytes[j] \in Nat /\ Power[j - 1] \in Nat
        <2>1. \A j \in 1..n : bytes[j] \in Byte
            BY ElementOfSeq
        <2>2. Byte \subseteq Nat
            BY BaseAssumption DEF Byte
        <2>3. n \in Nat
            BY LenProperties
        <2> HIDE DEF n
        <2>4. \A j \in 1..n : Power[j - 1] \in Nat
            BY <2>3, PowerType
        <2>5. \A j \in 1..n : bytes[j] \in Nat
            BY <2>1, <2>2
        <2> QED BY <2>3, <2>4, <2>5
    <1>1. step \in [Nat \X Nat -> Nat]
        <2>1. ASSUME NEW j \in 1..n, NEW v \in Nat PROVE v + bytes[j] * Power[j - 1] \in Nat
            <3>1. bytes[j] \in Nat /\ Power[j - 1] \in Nat
                BY <1>0
            <3> QED BY <3>1, Product
        <2> QED BY <2>1
    <1>2. PICK f \in [Nat -> Nat] : Recursion(f, 0, step)
        <2> HIDE DEF step
        <2> QED BY <1>1, RecursionExists
    <1> DEFINE g == [j \in 0..n |-> f[j]]
    <1>3. Is(g)
        <2>1. ASSUME NEW j \in 0..n
              PROVE g[j] = IF j = 0 THEN 0 ELSE g[j - 1] + bytes[j] * Power[j - 1]
            <3>1. CASE j = 0
                BY <1>2, <3>1 DEF Recursion
            <3>2. CASE j # 0
                <4>1. j \in 1..n /\ j \in Nat /\ j - 1 \in 0..n /\ j - 1 \in Nat /\ f[j - 1] \in Nat
                    BY <1>0, <3>2
                <4>2. f[j] = step[<<j, f[j - 1]>>]
                    <5> HIDE DEF step
                    <5> QED BY <1>2, <3>2, <4>1 DEF Recursion
                <4>3. step[<<j, f[j - 1]>>] = f[j - 1] + bytes[j] * Power[j - 1]
                    BY <4>1
                <4> QED BY <3>2, <4>1, <4>2, <4>3
            <3> QED BY <3>1, <3>2
        <2>2. g = [j \in 0..n |-> g[j]]
            OBVIOUS
        <2> HIDE DEF g
        <2> QED BY <2>1, <2>2
    <1> DEFINE value == CHOOSE h : Is(h)
    <1>4. Number(bytes) = value[n]
        BY DEF Number
    <1>5. Is(value)
        <2> HIDE DEF Is
        <2> QED BY <1>3
    <1> HIDE DEF value
    <1>6. value[0] = 0 /\ \A j \in 1..n : value[j] = value[j - 1] + bytes[j] * Power[j - 1]
        <2>1. \A j \in 0..n : value[j] = IF j = 0 THEN 0 ELSE value[j - 1] + bytes[j] * Power[j - 1]
            BY <1>5
        <2> QED BY <2>1, <1>0
    <1>7. value \in [0..n -> Nat]
        <2> DEFINE S == {j \in Nat : j <= n => value[j] \in Nat}
        <2>1. 0 \in S
            BY <1>6
        <2>2. ASSUME NEW j \in Nat, j \in S PROVE j + 1 \in S
            <3>1. SUFFICES ASSUME j + 1 <= n PROVE value[j + 1] \in Nat
                OBVIOUS
            <3>2. value[j] \in Nat /\ j + 1 \in 1..n /\ (j + 1) - 1 = j
                BY <1>0, <2>2, <3>1
            <3>3. value[j + 1] = value[j] + bytes[j + 1] * Power[j]
                BY <3>2, <1>6
            <3>4. bytes[j + 1] \in Nat /\ Power[j] \in Nat
                BY <1>0, <3>2
            <3>5. value[j] + bytes[j + 1] * Power[j] \in Nat
                BY <3>2, <3>4, Product
            <3> QED BY <3>3, <3>5
        <2>3. ASSUME NEW j \in 0..n PROVE value[j] \in Nat
            <3>1. Nat \subseteq S
                <4> HIDE DEF S
                <4> QED BY <2>1, <2>2, Induct
            <3>2. j \in S
                BY <3>1, <1>0
            <3> QED BY <3>2
        <2>4. value = [j \in 0..n |-> value[j]]
            BY <1>5
        <2> QED BY <2>3, <2>4
    <1>8. Sums(bytes, value)
        BY <1>6, <1>7 DEF Sums
    <1> QED BY <1>4, <1>8

(* Bytes stand for a natural number.                                       *)
LEMMA NumberType ==
    ASSUME NEW bytes \in Seq(Byte)
    PROVE Number(bytes) \in Nat
    BY NumberDef DEF Sums

(* A number and its quotients and remainders: one digit more.              *)
LEMMA NextDigit ==
    ASSUME NEW n \in Nat, NEW p \in Nat \ {0}, NEW b \in Nat \ {0}
    PROVE /\ n \div p \in Nat /\ (n \div p) % b \in 0..(b - 1)
          /\ n % (b * p) = (n % p) + ((n \div p) % b) * p
    <1> DEFINE q == n \div p
               r == n % p
               c == q \div b
               d == q % b
    <1>1. q \in Nat /\ r \in 0..(p - 1) /\ n = p * q + r
        OBVIOUS
    <1>2. c \in Nat /\ d \in 0..(b - 1) /\ q = b * c + d
        <2> HIDE DEF q
        <2> QED BY <1>1
    <1> HIDE DEF q, r, c, d
    <1> DEFINE e == p * d + r
               m == b * p
    <1>3. m \in Nat \ {0} /\ e \in Nat
        BY <1>1, <1>2
    <1>4. e < m
        <2>1. p * d <= p * (b - 1)
            BY <1>2
        <2>2. p * (b - 1) = m - p
            OBVIOUS
        <2>3. p * d \in Nat /\ p * (b - 1) \in Nat
            BY <1>2
        <2> HIDE DEF m
        <2> QED BY <2>1, <2>2, <2>3, <1>1, <1>3
    <1>5. n = m * c + e
        <2>1. n = p * (b * c + d) + r
            BY <1>1, <1>2
        <2> QED BY <2>1, <1>1, <1>2
    <1>6. n % m = e
        <2> HIDE DEF m, e
        <2> QED BY <1>2, <1>3, <1>4, <1>5
    <1>7. e = r + d * p
        BY <1>1, <1>2
    <1>8. q = n \div p /\ r = n % p /\ d = q % b
        BY DEF q, r, d
    <1> HIDE DEF e
    <1>9. n % (b * p) = r + d * p
        BY <1>6, <1>7
    <1> QED BY <1>1, <1>2, <1>8, <1>9

(* A word is its width in bytes, each a digit of the number.               *)
LEMMA WordType ==
    ASSUME NEW n \in Nat, NEW w \in Nat
    PROVE /\ Word(n, w) \in Seq(Byte) /\ Len(Word(n, w)) = w
          /\ \A j \in 1..w : Word(n, w)[j] = (n \div Power[j - 1]) % Base
    <1>1. ASSUME NEW j \in 1..w PROVE (n \div Power[j - 1]) % Base \in Byte
        <2>1. Power[j - 1] \in Nat \ {0} /\ Base \in Nat \ {0}
            BY PowerType, BaseAssumption
        <2> QED BY <2>1, NextDigit DEF Byte
    <1>2. Word(n, w) \in [1..w -> Byte]
        BY <1>1 DEF Word
    <1> QED BY <1>2 DEF Word

(* A number that fits a little-endian field is read back from it.          *)
LEMMA NumberOfWord ==
    ASSUME NEW n \in Nat, NEW w \in Nat, n < Power[w]
    PROVE Number(Word(n, w)) = n
    <1> DEFINE bytes == Word(n, w)
    <1>1. bytes \in Seq(Byte) /\ Len(bytes) = w
          /\ \A j \in 1..w : bytes[j] = (n \div Power[j - 1]) % Base
        BY WordType
    <1> HIDE DEF bytes
    <1>2. PICK value : Sums(bytes, value) /\ Number(bytes) = value[Len(bytes)]
        BY <1>1, NumberDef
    <1> DEFINE S == {j \in Nat : j <= w => value[j] = n % Power[j]}
    <1>3. 0 \in S
        <2>1. value[0] = 0 /\ Power[0] = 1 /\ n % 1 = 0
            BY <1>2, PowerDef DEF Sums
        <2> QED BY <2>1
    <1>4. ASSUME NEW j \in Nat, j \in S PROVE j + 1 \in S
        <2>1. SUFFICES ASSUME j + 1 <= w PROVE value[j + 1] = n % Power[j + 1]
            OBVIOUS
        <2>2. j + 1 \in 1..w /\ (j + 1) - 1 = j /\ value[j] = n % Power[j]
            BY <1>4, <2>1
        <2>3. value[j + 1] = value[j] + bytes[j + 1] * Power[j]
            BY <1>1, <1>2, <2>2 DEF Sums
        <2>4. bytes[j + 1] = (n \div Power[j]) % Base
            BY <1>1, <2>2
        <2>5. Power[j] \in Nat \ {0} /\ Base \in Nat \ {0} /\ Power[j + 1] = Base * Power[j]
            BY PowerDef, BaseAssumption
        <2>6. n % (Base * Power[j]) = (n % Power[j]) + ((n \div Power[j]) % Base) * Power[j]
            BY <2>5, NextDigit
        <2> QED BY <2>2, <2>3, <2>4, <2>5, <2>6
    <1>5. Nat \subseteq S
        <2> HIDE DEF S
        <2> QED BY <1>3, <1>4, Induct
    <1>6. value[w] = n % Power[w]
        BY <1>5
    <1>7. n % Power[w] = n
        <2>1. Power[w] \in Nat \ {0}
            BY PowerDef
        <2> QED BY <2>1
    <1> QED BY <1>1, <1>2, <1>6, <1>7 DEF bytes

(* Reversing keeps length and elements, and twice changes nothing.         *)
LEMMA ReverseTwice ==
    ASSUME NEW S, NEW s \in Seq(S)
    PROVE /\ Reverse(s) \in Seq(S) /\ Len(Reverse(s)) = Len(s)
          /\ Reverse(Reverse(s)) = s
    <1>1. Reverse(s) \in [1..Len(s) -> S] /\ Len(s) \in Nat
        BY DEF Reverse
    <1>2. Reverse(s) \in Seq(S) /\ Len(Reverse(s)) = Len(s)
        BY <1>1
    <1>3. Reverse(Reverse(s)) \in [1..Len(s) -> S]
        BY <1>2 DEF Reverse
    <1>4. ASSUME NEW i \in 1..Len(s) PROVE Reverse(Reverse(s))[i] = s[i]
        <2>1. (Len(s) - i) + 1 \in 1..Len(s) /\ (Len(s) - ((Len(s) - i) + 1)) + 1 = i
            BY <1>1
        <2>2. Reverse(s)[(Len(s) - i) + 1] = s[i]
            BY <2>1 DEF Reverse
        <2>3. Reverse(Reverse(s))[i] = Reverse(s)[(Len(s) - i) + 1]
            BY <1>2 DEF Reverse
        <2> QED BY <2>2, <2>3
    <1>5. s \in [1..Len(s) -> S]
        OBVIOUS
    <1>6. Reverse(Reverse(s)) = s
        BY <1>3, <1>4, <1>5
    <1> QED BY <1>2, <1>6

(* A big-endian field is its width in bytes.                               *)
LEMMA BigEndianType ==
    ASSUME NEW n \in Nat, NEW w \in Nat
    PROVE BigEndian(n, w) \in Seq(Byte) /\ Len(BigEndian(n, w)) = w
    BY WordType, ReverseTwice DEF BigEndian

(* Big-endian bytes stand for a natural number.                            *)
LEMMA BigEndianNumberType ==
    ASSUME NEW bytes \in Seq(Byte)
    PROVE BigEndianNumber(bytes) \in Nat
    BY ReverseTwice, NumberType DEF BigEndianNumber

(* A number that fits a big-endian field is read back from it.             *)
LEMMA NumberOfBigEndian ==
    ASSUME NEW n \in Nat, NEW w \in Nat, n < Power[w]
    PROVE BigEndianNumber(BigEndian(n, w)) = n
    <1>1. Reverse(Reverse(Word(n, w))) = Word(n, w)
        BY WordType, ReverseTwice
    <1> QED BY <1>1, NumberOfWord DEF BigEndian, BigEndianNumber

-----------------------------------------------------------------------------
(* Sequences put together.                                                 *)

(* What FlattenSeq has put together after each sequence.                   *)
PutTogether(S, seqs, f) ==
    /\ f \in [1..Len(seqs) -> Seq(S)]
    /\ f[1] = seqs[1]
    /\ \A i \in 2..Len(seqs) : f[i] = f[i - 1] \o seqs[i]

(* FlattenSeq puts the sequences together from the first to the last.      *)
LEMMA FlattenDef ==
    ASSUME NEW S, NEW seqs \in Seq(Seq(S)), seqs # <<>>
    PROVE \E f : PutTogether(S, seqs, f) /\ FlattenSeq(seqs) = f[Len(seqs)]
    <1> DEFINE n == Len(seqs)
               T == Seq(S)
               step == [p \in Nat \X T |->
                          IF p[1] = 1 THEN seqs[1]
                          ELSE IF p[1] \in 2..n THEN p[2] \o seqs[p[1]] ELSE <<>>]
               Is(g) == g = [i \in 1..n |-> IF i = 1 THEN seqs[i] ELSE g[i - 1] \o seqs[i]]
    <1>1. n \in Nat \ {0} /\ \A i \in 1..n : seqs[i] \in T
        <2>1. n \in Nat \ {0}
            BY EmptySeq
        <2>2. \A i \in 1..n : seqs[i] \in T
            BY ElementOfSeq
        <2> QED BY <2>1, <2>2
    <1>2. <<>> \in T /\ \A v, w \in T : v \o w \in T
        BY EmptySeq, ConcatProperties
    <1>3. FlattenSeq(seqs) = (CHOOSE g : Is(g))[n]
        <2>1. Len(seqs) # 0
            BY <1>1
        <2> QED BY <2>1 DEF FlattenSeq
    <1> HIDE DEF T, n
    <1>4. step \in [Nat \X T -> T]
        <2>1. ASSUME NEW i \in Nat, NEW v \in T
              PROVE (IF i = 1 THEN seqs[1] ELSE IF i \in 2..n THEN v \o seqs[i] ELSE <<>>) \in T
            <3>1. CASE i = 1
                <4>1. 1 \in 1..n
                    BY <1>1
                <4> QED BY <3>1, <4>1, <1>1
            <3>2. CASE i # 1 /\ i \in 2..n
                <4>1. i \in 1..n
                    BY <1>1, <3>2
                <4> QED BY <3>2, <4>1, <1>1, <1>2
            <3>3. CASE i # 1 /\ i \notin 2..n
                BY <3>3, <1>2
            <3> QED BY <3>1, <3>2, <3>3
        <2> QED BY <2>1
    <1>5. PICK F \in [Nat -> T] : Recursion(F, <<>>, step)
        <2> HIDE DEF step
        <2> QED BY <1>2, <1>4, RecursionExists
    <1>6. F[1] = seqs[1] /\ \A i \in 2..n : F[i] = F[i - 1] \o seqs[i]
        <2>1. \A i \in Nat \ {0} : F[i] = step[<<i, F[i - 1]>>]
            <3> HIDE DEF step
            <3> QED BY <1>5 DEF Recursion
        <2>2. ASSUME NEW i \in 1..n
              PROVE i \in Nat \ {0} /\ i - 1 \in Nat /\ F[i - 1] \in T
            BY <1>1
        <2>3. F[1] = seqs[1]
            <3>1. 1 \in 1..n
                BY <1>1
            <3>2. F[1] = step[<<1, F[1 - 1]>>] /\ <<1, F[1 - 1]>> \in Nat \X T
                <4> HIDE DEF step
                <4> QED BY <2>1, <2>2, <3>1
            <3> QED BY <3>2
        <2>4. ASSUME NEW i \in 2..n PROVE F[i] = F[i - 1] \o seqs[i]
            <3>1. i \in 1..n /\ i # 1
                BY <1>1
            <3>2. F[i] = step[<<i, F[i - 1]>>] /\ <<i, F[i - 1]>> \in Nat \X T
                <4> HIDE DEF step
                <4> QED BY <2>1, <2>2, <3>1
            <3> QED BY <3>1, <3>2
        <2> QED BY <2>3, <2>4
    <1> DEFINE h == [i \in 1..n |-> F[i]]
    <1>7. Is(h)
        <2>1. ASSUME NEW i \in 1..n PROVE h[i] = IF i = 1 THEN seqs[i] ELSE h[i - 1] \o seqs[i]
            <3>1. CASE i = 1
                BY <3>1, <1>6
            <3>2. CASE i # 1
                <4>1. i \in 2..n /\ i - 1 \in 1..n
                    BY <1>1, <3>2
                <4>2. h[i] = F[i] /\ h[i - 1] = F[i - 1]
                    BY <4>1
                <4> HIDE DEF h
                <4> QED BY <3>2, <4>1, <4>2, <1>6
            <3> HIDE DEF h
            <3> QED BY <3>1, <3>2
        <2>2. h = [i \in 1..n |-> h[i]]
            OBVIOUS
        <2> HIDE DEF h
        <2> QED BY <2>1, <2>2
    <1> DEFINE f == CHOOSE g : Is(g)
    <1>8. Is(f)
        <2> HIDE DEF Is, h
        <2> QED BY <1>7
    <1> HIDE DEF f
    <1>9. f[1] = seqs[1] /\ \A i \in 2..n : f[i] = f[i - 1] \o seqs[i]
        <2>1. \A i \in 1..n : f[i] = IF i = 1 THEN seqs[i] ELSE f[i - 1] \o seqs[i]
            BY <1>8
        <2>2. 1 \in 1..n /\ \A i \in 2..n : i \in 1..n /\ i # 1
            BY <1>1
        <2> HIDE DEF Is
        <2> QED BY <2>1, <2>2
    <1>10. f \in [1..n -> T]
        <2> DEFINE E == {i \in Nat : i + 1 <= n => f[i + 1] \in T}
        <2>1. 0 \in E
            BY <1>1, <1>9
        <2>2. ASSUME NEW i \in Nat, i \in E PROVE i + 1 \in E
            <3>1. SUFFICES ASSUME (i + 1) + 1 <= n PROVE f[(i + 1) + 1] \in T
                OBVIOUS
            <3>2. f[i + 1] \in T /\ (i + 1) + 1 \in 2..n /\ ((i + 1) + 1) - 1 = i + 1
                BY <1>1, <2>2, <3>1
            <3>3. (i + 1) + 1 \in 1..n
                BY <1>1, <3>2
            <3>4. seqs[(i + 1) + 1] \in T
                BY <3>3, <1>1
            <3>5. f[(i + 1) + 1] = f[i + 1] \o seqs[(i + 1) + 1]
                BY <3>2, <1>9
            <3>6. f[i + 1] \o seqs[(i + 1) + 1] \in T
                BY <3>2, <3>4, <1>2
            <3> QED BY <3>5, <3>6
        <2>3. ASSUME NEW i \in 1..n PROVE f[i] \in T
            <3>1. Nat \subseteq E
                <4> HIDE DEF E
                <4> QED BY <2>1, <2>2, Induct
            <3>2. i - 1 \in Nat /\ (i - 1) + 1 = i /\ i <= n
                BY <1>1
            <3>3. i - 1 \in E
                BY <3>1, <3>2
            <3>4. f[(i - 1) + 1] \in T
                BY <3>2, <3>3
            <3> QED BY <3>2, <3>4
        <2>4. f = [i \in 1..n |-> f[i]]
            BY <1>8
        <2>5. [i \in 1..n |-> f[i]] \in [1..n -> T]
            <3> HIDE DEF Is
            <3> QED BY <2>3
        <2> HIDE DEF Is
        <2> QED BY <2>4, <2>5
    <1>11. PutTogether(S, seqs, f)
        BY <1>9, <1>10 DEF PutTogether, n, T
    <1>12. FlattenSeq(seqs) = f[n]
        BY <1>3 DEF f
    <1> QED BY <1>11, <1>12 DEF n

(* Concatenation is associative.                                           *)
LEMMA Regroup ==
    ASSUME NEW S, NEW f \in Seq(S), NEW g \in Seq(S), NEW h \in Seq(S)
    PROVE (f \o g) \o h = f \o (g \o h)
    BY ConcatAssociative

(* Of no sequences nothing comes.                                          *)
LEMMA FlattenEmpty == FlattenSeq(<<>>) = <<>>
    BY DEF FlattenSeq

(* What sequences are put together from is what their elements are.        *)
LEMMA FlattenType ==
    ASSUME NEW S, NEW seqs \in Seq(Seq(S))
    PROVE FlattenSeq(seqs) \in Seq(S)
    <1>1. CASE seqs = <<>>
        BY <1>1, FlattenEmpty, EmptySeq
    <1>2. CASE seqs # <<>>
        <2>1. PICK f : PutTogether(S, seqs, f) /\ FlattenSeq(seqs) = f[Len(seqs)]
            BY <1>2, FlattenDef
        <2>2. Len(seqs) \in 1..Len(seqs)
            BY <1>2, EmptySeq
        <2> QED BY <2>1, <2>2 DEF PutTogether
    <1> QED BY <1>1, <1>2

(* A sequence more at the end, and its elements come last.                 *)
LEMMA FlattenAppend ==
    ASSUME NEW S, NEW seqs \in Seq(Seq(S)), NEW s \in Seq(S)
    PROVE FlattenSeq(Append(seqs, s)) = FlattenSeq(seqs) \o s
    <1> DEFINE longer == Append(seqs, s)
               n == Len(seqs)
    <1>1. /\ longer \in Seq(Seq(S)) /\ longer # <<>> /\ Len(longer) = n + 1 /\ n \in Nat
          /\ \A i \in 1..n : longer[i] = seqs[i]
          /\ longer[n + 1] = s
        BY AppendProperties, LenProperties
    <1> HIDE DEF longer
    <1>2. PICK g : PutTogether(S, longer, g) /\ FlattenSeq(longer) = g[n + 1]
        BY <1>1, FlattenDef
    <1>3. CASE seqs = <<>>
        <2>1. n = 0
            BY <1>3, EmptySeq
        <2>2. FlattenSeq(longer) = s
            BY <1>1, <1>2, <2>1 DEF PutTogether
        <2>3. <<>> \o s = s
            BY ConcatEmptySeq
        <2> QED BY <1>3, <2>2, <2>3, FlattenEmpty DEF longer
    <1>4. CASE seqs # <<>>
        <2>1. n \in Nat \ {0}
            BY <1>4, EmptySeq
        <2>2. PICK f : PutTogether(S, seqs, f) /\ FlattenSeq(seqs) = f[n]
            BY <1>4, FlattenDef
        <2> HIDE DEF n
        <2>f. f[1] = seqs[1] /\ \A i \in 2..n : f[i] = f[i - 1] \o seqs[i]
            BY <2>2 DEF PutTogether, n
        <2>g. g[1] = longer[1] /\ \A i \in 2..(n + 1) : g[i] = g[i - 1] \o longer[i]
            BY <1>1, <1>2 DEF PutTogether
        <2> DEFINE E == {i \in Nat : i + 1 <= n => f[i + 1] = g[i + 1]}
        <2>3. 0 \in E
            <3>1. 1 \in 1..n
                BY <2>1
            <3> QED BY <3>1, <1>1, <2>f, <2>g
        <2>4. ASSUME NEW i \in Nat, i \in E PROVE i + 1 \in E
            <3>1. SUFFICES ASSUME (i + 1) + 1 <= n PROVE f[(i + 1) + 1] = g[(i + 1) + 1]
                OBVIOUS
            <3>2. f[i + 1] = g[i + 1]
                BY <2>1, <2>4, <3>1
            <3>3. /\ (i + 1) + 1 \in 2..n /\ (i + 1) + 1 \in 2..(n + 1)
                  /\ (i + 1) + 1 \in 1..n /\ ((i + 1) + 1) - 1 = i + 1
                BY <2>1, <3>1
            <3>4. longer[(i + 1) + 1] = seqs[(i + 1) + 1]
                BY <3>3, <1>1
            <3>5. /\ f[(i + 1) + 1] = f[i + 1] \o seqs[(i + 1) + 1]
                  /\ g[(i + 1) + 1] = g[i + 1] \o longer[(i + 1) + 1]
                BY <3>3, <2>f, <2>g
            <3> QED BY <3>2, <3>4, <3>5
        <2>5. f[n] = g[n]
            <3>1. Nat \subseteq E
                <4> HIDE DEF E
                <4> QED BY <2>3, <2>4, Induct
            <3>2. n - 1 \in Nat /\ (n - 1) + 1 = n /\ n <= n
                BY <2>1
            <3>3. n - 1 \in E
                BY <3>1, <3>2
            <3>4. f[(n - 1) + 1] = g[(n - 1) + 1]
                BY <3>2, <3>3
            <3> QED BY <3>2, <3>4
        <2>6. g[n + 1] = g[n] \o longer[n + 1]
            <3>1. n + 1 \in 2..(n + 1) /\ (n + 1) - 1 = n
                BY <2>1
            <3> QED BY <3>1, <2>g
        <2> QED BY <1>1, <1>2, <2>2, <2>5, <2>6 DEF longer, n
    <1> QED BY <1>3, <1>4

(* A sequence more at the beginning, and its elements come first.          *)
LEMMA FlattenCons ==
    ASSUME NEW S, NEW seqs \in Seq(Seq(S)), NEW s \in Seq(S)
    PROVE FlattenSeq(<<s>> \o seqs) = s \o FlattenSeq(seqs)
    <1> DEFINE T == Seq(S)
               Holds(q) == FlattenSeq(<<s>> \o q) = s \o FlattenSeq(q)
               E == {n \in Nat : \A q \in Seq(T) : Len(q) = n => Holds(q)}
    <1>1. <<s>> \in Seq(T)
        OBVIOUS
    <1>2. Holds(<<>>)
        <2>1. <<s>> \o <<>> = <<s>> /\ s \o <<>> = s
            BY <1>1, ConcatEmptySeq
        <2>2. <<s>> = Append(<<>>, s) /\ <<>> \in Seq(T)
            OBVIOUS
        <2>3. FlattenSeq(<<s>>) = <<>> \o s
            BY <2>2, FlattenAppend, FlattenEmpty
        <2>4. <<>> \o s = s
            BY ConcatEmptySeq
        <2> QED BY <2>1, <2>3, <2>4, FlattenEmpty
    <1>3. ASSUME NEW q \in Seq(T), NEW x \in T, Holds(q) PROVE Holds(Append(q, x))
        <2>1. <<s>> \o q \in Seq(T) /\ Append(q, x) = q \o <<x>> /\ <<x>> \in Seq(T)
            BY <1>1, ConcatProperties, AppendIsConcat
        <2>2. (<<s>> \o q) \o <<x>> = <<s>> \o (q \o <<x>>)
            <3>1. <<s>> \in Seq(T)
                BY <1>1
            <3> HIDE DEF T
            <3> QED BY ONLY <1>3, <2>1, <3>1, Regroup, SMTT(20)
        <2>3. Append(<<s>> \o q, x) = (<<s>> \o q) \o <<x>>
            BY <2>1, AppendIsConcat
        <2>4. FlattenSeq(Append(<<s>> \o q, x)) = FlattenSeq(<<s>> \o q) \o x
            BY <2>1, FlattenAppend
        <2>5. FlattenSeq(Append(q, x)) = FlattenSeq(q) \o x
            BY FlattenAppend
        <2>6. (s \o FlattenSeq(q)) \o x = s \o (FlattenSeq(q) \o x)
            <3>1. FlattenSeq(q) \in Seq(S)
                BY <1>3, FlattenType
            <3>2. s \in Seq(S) /\ x \in Seq(S)
                BY <1>3
            <3> QED BY ONLY <3>1, <3>2, Regroup, SMTT(20)
        <2>7. FlattenSeq(<<s>> \o q) = s \o FlattenSeq(q)
            BY <1>3
        <2>8. FlattenSeq(<<s>> \o Append(q, x)) = FlattenSeq(Append(<<s>> \o q, x))
            BY <2>1, <2>2, <2>3
        <2>9. FlattenSeq(<<s>> \o Append(q, x)) = s \o FlattenSeq(Append(q, x))
            BY <2>4, <2>5, <2>6, <2>7, <2>8
        <2> QED BY <2>9
    <1> HIDE DEF Holds
    <1>4. 0 \in E
        <2>1. \A q \in Seq(T) : Len(q) = 0 => q = <<>>
            BY EmptySeq
        <2> QED BY <1>2, <2>1
    <1>5. ASSUME NEW n \in Nat, n \in E PROVE n + 1 \in E
        <2>1. ASSUME NEW q \in Seq(T), Len(q) = n + 1 PROVE Holds(q)
            <3>1. q # <<>>
                BY <2>1, EmptySeq
            <3>2. PICK p \in Seq(T), x \in T : q = Append(p, x)
                BY <3>1, SequenceEmptyOrAppend
            <3>3. Len(p) = n
                BY <2>1, <3>2, AppendProperties, LenProperties
            <3>4. Holds(p)
                BY <1>5, <3>3
            <3> QED BY <1>3, <3>2, <3>4
        <2> QED BY <2>1
    <1>6. Nat \subseteq E
        <2> HIDE DEF E
        <2> QED BY <1>4, <1>5, Induct
    <1>7. Holds(seqs)
        <2>1. Len(seqs) \in E
            BY <1>6, LenProperties
        <2> QED BY <2>1
    <1> QED BY <1>7 DEF Holds

-----------------------------------------------------------------------------
(* Fields at a position.                                                   *)

(* A sequence that occurs in another behind the first o elements.          *)
At(data, o, f) ==
    /\ o + Len(f) <= Len(data)
    /\ \A i \in 1..Len(f) : data[o + i] = f[i]

(* A concatenation occurs where its first part does, with the second       *)
(* behind it.                                                              *)
LEMMA AtConcat ==
    ASSUME NEW S, NEW data \in Seq(S), NEW o \in Nat, NEW f \in Seq(S), NEW g \in Seq(S)
    PROVE At(data, o, f \o g) <=> At(data, o, f) /\ At(data, o + Len(f), g)
    <1> DEFINE m == Len(f)
               n == Len(g)
    <1>1. /\ Len(f \o g) = m + n
          /\ \A i \in 1..(m + n) : (f \o g)[i] = IF i <= m THEN f[i] ELSE g[i - m]
        BY ConcatProperties
    <1>2. m \in Nat /\ n \in Nat /\ Len(data) \in Nat
        BY LenProperties
    <1> DEFINE h == f \o g
    <1>3. ASSUME At(data, o, h) PROVE At(data, o, f) /\ At(data, o + m, g)
        <2> HIDE DEF h, m, n
        <2>0. o + (m + n) <= Len(data) /\ \A i \in 1..(m + n) : data[o + i] = h[i]
            BY <1>3, <1>1 DEF At, h
        <2>1. ASSUME NEW i \in 1..m PROVE data[o + i] = f[i]
            <3>1. i \in 1..(m + n) /\ i <= m
                BY <1>2
            <3> QED BY <3>1, <2>0, <1>1 DEF h
        <2>2. ASSUME NEW i \in 1..n PROVE data[(o + m) + i] = g[i]
            <3>1. m + i \in 1..(m + n) /\ ~(m + i <= m) /\ (m + i) - m = i /\ o + (m + i) = (o + m) + i
                BY <1>2
            <3> QED BY <3>1, <2>0, <1>1 DEF h
        <2>3. o + m <= Len(data) /\ (o + m) + n <= Len(data)
            BY <2>0, <1>2
        <2> QED BY <2>1, <2>2, <2>3 DEF At, m, n
    <1>4. ASSUME At(data, o, f), At(data, o + m, g) PROVE At(data, o, h)
        <2> HIDE DEF h, m, n
        <2>1. /\ \A i \in 1..m : data[o + i] = f[i]
              /\ \A i \in 1..n : data[(o + m) + i] = g[i]
              /\ (o + m) + n <= Len(data)
            BY <1>4 DEF At, m, n
        <2>2. ASSUME NEW i \in 1..(m + n) PROVE data[o + i] = h[i]
            <3>1. CASE i <= m
                <4>1. i \in 1..m
                    BY <3>1, <1>2
                <4> QED BY <3>1, <4>1, <2>1, <1>1 DEF h
            <3>2. CASE ~(i <= m)
                <4>1. i - m \in 1..n /\ (o + m) + (i - m) = o + i
                    BY <3>2, <1>2
                <4> QED BY <3>2, <4>1, <2>1, <1>1 DEF h
            <3> QED BY <3>1, <3>2
        <2>3. o + (m + n) <= Len(data)
            BY <2>1, <1>2
        <2> QED BY <2>2, <2>3, <1>1 DEF At, h
    <1> HIDE DEF h
    <1> QED BY <1>3, <1>4 DEF h, m

(* A concatenation holds both its parts.                                   *)
LEMMA AtStart ==
    ASSUME NEW S, NEW f \in Seq(S), NEW g \in Seq(S)
    PROVE At(f \o g, 0, f) /\ At(f \o g, Len(f), g)
    <1>1. f \o g \in Seq(S) /\ Len(f) \in Nat
        BY ConcatProperties
    <1>2. At(f \o g, 0, f \o g)
        <2> DEFINE h == f \o g
        <2>1. Len(h) \in Nat
            BY <1>1
        <2> HIDE DEF h
        <2>2. At(h, 0, h)
            BY <2>1 DEF At
        <2> QED BY <2>2 DEF h
    <1>3. At(f \o g, 0, f) /\ At(f \o g, 0 + Len(f), g)
        BY <1>1, <1>2, AtConcat
    <1> QED BY <1>1, <1>3

(* A field that is there is its width in bytes, those behind the offset.   *)
LEMMA FieldType ==
    ASSUME NEW S, NEW data \in Seq(S), NEW o \in Nat, NEW w \in Nat, ~Short(data, o, w)
    PROVE /\ Field(data, o, w) \in Seq(S) /\ Len(Field(data, o, w)) = w
          /\ \A i \in 1..w : Field(data, o, w)[i] = data[o + i]
    <1>1. o + w <= Len(data) /\ Len(data) \in Nat
        BY LenProperties DEF Short
    <1> DEFINE first == o + 1
               last == o + w
    <1>2. first \in Int /\ last \in Int /\ \A i \in first..last : data[i] \in S
        BY <1>1, ElementOfSeq
    <1>3. /\ SubSeq(data, first, last) \in Seq(S)
          /\ Len(SubSeq(data, first, last)) = IF first <= last THEN last - first + 1 ELSE 0
          /\ \A i \in 1..(last - first + 1) : SubSeq(data, first, last)[i] = data[first + i - 1]
        <2> HIDE DEF first, last
        <2> QED BY <1>2, SubSeqProperties
    <1>4. /\ (IF first <= last THEN last - first + 1 ELSE 0) = w
          /\ last - first + 1 = w
          /\ \A i \in 1..w : first + i - 1 = o + i
        OBVIOUS
    <1>5. Field(data, o, w) = SubSeq(data, first, last)
        BY DEF Field
    <1> HIDE DEF first, last
    <1> QED BY <1>3, <1>4, <1>5

(* What occurs at an offset is the field of its length there.              *)
LEMMA AtField ==
    ASSUME NEW S, NEW data \in Seq(S), NEW o \in Nat, NEW f \in Seq(S), At(data, o, f)
    PROVE Field(data, o, Len(f)) = f /\ ~Short(data, o, Len(f))
    <1>1. Len(f) \in Nat /\ Len(data) \in Nat
        BY LenProperties
    <1>2. ~Short(data, o, Len(f))
        BY <1>1 DEF At, Short
    <1>3. /\ Field(data, o, Len(f)) \in Seq(S) /\ Len(Field(data, o, Len(f))) = Len(f)
          /\ \A i \in 1..Len(f) : Field(data, o, Len(f))[i] = data[o + i]
        BY <1>1, <1>2, FieldType
    <1>4. \A i \in 1..Len(f) : Field(data, o, Len(f))[i] = f[i]
        <2>1. \A i \in 1..Len(f) : data[o + i] = f[i]
            BY DEF At
        <2> QED BY <1>3, <2>1
    <1> QED BY <1>2, <1>3, <1>4, SeqEqual

(* A sequence that begins with another.                                    *)
Starts(d, data) == Len(d) <= Len(data) /\ \A i \in 1..Len(d) : d[i] = data[i]

(* A field that the beginning of a message holds is the message's field.   *)
LEMMA FieldStable ==
    ASSUME NEW S, NEW d \in Seq(S), NEW data \in Seq(S), Starts(d, data),
           NEW o \in Nat, NEW w \in Nat, ~Short(d, o, w)
    PROVE Field(d, o, w) = Field(data, o, w) /\ ~Short(data, o, w)
    <1>1. o + w <= Len(d) /\ Len(d) \in Nat /\ Len(data) \in Nat
        BY LenProperties DEF Short
    <1>2. ~Short(data, o, w)
        BY <1>1 DEF Starts, Short
    <1>3. \A i \in 1..w : d[o + i] = data[o + i]
        BY <1>1 DEF Starts
    <1>4. \A i \in 1..w : Field(d, o, w)[i] = Field(data, o, w)[i]
        <2>1. \A i \in 1..w : Field(d, o, w)[i] = d[o + i]
            BY FieldType
        <2>2. \A i \in 1..w : Field(data, o, w)[i] = data[o + i]
            BY <1>2, FieldType
        <2> QED BY <1>3, <2>1, <2>2
    <1>5. /\ Field(d, o, w) \in Seq(S) /\ Len(Field(d, o, w)) = w
          /\ Field(data, o, w) \in Seq(S) /\ Len(Field(data, o, w)) = w
        BY <1>2, FieldType
    <1> QED BY <1>2, <1>4, <1>5, SeqEqual

(* A field that is there holds its two parts.                              *)
LEMMA Shorter ==
    ASSUME NEW S, NEW d \in Seq(S), NEW o \in Nat, NEW w \in Nat, NEW v \in Nat,
           ~Short(d, o, w + v)
    PROVE ~Short(d, o, w) /\ ~Short(d, o + w, v)
    <1>1. Len(d) \in Nat
        BY LenProperties
    <1> QED BY <1>1 DEF Short

-----------------------------------------------------------------------------
(* Decoders see a beginning of the message or all of it.                   *)

(* No field of fixed width is empty.                                       *)
LEMMA Widths ==
    /\ LenWidth \in Nat \ {0} /\ TagWidth \in Nat \ {0}
    /\ HashWidth \in Nat \ {0} /\ AddressWidth \in Nat \ {0}
    /\ HeaderWidth \in Nat \ {0}
    BY WidthsAssumption, HeaderWidthAssumption

(* The three outcomes of a decoder, told apart.                            *)
LEMMA Results ==
    ASSUME NEW action, NEW tx, NEW next
    PROVE /\ Error.outcome = "error" /\ Panic.outcome = "panic"
          /\ Done(action, tx, next).outcome = "ok" /\ Done(action, tx, next).next = next
          /\ Done(action, tx, next).event = [hash |-> <<>>, action |-> action, tx |-> tx]
    BY DEF Error, Panic, Done, NoEvent

(* A decoder that finds all it needs in the beginning of a message finds   *)
(* the same in the whole message, and ends within that beginning.          *)
Stable(d, r, s) ==
    r.outcome = "ok" =>
      s = r /\ \E next \in Nat : next <= Len(d) /\ \E action, tx : r = Done(action, tx, next)

(* An outcome with a place within the beginning is stable.                 *)
LEMMA StableDone ==
    ASSUME NEW d, NEW action, NEW tx, NEW next \in Nat, next <= Len(d)
    PROVE Stable(d, Done(action, tx, next), Done(action, tx, next))
    <1> DEFINE r == Done(action, tx, next)
    <1>1. \E n \in Nat : n <= Len(d) /\ \E a, t : r = Done(a, t, n)
        OBVIOUS
    <1> HIDE DEF r
    <1> QED BY <1>1 DEF Stable, r

(* The same of an event without a transaction.                             *)
LEMMA StableEmpty ==
    ASSUME NEW d, NEW action, NEW next \in Nat, next <= Len(d)
    PROVE Stable(d, Done(action, <<>>, next), Done(action, <<>>, next))
    <1> DEFINE none == <<>>
    <1>1. Stable(d, Done(action, none, next), Done(action, none, next))
        <2> HIDE DEF none
        <2> QED BY StableDone
    <1> QED BY <1>1

(* decodeInsert: what an insertion is does not depend on what follows it.  *)
LEMMA InsertStable ==
    ASSUME NEW d \in Seq(Byte), NEW data \in Seq(Byte), Starts(d, data), NEW o \in Nat
    PROVE Stable(d, decodeInsert(d, o), decodeInsert(data, o))
    <1> DEFINE all == LenWidth + AddressWidth + 1 + LenWidth
               owned == o + LenWidth + AddressWidth
               bytes == owned + 1 + LenWidth
               size == Number(Field(d, owned + 1, LenWidth))
               tx == Field(d, bytes, size)
    <1>1. SUFFICES ASSUME decodeInsert(d, o).outcome = "ok"
                   PROVE Stable(d, decodeInsert(d, o), decodeInsert(data, o))
        BY DEF Stable
    <1>2. /\ ~Short(d, o, all) /\ Number(Field(d, o, LenWidth)) = AddressWidth
          /\ ~Short(d, bytes, size) /\ tx \in Transactions
          /\ decodeInsert(d, o) = Done("insert", tx, bytes + size)
        <2>1. "error" # "ok" /\ Error.outcome = "error"
            BY Results
        <2> QED BY <1>1, <2>1 DEF decodeInsert
    <1>3. o + all <= Len(d) /\ Len(d) \in Nat
        BY <1>2, LenProperties, Widths DEF Short
    <1>4. ~Short(d, o, LenWidth) /\ ~Short(d, owned + 1, LenWidth) /\ owned + 1 \in Nat /\ bytes \in Nat
        BY <1>3, Widths DEF Short
    <1> HIDE DEF all, owned, bytes
    <1>5. /\ Field(d, o, LenWidth) = Field(data, o, LenWidth)
          /\ Field(d, owned + 1, LenWidth) = Field(data, owned + 1, LenWidth)
          /\ Field(d, owned + 1, LenWidth) \in Seq(Byte)
        BY <1>4, Widths, FieldStable, FieldType
    <1>6. size \in Nat
        BY <1>5, NumberType
    <1> HIDE DEF size
    <1>7. tx = Field(data, bytes, size) /\ ~Short(data, bytes, size)
        BY <1>2, <1>4, <1>6, FieldStable
    <1>8. all \in Nat /\ ~Short(data, o, all)
        <2>1. all \in Nat
            BY Widths DEF all
        <2> QED BY <1>2, <2>1, FieldStable
    <1>9. size = Number(Field(data, owned + 1, LenWidth))
        BY <1>5 DEF size
    <1>10. decodeInsert(data, o) = Done("insert", tx, bytes + size)
        <2> HIDE DEF tx
        <2>1. Number(Field(data, o, LenWidth)) = AddressWidth
            BY <1>2, <1>5
        <2>2. ~Short(data, o, LenWidth + AddressWidth + 1 + LenWidth)
            BY <1>8 DEF all
        <2> QED BY <1>2, <1>7, <1>9, <2>1, <2>2 DEF decodeInsert, owned, bytes
    <1>11. bytes + size <= Len(d) /\ bytes + size \in Nat
        BY <1>2, <1>3, <1>4, <1>6 DEF Short
    <1> HIDE DEF tx
    <1> QED BY <1>2, <1>10, <1>11, StableDone

(* skipReplacement: the same, and it panics only when the length of the    *)
(* hash is not all there.                                                  *)
LEMMA ReplacementStable ==
    ASSUME NEW d \in Seq(Byte), NEW data \in Seq(Byte), Starts(d, data), NEW o \in Nat
    PROVE /\ Stable(d, skipReplacement(d, o), skipReplacement(data, o))
          /\ skipReplacement(d, o).outcome = "panic" => Short(d, o, LenWidth)
    <1> DEFINE next == o + LenWidth
    <1>1. skipReplacement(d, o).outcome = "panic" => Short(d, o, LenWidth)
        BY Results DEF skipReplacement
    <1>2. SUFFICES ASSUME skipReplacement(d, o).outcome = "ok"
                   PROVE Stable(d, skipReplacement(d, o), skipReplacement(data, o))
        BY <1>1 DEF Stable
    <1>3. /\ ~Short(d, o, LenWidth) /\ Number(Field(d, o, LenWidth)) = HashWidth
          /\ ~Short(d, next, HashWidth)
          /\ skipReplacement(d, o) = Done("drop", <<>>, next + HashWidth)
        BY <1>2, Results DEF skipReplacement
    <1>4. next \in Nat /\ next + HashWidth \in Nat /\ next + HashWidth <= Len(d)
        BY <1>3, LenProperties, Widths DEF Short
    <1>5. /\ Field(d, o, LenWidth) = Field(data, o, LenWidth)
          /\ ~Short(data, o, LenWidth) /\ ~Short(data, next, HashWidth)
        BY <1>3, <1>4, Widths, FieldStable
    <1>6. skipReplacement(data, o) = Done("drop", <<>>, next + HashWidth)
        BY <1>3, <1>5 DEF skipReplacement
    <1> HIDE DEF next
    <1> QED BY <1>3, <1>4, <1>6, StableDone

(* decodeDrop: the same, and it panics only at the hash of a replacement.  *)
LEMMA DropStable ==
    ASSUME NEW d \in Seq(Byte), NEW data \in Seq(Byte), Starts(d, data), NEW o \in Nat
    PROVE /\ Stable(d, decodeDrop(d, o), decodeDrop(data, o))
          /\ decodeDrop(d, o).outcome = "panic" =>
               /\ ~Short(d, o, TagWidth)
               /\ Number(Field(d, o, TagWidth)) = ReplacedByHigherPriority
               /\ Short(d, o + TagWidth, LenWidth)
    <1> DEFINE next == o + TagWidth
               reason == Number(Field(d, o, TagWidth))
    <1>1. CASE Short(d, o, TagWidth)
        <2>1. decodeDrop(d, o) = Error
            BY <1>1 DEF decodeDrop
        <2> QED BY <2>1, Results DEF Stable
    <1>2. CASE ~Short(d, o, TagWidth)
        <2>1. /\ Field(d, o, TagWidth) = Field(data, o, TagWidth) /\ ~Short(data, o, TagWidth)
              /\ next \in Nat /\ next <= Len(d)
            BY <1>2, Widths, FieldStable DEF Short
        <2>2. CASE reason = ReplacedByHigherPriority
            <3>1. /\ decodeDrop(d, o) = skipReplacement(d, next)
                  /\ decodeDrop(data, o) = skipReplacement(data, next)
                BY <1>2, <2>1, <2>2 DEF decodeDrop
            <3>2. /\ Stable(d, skipReplacement(d, next), skipReplacement(data, next))
                  /\ skipReplacement(d, next).outcome = "panic" => Short(d, next, LenWidth)
                BY <2>1, ReplacementStable
            <3> QED BY <1>2, <2>2, <3>1, <3>2
        <2>3. CASE reason # ReplacedByHigherPriority /\ reason \notin NestedReasons
            <3>1. /\ decodeDrop(d, o) = Done("drop", <<>>, next)
                  /\ decodeDrop(data, o) = Done("drop", <<>>, next)
                BY <1>2, <2>1, <2>3 DEF decodeDrop
            <3> HIDE DEF next
            <3>8. Stable(d, Done("drop", <<>>, next), Done("drop", <<>>, next))
                BY <2>1, StableEmpty
            <3>9. Done("drop", <<>>, next).outcome = "ok"
                BY DEF Done
            <3> QED BY <3>1, <3>8, <3>9
        <2>4. CASE reason # ReplacedByHigherPriority /\ reason \in NestedReasons
            <3>1. CASE Short(d, next, TagWidth)
                <4>1. decodeDrop(d, o) = Error
                    BY <1>2, <2>4, <3>1 DEF decodeDrop
                <4> QED BY <4>1, Results DEF Stable
            <3>2. CASE ~Short(d, next, TagWidth)
                <4>1. ~Short(data, next, TagWidth)
                    BY <2>1, <3>2, Widths, FieldStable
                <4>2. next + TagWidth \in Nat /\ next + TagWidth <= Len(d)
                    BY <2>1, <3>2, Widths, LenProperties DEF Short
                <4>3. /\ decodeDrop(d, o) = Done("drop", <<>>, next + TagWidth)
                      /\ decodeDrop(data, o) = Done("drop", <<>>, next + TagWidth)
                    BY <1>2, <2>1, <2>4, <3>2, <4>1 DEF decodeDrop
                <4> HIDE DEF next
                <4>8. Stable(d, Done("drop", <<>>, next + TagWidth), Done("drop", <<>>, next + TagWidth))
                    BY <4>2, StableEmpty
                <4>9. Done("drop", <<>>, next + TagWidth).outcome = "ok"
                    BY DEF Done
                <4> QED BY <4>3, <4>8, <4>9
            <3> QED BY <3>1, <3>2
        <2> QED BY <2>2, <2>3, <2>4
    <1> QED BY <1>1, <1>2

(* decodeEvict: the same, and it never panics.                             *)
LEMMA EvictStable ==
    ASSUME NEW d \in Seq(Byte), NEW data \in Seq(Byte), Starts(d, data), NEW o \in Nat
    PROVE Stable(d, decodeEvict(d, o), decodeEvict(data, o)) /\ decodeEvict(d, o).outcome # "panic"
    <1>1. CASE Short(d, o, TagWidth)
        <2>1. decodeEvict(d, o) = Error
            BY <1>1 DEF decodeEvict
        <2> QED BY <2>1, Results DEF Stable
    <1>2. CASE ~Short(d, o, TagWidth)
        <2>1. ~Short(data, o, TagWidth)
            BY <1>2, Widths, FieldStable
        <2>2. o + TagWidth \in Nat /\ o + TagWidth <= Len(d)
            BY <1>2, Widths, LenProperties DEF Short
        <2>3. /\ decodeEvict(d, o) = Done("evict", <<>>, o + TagWidth)
              /\ decodeEvict(data, o) = Done("evict", <<>>, o + TagWidth)
            BY <1>2, <2>1 DEF decodeEvict
        <2>8. Stable(d, Done("evict", <<>>, o + TagWidth), Done("evict", <<>>, o + TagWidth))
            BY <2>2, StableEmpty
        <2>9. Done("evict", <<>>, o + TagWidth).outcome = "ok"
            BY DEF Done
        <2> QED BY <2>3, <2>8, <2>9
    <1> QED BY <1>1, <1>2

(* How a panic comes about, seen from the variant of an event.             *)
PanicsAt(d, o) ==
    /\ ~Short(d, o, TagWidth) /\ Number(Field(d, o, TagWidth)) % Base = 2
    /\ ~Short(d, o + TagWidth, TagWidth)
    /\ Number(Field(d, o + TagWidth, TagWidth)) = ReplacedByHigherPriority
    /\ Short(d, (o + TagWidth) + TagWidth, LenWidth)

(* decodeEventAction: the same of every variant.                           *)
LEMMA ActionStable ==
    ASSUME NEW d \in Seq(Byte), NEW data \in Seq(Byte), Starts(d, data), NEW o \in Nat
    PROVE /\ Stable(d, decodeEventAction(d, o), decodeEventAction(data, o))
          /\ decodeEventAction(d, o).outcome = "panic" => PanicsAt(d, o)
    <1> DEFINE next == o + TagWidth
               variant == Number(Field(d, o, TagWidth)) % Base
    <1>1. CASE Short(d, o, TagWidth)
        <2>1. decodeEventAction(d, o) = Error
            BY <1>1 DEF decodeEventAction
        <2> QED BY <2>1, Results DEF Stable
    <1>2. CASE ~Short(d, o, TagWidth)
        <2>1. /\ Field(d, o, TagWidth) = Field(data, o, TagWidth) /\ ~Short(data, o, TagWidth)
              /\ next \in Nat /\ next <= Len(d)
            BY <1>2, Widths, FieldStable DEF Short
        <2>2. CASE variant = 0
            <3>1. /\ decodeEventAction(d, o) = decodeInsert(d, next)
                  /\ decodeEventAction(data, o) = decodeInsert(data, next)
                BY <1>2, <2>1, <2>2 DEF decodeEventAction
            <3>2. decodeInsert(d, next).outcome # "panic"
                BY Results DEF decodeInsert
            <3> QED BY <2>1, <3>1, <3>2, InsertStable
        <2>3. CASE variant = 1
            <3>1. /\ decodeEventAction(d, o) = Done("commit", <<>>, next)
                  /\ decodeEventAction(data, o) = Done("commit", <<>>, next)
                BY <1>2, <2>1, <2>3 DEF decodeEventAction
            <3> HIDE DEF next
            <3>8. Stable(d, Done("commit", <<>>, next), Done("commit", <<>>, next))
                BY <2>1, StableEmpty
            <3>9. Done("commit", <<>>, next).outcome = "ok"
                BY DEF Done
            <3> QED BY <3>1, <3>8, <3>9
        <2>4. CASE variant = 2
            <3>1. /\ decodeEventAction(d, o) = decodeDrop(d, next)
                  /\ decodeEventAction(data, o) = decodeDrop(data, next)
                BY <1>2, <2>1, <2>4 DEF decodeEventAction
            <3> QED BY <1>2, <2>1, <2>4, <3>1, DropStable DEF PanicsAt
        <2>5. CASE variant = 3
            <3>1. /\ decodeEventAction(d, o) = decodeEvict(d, next)
                  /\ decodeEventAction(data, o) = decodeEvict(data, next)
                BY <1>2, <2>1, <2>5 DEF decodeEventAction
            <3> QED BY <2>1, <3>1, EvictStable
        <2>6. CASE variant \notin {0, 1, 2, 3}
            <3>1. decodeEventAction(d, o) = Error
                BY <1>2, <2>6 DEF decodeEventAction
            <3> QED BY <3>1, Results DEF Stable
        <2> QED BY <2>2, <2>3, <2>4, <2>5, <2>6
    <1> QED BY <1>1, <1>2

(* decodeEthTxPoolEvent: the same of a whole event.                        *)
LEMMA EventStable ==
    ASSUME NEW d \in Seq(Byte), NEW data \in Seq(Byte), Starts(d, data), NEW o \in Nat
    PROVE /\ decodeEthTxPoolEvent(d, o).outcome = "ok" =>
               /\ decodeEthTxPoolEvent(data, o) = decodeEthTxPoolEvent(d, o)
               /\ decodeEthTxPoolEvent(d, o).next \in 0..Len(d)
          /\ decodeEthTxPoolEvent(d, o).outcome = "panic" => PanicsAt(d, o + LenWidth + HashWidth)
    <1> DEFINE hash == o + LenWidth
               act == decodeEventAction(d, hash + HashWidth)
               r == decodeEthTxPoolEvent(d, o)
    <1>1. CASE \/ Short(d, o, LenWidth) \/ Number(Field(d, o, LenWidth)) # HashWidth
               \/ Short(d, hash, HashWidth)
        <2>1. r = Error
            BY <1>1 DEF decodeEthTxPoolEvent
        <2> QED BY <2>1, Results
    <1>2. CASE ~(\/ Short(d, o, LenWidth) \/ Number(Field(d, o, LenWidth)) # HashWidth
                 \/ Short(d, hash, HashWidth))
        <2>1. /\ Field(d, o, LenWidth) = Field(data, o, LenWidth) /\ ~Short(data, o, LenWidth)
              /\ Field(d, hash, HashWidth) = Field(data, hash, HashWidth)
              /\ ~Short(data, hash, HashWidth) /\ hash + HashWidth \in Nat
            BY <1>2, Widths, FieldStable
        <2>2. /\ Stable(d, act, decodeEventAction(data, hash + HashWidth))
              /\ act.outcome = "panic" => PanicsAt(d, hash + HashWidth)
            BY <2>1, ActionStable
        <2>3. CASE act.outcome # "ok"
            <3>1. r = act
                BY <1>2, <2>3 DEF decodeEthTxPoolEvent
            <3> QED BY <2>2, <2>3, <3>1 DEF Stable
        <2>4. CASE act.outcome = "ok"
            <3>1. act = decodeEventAction(data, hash + HashWidth)
                BY <2>2, <2>4 DEF Stable
            <3>a. PICK n \in Nat : n <= Len(d) /\ \E a, t : act = Done(a, t, n)
                BY <2>2, <2>4 DEF Stable
            <3>0. PICK a, t : act = Done(a, t, n)
                BY <3>a
            <3>2. /\ r = [act EXCEPT !.event.hash = Field(d, hash, HashWidth)]
                  /\ decodeEthTxPoolEvent(data, o) = [act EXCEPT !.event.hash = Field(d, hash, HashWidth)]
                BY <1>2, <2>1, <2>4, <3>1 DEF decodeEthTxPoolEvent
            <3>3. r.next = n /\ r.outcome = "ok"
                <4> HIDE DEF r, act, hash
                <4> QED BY <3>0, <3>2 DEF Done, NoEvent
            <3>4. n \in 0..Len(d)
                BY <3>a, <3>0, LenProperties
            <3> HIDE DEF act, hash
            <3> QED BY <3>2, <3>3, <3>4
        <2> QED BY <2>3, <2>4
    <1> QED BY <1>1, <1>2

-----------------------------------------------------------------------------
(* What the txpool encodes is decoded.                                     *)

(* A concatenation's type and length.                                      *)
LEMMA Concat ==
    ASSUME NEW S, NEW f \in Seq(S), NEW g \in Seq(S)
    PROVE f \o g \in Seq(S) /\ Len(f \o g) = Len(f) + Len(g) /\ Len(f) \in Nat /\ Len(g) \in Nat
    BY ConcatProperties, LenProperties

(* A byte holds each variant of an event, and the one that marks an        *)
(* address.                                                                *)
LEMMA BaseAboveVariants == 4 < Base /\ 1 \in Byte
    <1>1. Base = StringMark + ShortLimit + LengthBytes + ShortLimit + LengthBytes
        BY RangeAssumption DEF ListMark
    <1>2. StringMark \in Nat \ {0} /\ ShortLimit \in Nat \ {0} /\ LengthBytes \in Nat \ {0}
        BY RangeAssumption
    <1>3. 4 < Base
        BY <1>1, <1>2
    <1> QED BY <1>3, BaseAssumption DEF Byte

(* A field that is not empty holds a byte.                                 *)
LEMMA PowerAboveBase ==
    ASSUME NEW w \in Nat \ {0}
    PROVE Base <= Power[w]
    <1> DEFINE p == Power[w - 1]
    <1>1. w - 1 \in Nat /\ (w - 1) + 1 = w
        OBVIOUS
    <1>2. Power[w] = Base * p
        BY <1>1, PowerDef
    <1>3. p \in Nat \ {0}
        BY <1>1, PowerType
    <1> HIDE DEF p
    <1>4. \A x \in Nat : \A y \in Nat \ {0} : x <= x * y
        OBVIOUS
    <1> QED BY <1>2, <1>3, <1>4, BaseAssumption

(* The length in front of a hash is read back.                             *)
LEMMA HashPrefixType ==
    /\ HashPrefix \in Seq(Byte) /\ Len(HashPrefix) = LenWidth
    /\ Number(HashPrefix) = HashWidth
    BY WordType, NumberOfWord, Widths, PrefixesAssumption DEF HashPrefix

(* A variant fits its field and is told from the others by its first byte. *)
LEMMA VariantType ==
    ASSUME NEW e \in Event
    PROVE /\ Variant(e) \in Nat /\ Variant(e) < Base /\ Variant(e) < Power[TagWidth]
          /\ Variant(e) % Base = Variant(e)
    <1>1. Variant(e) \in 0..4
        BY DEF Variant, Event
    <1>2. Base \in Nat \ {0} /\ 4 < Base /\ Base <= Power[TagWidth] /\ Power[TagWidth] \in Nat
        BY BaseAssumption, BaseAboveVariants, PowerAboveBase, PowerType, Widths
    <1> QED BY <1>1, <1>2

(* What the parts of an event are.                                         *)
LEMMA EventType ==
    ASSUME NEW e \in Event
    PROVE /\ e.hash \in Seq(Byte) /\ Len(e.hash) = HashWidth
          /\ e.tx \in Seq(Byte) /\ Len(e.tx) \in Nat /\ e.reason \in Nat
          /\ e.action \in {"insert", "commit", "drop", "evict", "newer"}
    <1>1. e.hash \in [1..HashWidth -> Byte]
        BY DEF Event
    <1>2. e.hash \in Seq(Byte) /\ Len(e.hash) = HashWidth
        BY <1>1, Widths
    <1> QED BY <1>2, LenProperties DEF Event

(* The fields of an insertion, one by one.                                 *)
LEMMA InsertFields ==
    ASSUME NEW e \in Event, e.action = "insert"
    PROVE /\ Fields(e) \in Seq(Byte)
          /\ Len(Fields(e)) = LenWidth + AddressWidth + 1 + LenWidth + Len(e.tx)
          /\ \A data \in Seq(Byte), o \in Nat : At(data, o, Fields(e)) =>
               /\ At(data, o, Word(AddressWidth, LenWidth))
               /\ At(data, o + LenWidth + AddressWidth + 1, Word(Len(e.tx), LenWidth))
               /\ At(data, o + LenWidth + AddressWidth + 1 + LenWidth, e.tx)
    <1> DEFINE A == Word(AddressWidth, LenWidth)
               B == Word(0, AddressWidth)
               C == <<1>>
               D == Word(Len(e.tx), LenWidth)
               F == e.tx
    <1>1. /\ A \in Seq(Byte) /\ Len(A) = LenWidth /\ B \in Seq(Byte) /\ Len(B) = AddressWidth
          /\ D \in Seq(Byte) /\ Len(D) = LenWidth /\ F \in Seq(Byte)
        BY WordType, EventType, Widths
    <1>2. C \in Seq(Byte) /\ Len(C) = 1
        BY BaseAboveVariants
    <1>3. Fields(e) = A \o B \o C \o D \o F
        BY DEF Fields
    <1> HIDE DEF A, B, C, D, F
    <1>0. LenWidth \in Nat /\ AddressWidth \in Nat /\ Len(F) \in Nat
        BY <1>1, Widths, LenProperties
    <1>a. /\ A \o B \in Seq(Byte) /\ Len(A \o B) = LenWidth + AddressWidth
        BY <1>1, Concat
    <1> DEFINE AB == A \o B
               ABC == AB \o C
               ABCD == ABC \o D
               m == LenWidth + AddressWidth + 1
               n == LenWidth + AddressWidth + 1 + LenWidth
    <1>b. AB \in Seq(Byte) /\ Len(AB) = LenWidth + AddressWidth
        BY <1>a
    <1>c. m \in Nat /\ n \in Nat /\ n = m + LenWidth
        BY <1>0
    <1> HIDE DEF AB
    <1>4. ABC \in Seq(Byte) /\ Len(ABC) = m
        BY <1>b, <1>0, <1>2, Concat
    <1> HIDE DEF ABC
    <1>5. ABCD \in Seq(Byte) /\ Len(ABCD) = n
        <2>1. D \in Seq(Byte) /\ Len(D) = LenWidth
            BY <1>1
        <2>2. ABCD \in Seq(Byte) /\ Len(ABCD) = m + LenWidth
            <3> HIDE DEF D, m, n
            <3> QED BY <1>4, <2>1, Concat
        <2> HIDE DEF ABCD, D, m, n
        <2> QED BY <1>c, <2>2
    <1> HIDE DEF ABCD, m, n
    <1>6. Fields(e) = ABCD \o F /\ Fields(e) \in Seq(Byte) /\ Len(Fields(e)) = n + Len(F)
        <2>1. Fields(e) = ABCD \o F
            BY <1>3 DEF ABCD, ABC, AB
        <2>2. F \in Seq(Byte)
            BY <1>1
        <2> HIDE DEF F
        <2>3. ABCD \o F \in Seq(Byte) /\ Len(ABCD \o F) = Len(ABCD) + Len(F)
            BY ONLY <1>5, <2>2, Concat
        <2> DEFINE whole == ABCD \o F
        <2> HIDE DEF whole
        <2>4. whole \in Seq(Byte) /\ Len(whole) = n + Len(F)
            BY <1>5, <2>3 DEF whole
        <2> QED BY <2>1, <2>4 DEF whole
    <1>7. ASSUME NEW data \in Seq(Byte), NEW o \in Nat, At(data, o, Fields(e))
          PROVE At(data, o, A) /\ At(data, o + m, D) /\ At(data, o + n, F)
        <2>1. At(data, o, ABCD) /\ At(data, o + n, F)
            <3>1. At(data, o, ABCD \o F) /\ F \in Seq(Byte)
                BY <1>1, <1>6, <1>7
            <3>2. data \in Seq(Byte) /\ o \in Nat
                BY <1>7
            <3> HIDE DEF F
            <3> QED BY ONLY <1>5, <3>1, <3>2, AtConcat
        <2>2. At(data, o, ABC) /\ At(data, o + m, D)
            BY <1>1, <1>4, <2>1, AtConcat DEF ABCD
        <2>3. At(data, o, AB)
            BY <1>b, <1>2, <2>2, AtConcat DEF ABC
        <2>4. At(data, o, A)
            BY <1>1, <2>3, AtConcat DEF AB
        <2> QED BY <2>1, <2>2, <2>4
    <1>8. \A o \in Nat : /\ o + n = o + LenWidth + AddressWidth + 1 + LenWidth
                         /\ o + m = o + LenWidth + AddressWidth + 1
        BY <1>0 DEF m, n
    <1> QED BY <1>6, <1>7, <1>8 DEF A, D, F, n

(* decodeInsert takes what was encoded: its transaction, or an error when  *)
(* the transaction is none that it can decode.                             *)
LEMMA InsertDecodes ==
    ASSUME NEW e \in Event, e.action = "insert", EventFits(e),
           NEW data \in Seq(Byte), NEW o \in Nat, At(data, o, Fields(e))
    PROVE /\ e.tx \notin Transactions => decodeInsert(data, o) = Error
          /\ e.tx \in Transactions =>
               decodeInsert(data, o) = Done("insert", e.tx, o + Len(Fields(e)))
    <1> DEFINE owned == o + LenWidth + AddressWidth
               bytes == owned + 1 + LenWidth
               A == Word(AddressWidth, LenWidth)
               D == Word(Len(e.tx), LenWidth)
    <1>1. /\ At(data, o, A) /\ At(data, owned + 1, D) /\ At(data, bytes, e.tx)
          /\ Len(Fields(e)) = LenWidth + AddressWidth + 1 + LenWidth + Len(e.tx)
        BY InsertFields
    <1>2. /\ A \in Seq(Byte) /\ Len(A) = LenWidth /\ Number(A) = AddressWidth
          /\ D \in Seq(Byte) /\ Len(D) = LenWidth /\ Number(D) = Len(e.tx)
        BY WordType, NumberOfWord, EventType, Widths, PrefixesAssumption DEF EventFits
    <1>0. LenWidth \in Nat /\ AddressWidth \in Nat
        BY Widths
    <1>3. owned + 1 \in Nat /\ bytes \in Nat /\ e.tx \in Seq(Byte) /\ Len(e.tx) \in Nat
        BY Widths, EventType
    <1> HIDE DEF A, D
    <1>4. /\ Field(data, o, LenWidth) = A
          /\ Field(data, owned + 1, LenWidth) = D
          /\ Field(data, bytes, Len(e.tx)) = e.tx /\ ~Short(data, bytes, Len(e.tx))
        <2> HIDE DEF owned, bytes
        <2> QED BY <1>1, <1>2, <1>3, AtField
    <1>5. ~Short(data, o, LenWidth + AddressWidth + 1 + LenWidth)
        <2>1. bytes + Len(e.tx) <= Len(data) /\ Len(data) \in Nat
            BY <1>1, LenProperties DEF At
        <2>2. \A k, l \in Nat : bytes + k <= l => ~(l < o + (LenWidth + AddressWidth + 1 + LenWidth))
            BY <1>0
        <2> QED BY <2>1, <2>2, <1>3 DEF Short
    <1>6. bytes + Len(e.tx) = o + Len(Fields(e))
        <2>1. \A k \in Nat : bytes + k = o + (LenWidth + AddressWidth + 1 + LenWidth + k)
            BY <1>0
        <2> QED BY <1>1, <1>3, <2>1
    <1>7. CASE e.tx \in Transactions
        <2>1. decodeInsert(data, o) = Done("insert", e.tx, bytes + Len(e.tx))
            BY <1>2, <1>4, <1>5, <1>7 DEF decodeInsert
        <2> QED BY <1>6, <1>7, <2>1
    <1>8. CASE e.tx \notin Transactions
        BY <1>2, <1>4, <1>5, <1>8 DEF decodeInsert
    <1> QED BY <1>7, <1>8

(* The fields of a drop: the reason and what it may hold.                  *)
LEMMA DropFields ==
    ASSUME NEW e \in Event, e.action = "drop", EventFits(e)
    PROVE LET W == Word(e.reason, TagWidth)
              R == IF e.reason \in NestedReasons THEN Word(1, TagWidth)
                   ELSE IF e.reason = ReplacedByHigherPriority THEN HashPrefix \o Word(0, HashWidth)
                   ELSE <<>>
          IN /\ Fields(e) = W \o R /\ Fields(e) \in Seq(Byte) /\ Len(Fields(e)) = TagWidth + Len(R)
             /\ W \in Seq(Byte) /\ R \in Seq(Byte) /\ Len(W) = TagWidth /\ Number(W) = e.reason
             /\ Len(R) = IF e.reason \in NestedReasons THEN TagWidth
                         ELSE IF e.reason = ReplacedByHigherPriority THEN LenWidth + HashWidth
                         ELSE 0
    <1> DEFINE W == Word(e.reason, TagWidth)
               R == IF e.reason \in NestedReasons THEN Word(1, TagWidth)
                    ELSE IF e.reason = ReplacedByHigherPriority THEN HashPrefix \o Word(0, HashWidth)
                    ELSE <<>>
    <1>1. Fields(e) = W \o R
        BY DEF Fields, ReasonFields
    <1>2. W \in Seq(Byte) /\ Len(W) = TagWidth /\ Number(W) = e.reason
        BY WordType, NumberOfWord, Widths, EventType DEF EventFits
    <1>3. Word(1, TagWidth) \in Seq(Byte) /\ Len(Word(1, TagWidth)) = TagWidth
        BY WordType, Widths
    <1>4. /\ HashPrefix \o Word(0, HashWidth) \in Seq(Byte)
          /\ Len(HashPrefix \o Word(0, HashWidth)) = LenWidth + HashWidth
        <2>1. Word(0, HashWidth) \in Seq(Byte) /\ Len(Word(0, HashWidth)) = HashWidth
            BY WordType, Widths
        <2> QED BY <2>1, HashPrefixType, Concat
    <1>5. <<>> \in Seq(Byte) /\ Len(<<>>) = 0
        BY EmptySeq
    <1>6. /\ R \in Seq(Byte)
          /\ Len(R) = IF e.reason \in NestedReasons THEN TagWidth
                      ELSE IF e.reason = ReplacedByHigherPriority THEN LenWidth + HashWidth
                      ELSE 0
        BY <1>3, <1>4, <1>5
    <1> HIDE DEF W, R
    <1>7. Fields(e) \in Seq(Byte) /\ Len(Fields(e)) = TagWidth + Len(R)
        BY <1>1, <1>2, <1>6, Concat
    <1> QED BY <1>1, <1>2, <1>6, <1>7 DEF W, R

(* decodeDrop takes what was encoded, and all of it.                       *)
LEMMA DropDecodes ==
    ASSUME NEW e \in Event, e.action = "drop", EventFits(e),
           NEW data \in Seq(Byte), NEW o \in Nat, At(data, o, Fields(e))
    PROVE decodeDrop(data, o) = Done("drop", <<>>, o + Len(Fields(e)))
    <1> DEFINE W == Word(e.reason, TagWidth)
               R == IF e.reason \in NestedReasons THEN Word(1, TagWidth)
                    ELSE IF e.reason = ReplacedByHigherPriority THEN HashPrefix \o Word(0, HashWidth)
                    ELSE <<>>
               next == o + TagWidth
    <1>1. /\ Fields(e) = W \o R /\ Len(Fields(e)) = TagWidth + Len(R)
          /\ W \in Seq(Byte) /\ R \in Seq(Byte) /\ Len(W) = TagWidth /\ Number(W) = e.reason
          /\ Len(R) = IF e.reason \in NestedReasons THEN TagWidth
                      ELSE IF e.reason = ReplacedByHigherPriority THEN LenWidth + HashWidth
                      ELSE 0
        BY DropFields
    <1>2. At(data, o, W) /\ At(data, next, R) /\ next \in Nat
        <2>1. next \in Nat
            BY Widths
        <2> HIDE DEF W, R
        <2>2. At(data, o, W) /\ At(data, o + Len(W), R)
            BY <1>1, AtConcat
        <2> QED BY <1>1, <2>1, <2>2
    <1>3. Field(data, o, TagWidth) = W /\ ~Short(data, o, TagWidth)
        <2> HIDE DEF W, R
        <2> QED BY <1>1, <1>2, AtField
    <1>4. Number(Field(data, o, TagWidth)) = e.reason
        BY <1>1, <1>3
    <1>5. ~Short(data, next, Len(R))
        <2> HIDE DEF W, R, next
        <2> QED BY <1>1, <1>2, AtField
    <1>6. CASE e.reason = ReplacedByHigherPriority
        <2>1. e.reason \notin NestedReasons
            BY <1>6 DEF ReplacedByHigherPriority, NestedReasons
        <2>2. R = HashPrefix \o Word(0, HashWidth) /\ Len(R) = LenWidth + HashWidth
            BY <1>1, <1>6, <2>1
        <2>3. At(data, next, HashPrefix)
            <3>1. Word(0, HashWidth) \in Seq(Byte)
                BY WordType, Widths
            <3> HIDE DEF R, next
            <3> QED BY <1>2, <2>2, <3>1, HashPrefixType, AtConcat
        <2> HIDE DEF R, W
        <2>4. Field(data, next, LenWidth) = HashPrefix
            <3> HIDE DEF next
            <3> QED BY <1>2, <2>3, HashPrefixType, AtField
        <2>5. ~Short(data, next, LenWidth) /\ ~Short(data, next + LenWidth, HashWidth)
            <3> HIDE DEF next
            <3> QED BY <1>2, <1>5, <2>2, Widths, Shorter
        <2>6. skipReplacement(data, next) = Done("drop", <<>>, next + LenWidth + HashWidth)
            BY <2>4, <2>5, HashPrefixType DEF skipReplacement
        <2>7. decodeDrop(data, o) = skipReplacement(data, next)
            BY <1>3, <1>4, <1>6 DEF decodeDrop
        <2>8. next + LenWidth + HashWidth = o + Len(Fields(e))
            BY <1>1, <2>2, Widths
        <2> QED BY <2>6, <2>7, <2>8
    <1>7. CASE e.reason # ReplacedByHigherPriority /\ e.reason \notin NestedReasons
        <2>1. decodeDrop(data, o) = Done("drop", <<>>, next)
            BY <1>3, <1>4, <1>7 DEF decodeDrop
        <2>2. next = o + Len(Fields(e))
            <3>1. Len(R) = 0
                BY <1>1, <1>7
            <3> HIDE DEF R
            <3> QED BY <1>1, <3>1, Widths
        <2> QED BY <2>1, <2>2
    <1>8. CASE e.reason # ReplacedByHigherPriority /\ e.reason \in NestedReasons
        <2>1. Len(R) = TagWidth
            BY <1>1, <1>8
        <2> HIDE DEF R, W
        <2>2. decodeDrop(data, o) = Done("drop", <<>>, next + TagWidth)
            BY <1>3, <1>4, <1>5, <1>8, <2>1 DEF decodeDrop
        <2>3. next + TagWidth = o + Len(Fields(e))
            BY <1>1, <2>1, Widths
        <2> QED BY <2>2, <2>3
    <1> QED BY <1>6, <1>7, <1>8

(* The fields of an event are bytes.                                       *)
LEMMA FieldsType ==
    ASSUME NEW e \in Event, EventFits(e)
    PROVE Fields(e) \in Seq(Byte) /\ Len(Fields(e)) \in Nat
    <1>1. CASE e.action = "insert"
        BY <1>1, InsertFields, LenProperties
    <1>2. CASE e.action = "drop"
        BY <1>2, DropFields, LenProperties
    <1>3. CASE e.action = "evict"
        <2>1. Fields(e) = Word(e.reason, TagWidth)
            BY <1>3 DEF Fields
        <2>2. e.reason \in Nat /\ TagWidth \in Nat
            BY EventType, Widths
        <2> QED BY <2>1, <2>2, WordType
    <1>4. CASE e.action \in {"commit", "newer"}
        <2>1. Fields(e) = <<>>
            BY <1>4 DEF Fields
        <2> QED BY <2>1
    <1> QED BY <1>1, <1>2, <1>3, <1>4, EventType

(* An event's bytes: its hash behind a length, the variant, the fields.    *)
LEMMA EventFields ==
    ASSUME NEW e \in Event, EventFits(e)
    PROVE /\ EncodeEvent(e) \in Seq(Byte)
          /\ Len(EncodeEvent(e)) = LenWidth + HashWidth + TagWidth + Len(Fields(e))
          /\ \A data \in Seq(Byte), o \in Nat : At(data, o, EncodeEvent(e)) =>
               /\ At(data, o, HashPrefix) /\ At(data, o + LenWidth, e.hash)
               /\ At(data, o + LenWidth + HashWidth, Word(Variant(e), TagWidth))
               /\ At(data, o + LenWidth + HashWidth + TagWidth, Fields(e))
    <1> DEFINE A == HashPrefix
               B == e.hash
               C == Word(Variant(e), TagWidth)
               D == Fields(e)
    <1>1. /\ A \in Seq(Byte) /\ Len(A) = LenWidth /\ B \in Seq(Byte) /\ Len(B) = HashWidth
          /\ C \in Seq(Byte) /\ Len(C) = TagWidth /\ D \in Seq(Byte) /\ Len(D) \in Nat
        BY HashPrefixType, EventType, VariantType, WordType, FieldsType, Widths
    <1>2. EncodeEvent(e) = A \o B \o C \o D
        BY DEF EncodeEvent
    <1>3. LenWidth \in Nat /\ HashWidth \in Nat /\ TagWidth \in Nat
        BY Widths
    <1> HIDE DEF A, B, C, D
    <1> DEFINE AB == A \o B
               ABC == AB \o C
               m == LenWidth + HashWidth
               n == m + TagWidth
    <1>4. AB \in Seq(Byte) /\ Len(AB) = m
        BY <1>1, Concat
    <1>5. m \in Nat /\ n \in Nat
        BY <1>3
    <1> HIDE DEF AB, m
    <1>6. ABC \in Seq(Byte) /\ Len(ABC) = n
        BY <1>1, <1>4, Concat
    <1> HIDE DEF ABC, n
    <1>7. EncodeEvent(e) = ABC \o D /\ EncodeEvent(e) \in Seq(Byte) /\ Len(EncodeEvent(e)) = n + Len(D)
        <2>1. EncodeEvent(e) = ABC \o D
            BY <1>2 DEF ABC, AB
        <2>2. D \in Seq(Byte)
            BY <1>1
        <2> HIDE DEF D
        <2>3. ABC \o D \in Seq(Byte) /\ Len(ABC \o D) = Len(ABC) + Len(D)
            BY ONLY <1>6, <2>2, Concat
        <2> DEFINE whole == ABC \o D
        <2> HIDE DEF whole
        <2>4. whole \in Seq(Byte) /\ Len(whole) = n + Len(D)
            BY <1>6, <2>3 DEF whole
        <2> QED BY <2>1, <2>4 DEF whole
    <1>8. ASSUME NEW data \in Seq(Byte), NEW o \in Nat, At(data, o, EncodeEvent(e))
          PROVE /\ At(data, o, A) /\ At(data, o + LenWidth, B)
                /\ At(data, o + m, C) /\ At(data, o + n, D)
        <2>1. At(data, o, ABC) /\ At(data, o + n, D)
            <3>1. At(data, o, ABC \o D) /\ D \in Seq(Byte)
                BY <1>1, <1>7, <1>8
            <3>2. data \in Seq(Byte) /\ o \in Nat
                BY <1>8
            <3> HIDE DEF D
            <3> QED BY ONLY <1>6, <3>1, <3>2, AtConcat
        <2>2. At(data, o, AB) /\ At(data, o + m, C)
            BY <1>1, <1>4, <2>1, AtConcat DEF ABC
        <2>3. At(data, o, A) /\ At(data, o + LenWidth, B)
            BY <1>1, <2>2, AtConcat DEF AB
        <2> QED BY <2>1, <2>2, <2>3
    <1>9. \A o \in Nat : /\ o + m = o + LenWidth + HashWidth
                         /\ o + n = o + LenWidth + HashWidth + TagWidth
        BY <1>3 DEF m, n
    <1> QED BY <1>7, <1>8, <1>9 DEF A, B, C, D, m, n

(* The transaction of an event as it is meant.                             *)
MeantTx(e) == IF e.action = "insert" THEN e.tx ELSE <<>>

(* decodeEventAction takes what was encoded, or fails at a newer event.    *)
LEMMA ActionDecodes ==
    ASSUME NEW e \in Event, EventFits(e), NEW data \in Seq(Byte), NEW o \in Nat,
           At(data, o, Word(Variant(e), TagWidth)), At(data, o + TagWidth, Fields(e))
    PROVE /\ Understood(e) => decodeEventAction(data, o) =
                                Done(e.action, MeantTx(e), o + TagWidth + Len(Fields(e)))
          /\ ~Understood(e) => decodeEventAction(data, o) = Error
    <1> DEFINE next == o + TagWidth
               W == Word(Variant(e), TagWidth)
    <1>1. W \in Seq(Byte) /\ Len(W) = TagWidth /\ Number(W) % Base = Variant(e) /\ next \in Nat
        <2>1. Variant(e) \in Nat /\ Variant(e) < Power[TagWidth] /\ TagWidth \in Nat /\ next \in Nat
            BY VariantType, Widths
        <2>2. W \in Seq(Byte) /\ Len(W) = TagWidth /\ Number(W) = Variant(e)
            BY <2>1, WordType, NumberOfWord
        <2> QED BY <2>1, <2>2, VariantType
    <1>2. Field(data, o, TagWidth) = W /\ ~Short(data, o, TagWidth)
        <2>1. At(data, o, W)
            OBVIOUS
        <2> HIDE DEF W
        <2> QED BY <1>1, <2>1, AtField
    <1>3. Number(Field(data, o, TagWidth)) % Base = Variant(e)
        BY <1>1, <1>2
    <1>4. CASE e.action = "insert"
        <2>1. decodeEventAction(data, o) = decodeInsert(data, next)
            <3>1. Variant(e) = 0
                BY <1>4 DEF Variant
            <3> QED BY <1>2, <1>3, <3>1 DEF decodeEventAction
        <2>2. Understood(e) <=> e.tx \in Transactions
            BY <1>4 DEF Understood
        <2>3. MeantTx(e) = e.tx
            BY <1>4 DEF MeantTx
        <2>4. /\ e.tx \notin Transactions => decodeInsert(data, next) = Error
              /\ e.tx \in Transactions =>
                   decodeInsert(data, next) = Done("insert", e.tx, next + Len(Fields(e)))
            <3> HIDE DEF next
            <3>1. At(data, next, Fields(e))
                BY DEF next
            <3> QED BY <1>1, <1>4, <3>1, InsertDecodes
        <2> QED BY <1>4, <2>1, <2>2, <2>3, <2>4
    <1>5. CASE e.action = "commit"
        <2>1. decodeEventAction(data, o) = Done("commit", <<>>, next)
            <3>1. Variant(e) = 1
                BY <1>5 DEF Variant
            <3> QED BY <1>2, <1>3, <3>1 DEF decodeEventAction
        <2>2. Understood(e) /\ MeantTx(e) = <<>>
            BY <1>5 DEF Understood, MeantTx
        <2>3. next + Len(Fields(e)) = next
            <3>1. Fields(e) = <<>>
                BY <1>5 DEF Fields
            <3> HIDE DEF next
            <3> QED BY <1>1, <3>1
        <2> QED BY <1>5, <2>1, <2>2, <2>3
    <1>6. CASE e.action = "drop"
        <2>1. decodeEventAction(data, o) = decodeDrop(data, next)
            <3>1. Variant(e) = 2
                BY <1>6 DEF Variant
            <3> QED BY <1>2, <1>3, <3>1 DEF decodeEventAction
        <2>2. Understood(e) /\ MeantTx(e) = <<>>
            BY <1>6 DEF Understood, MeantTx
        <2>3. decodeDrop(data, next) = Done("drop", <<>>, next + Len(Fields(e)))
            <3> HIDE DEF next
            <3>1. At(data, next, Fields(e))
                BY DEF next
            <3> QED BY <1>1, <1>6, <3>1, DropDecodes
        <2> QED BY <1>6, <2>1, <2>2, <2>3
    <1>7. CASE e.action = "evict"
        <2>1. decodeEventAction(data, o) = decodeEvict(data, next)
            <3>1. Variant(e) = 3
                BY <1>7 DEF Variant
            <3> QED BY <1>2, <1>3, <3>1 DEF decodeEventAction
        <2>2. Understood(e) /\ MeantTx(e) = <<>>
            BY <1>7 DEF Understood, MeantTx
        <2>3. Fields(e) = Word(e.reason, TagWidth) /\ Len(Fields(e)) = TagWidth
            BY <1>7, WordType, EventType, Widths DEF Fields
        <2>4. ~Short(data, next, TagWidth)
            <3> HIDE DEF next
            <3>1. At(data, next, Fields(e))
                BY DEF next
            <3> QED BY <1>1, <2>3, <3>1, FieldsType, AtField
        <2>5. decodeEvict(data, next) = Done("evict", <<>>, next + Len(Fields(e)))
            BY <2>3, <2>4 DEF decodeEvict
        <2> QED BY <1>7, <2>1, <2>2, <2>5
    <1>8. CASE e.action = "newer"
        <2>1. Variant(e) = 4
            BY <1>8 DEF Variant
        <2>2. decodeEventAction(data, o) = Error
            BY <1>2, <1>3, <2>1 DEF decodeEventAction
        <2>3. ~Understood(e)
            BY <1>8 DEF Understood
        <2> QED BY <2>2, <2>3
    <1> QED BY <1>4, <1>5, <1>6, <1>7, <1>8, EventType

(* decodeEthTxPoolEvent yields an event as the txpool meant it, and ends   *)
(* where its bytes end; one that it does not understand is an error.       *)
LEMMA EventDecodes ==
    ASSUME NEW e \in Event, EventFits(e), NEW data \in Seq(Byte), NEW o \in Nat,
           At(data, o, EncodeEvent(e))
    PROVE LET r == decodeEthTxPoolEvent(data, o) IN
          /\ Understood(e) => /\ r.outcome = "ok" /\ r.next = o + Len(EncodeEvent(e))
                              /\ r.event = Meant(e)
          /\ ~Understood(e) => r.outcome = "error"
    <1> DEFINE hash == o + LenWidth
               from == hash + HashWidth
               act == decodeEventAction(data, from)
               r == decodeEthTxPoolEvent(data, o)
    <1>1. /\ At(data, o, HashPrefix) /\ At(data, hash, e.hash)
          /\ At(data, from, Word(Variant(e), TagWidth)) /\ At(data, from + TagWidth, Fields(e))
          /\ Len(EncodeEvent(e)) = LenWidth + HashWidth + TagWidth + Len(Fields(e))
        BY EventFields
    <1>2. hash \in Nat /\ from \in Nat
        BY Widths
    <1>3. /\ Field(data, o, LenWidth) = HashPrefix /\ ~Short(data, o, LenWidth)
          /\ Field(data, hash, HashWidth) = e.hash /\ ~Short(data, hash, HashWidth)
        <2> HIDE DEF hash, from
        <2> QED BY <1>1, <1>2, HashPrefixType, EventType, AtField
    <1>4. r = IF act.outcome # "ok" THEN act ELSE [act EXCEPT !.event.hash = e.hash]
        BY <1>3, HashPrefixType DEF decodeEthTxPoolEvent
    <1>5. /\ Understood(e) => act = Done(e.action, MeantTx(e), from + TagWidth + Len(Fields(e)))
          /\ ~Understood(e) => act = Error
        <2> HIDE DEF from
        <2> QED BY <1>1, <1>2, ActionDecodes
    <1>6. CASE Understood(e)
        <2> DEFINE next == from + TagWidth + Len(Fields(e))
        <2>1. act = Done(e.action, MeantTx(e), next)
            BY <1>5, <1>6
        <2>2. next = o + Len(EncodeEvent(e))
            <3>1. LenWidth \in Nat /\ HashWidth \in Nat /\ TagWidth \in Nat /\ Len(Fields(e)) \in Nat
                BY Widths, FieldsType
            <3>2. \A k \in Nat : from + TagWidth + k = o + (LenWidth + HashWidth + TagWidth + k)
                BY <3>1
            <3> QED BY <1>1, <3>1, <3>2
        <2> HIDE DEF next, act
        <2>3. r = [act EXCEPT !.event.hash = e.hash]
            BY <1>4, <2>1 DEF Done
        <2> HIDE DEF r
        <2>4. r.outcome = "ok" /\ r.next = next /\ r.event = Meant(e)
            BY <2>1, <2>3 DEF Done, NoEvent, Meant, MeantTx
        <2> QED BY <1>6, <2>2, <2>4 DEF r
    <1>7. CASE ~Understood(e)
        <2>1. act.outcome = "error"
            BY <1>5, <1>7, Results
        <2>2. r = act
            BY <1>4, <2>1
        <2> QED BY <1>7, <2>1, <2>2
    <1> QED BY <1>6, <1>7

(* Of an event whose last bytes are missing it yields nothing.  It panics  *)
(* at the hash of a replacement alone, when the length is not all there.   *)
LEMMA EventTruncated ==
    ASSUME NEW e \in Event, EventFits(e), NEW data \in Seq(Byte), NEW d \in Seq(Byte),
           NEW o \in Nat, At(data, o, EncodeEvent(e)), Len(data) = o + Len(EncodeEvent(e)),
           Starts(d, data), Len(d) < Len(data)
    PROVE LET r == decodeEthTxPoolEvent(d, o) IN
          /\ r.outcome # "ok"
          /\ r.outcome = "panic" =>
               /\ e.action = "drop" /\ e.reason = ReplacedByHigherPriority
               /\ Len(data) - Len(d) \in (HashWidth + 1)..(HashWidth + LenWidth)
    <1> DEFINE r == decodeEthTxPoolEvent(d, o)
               s == decodeEthTxPoolEvent(data, o)
               from == o + LenWidth + HashWidth
    <1>1. /\ r.outcome = "ok" => s = r /\ r.next \in 0..Len(d)
          /\ r.outcome = "panic" => PanicsAt(d, from)
        BY EventStable
    <1>2. /\ Understood(e) => s.next = Len(data)
          /\ ~Understood(e) => s.outcome = "error"
        BY EventDecodes
    <1>3. Len(d) \in Nat /\ Len(data) \in Nat
        BY LenProperties
    <1>4. r.outcome # "ok"
        <2> HIDE DEF r, s
        <2> QED BY <1>1, <1>2, <1>3
    <1>5. ASSUME r.outcome = "panic"
          PROVE /\ e.action = "drop" /\ e.reason = ReplacedByHigherPriority
                /\ Len(data) - Len(d) \in (HashWidth + 1)..(HashWidth + LenWidth)
        <2> DEFINE W == Word(Variant(e), TagWidth)
                   next == from + TagWidth
        <2>1. /\ ~Short(d, from, TagWidth) /\ Number(Field(d, from, TagWidth)) % Base = 2
              /\ ~Short(d, next, TagWidth)
              /\ Number(Field(d, next, TagWidth)) = ReplacedByHigherPriority
              /\ Short(d, next + TagWidth, LenWidth)
            BY <1>1, <1>5 DEF PanicsAt
        <2>2. At(data, from, W) /\ At(data, next, Fields(e)) /\ from \in Nat /\ next \in Nat
            BY EventFields, Widths
        <2>3. W \in Seq(Byte) /\ Len(W) = TagWidth /\ Number(W) % Base = Variant(e)
            BY WordType, NumberOfWord, VariantType, Widths
        <2>4. Field(d, from, TagWidth) = W
            <3> HIDE DEF from, W, next
            <3>1. Field(d, from, TagWidth) = Field(data, from, TagWidth)
                BY <2>1, <2>2, Widths, FieldStable
            <3> QED BY <2>2, <2>3, <3>1, AtField
        <2>5. Variant(e) = 2
            BY <2>1, <2>3, <2>4
        <2>6. e.action = "drop"
            BY <2>5, EventType DEF Variant
        <2> DEFINE V == Word(e.reason, TagWidth)
        <2>7. /\ V \in Seq(Byte) /\ Len(V) = TagWidth /\ Number(V) = e.reason
              /\ At(data, next, V)
            <3> HIDE DEF next, from, W
            <3>1. /\ V \in Seq(Byte) /\ Len(V) = TagWidth /\ Number(V) = e.reason
                  /\ \E R \in Seq(Byte) : Fields(e) = V \o R
                BY <2>6, DropFields
            <3> HIDE DEF V
            <3>2. At(data, next, V)
                BY <2>2, <3>1, AtConcat
            <3> QED BY <3>1, <3>2
        <2>8. Field(d, next, TagWidth) = V
            <3> HIDE DEF next, V
            <3>1. Field(d, next, TagWidth) = Field(data, next, TagWidth)
                BY <2>1, <2>2, Widths, FieldStable
            <3> QED BY <2>2, <2>7, <3>1, AtField
        <2>9. e.reason = ReplacedByHigherPriority
            BY <2>1, <2>7, <2>8
        <2>10. Len(Fields(e)) = TagWidth + (LenWidth + HashWidth)
            <3>1. e.reason \notin NestedReasons
                BY <2>9 DEF ReplacedByHigherPriority, NestedReasons
            <3> QED BY <2>6, <2>9, <3>1, DropFields
        <2>11. Len(data) = o + (LenWidth + HashWidth + TagWidth + (TagWidth + (LenWidth + HashWidth)))
            BY <2>10, EventFields
        <2>12. /\ ~(Len(d) < o + LenWidth + HashWidth + TagWidth + TagWidth)
               /\ Len(d) < o + LenWidth + HashWidth + TagWidth + TagWidth + LenWidth
            BY <2>1 DEF Short
        <2>13. Len(data) - Len(d) \in (HashWidth + 1)..(HashWidth + LenWidth)
            <3>1. LenWidth \in Nat /\ HashWidth \in Nat /\ TagWidth \in Nat
                BY Widths
            <3> QED BY <1>3, <2>11, <2>12, <3>1
        <2> QED BY <2>6, <2>9, <2>13
    <1> QED BY <1>4, <1>5

-----------------------------------------------------------------------------
(* The first and the last of the sequences put together.                   *)

(* What the first i sequences of q amount to.                              *)
Joined(q, i) == FlattenSeq(SubSeq(q, 1, i))

(* The first sequences of a sequence of them.                              *)
LEMMA FirstOnes ==
    ASSUME NEW S, NEW q \in Seq(S), NEW i \in 0..Len(q)
    PROVE SubSeq(q, 1, i) \in Seq(S)
    <1>1. i \in Int /\ \A k \in 1..i : q[k] \in S
        BY ElementOfSeq, LenProperties
    <1> QED BY <1>1, SubSeqProperties

(* What the first sequences amount to has the type of their elements.      *)
LEMMA JoinedType ==
    ASSUME NEW S, NEW q \in Seq(Seq(S)), NEW i \in 0..Len(q)
    PROVE Joined(q, i) \in Seq(S)
    <1> DEFINE T == Seq(S)
    <1>1. SubSeq(q, 1, i) \in Seq(T)
        <2> HIDE DEF T
        <2>1. q \in Seq(T)
            BY DEF T
        <2> QED BY <2>1, FirstOnes
    <1> QED BY <1>1, FlattenType DEF Joined

(* None of them amount to nothing, and all of them to the whole.           *)
LEMMA JoinedEnds ==
    ASSUME NEW S, NEW q \in Seq(S)
    PROVE Joined(q, 0) = <<>> /\ Joined(q, Len(q)) = FlattenSeq(q)
    <1>1. SubSeq(q, 1, 0) = <<>>
        BY SubSeqEmpty
    <1>2. SubSeq(q, 1, Len(q)) = q
        BY SubSeqFull
    <1> QED BY <1>1, <1>2, FlattenEmpty DEF Joined

(* One of them more.                                                       *)
LEMMA JoinedNext ==
    ASSUME NEW S, NEW q \in Seq(Seq(S)), NEW i \in Nat, i < Len(q)
    PROVE /\ Joined(q, i + 1) = Joined(q, i) \o q[i + 1]
          /\ Len(Joined(q, i + 1)) = Len(Joined(q, i)) + Len(q[i + 1])
          /\ Joined(q, i) \in Seq(S) /\ q[i + 1] \in Seq(S)
    <1> DEFINE T == Seq(S)
    <1>1. i \in 0..Len(q) /\ i + 1 \in 1..Len(q) /\ (i + 1) - 1 = i /\ 1 \in 1..Len(q) /\ i + 1 \in Nat
        BY LenProperties
    <1>2. q[i + 1] \in T
        BY <1>1, ElementOfSeq
    <1>3. SubSeq(q, 1, i) \in Seq(T)
        <2> HIDE DEF T
        <2>1. q \in Seq(T)
            BY DEF T
        <2> QED BY <1>1, <2>1, FirstOnes
    <1>4. SubSeq(q, 1, i + 1) = SubSeq(q, 1, i) \o <<q[i + 1]>>
        <2> HIDE DEF T
        <2>1. q \in Seq(T)
            BY DEF T
        <2>2. i + 1 \in 1..Len(q)
            BY <1>1
        <2>3. SubSeq(q, 1, i + 1) = SubSeq(q, 1, (i + 1) - 1) \o <<q[i + 1]>>
            BY <2>1, <2>2, <1>1, SubSeqRecursiveSecond
        <2> QED BY <2>3, <1>1
    <1>5. SubSeq(q, 1, i + 1) = Append(SubSeq(q, 1, i), q[i + 1])
        <2> HIDE DEF T
        <2> QED BY <1>2, <1>3, <1>4, AppendIsConcat
    <1>6. Joined(q, i + 1) = Joined(q, i) \o q[i + 1]
        BY <1>2, <1>3, <1>5, FlattenAppend DEF Joined
    <1>7. Joined(q, i) \in Seq(S)
        BY <1>1, JoinedType
    <1> HIDE DEF T
    <1> QED BY <1>2, <1>6, <1>7, Concat DEF T

(* What occurs in a sequence occurs in a longer one.                       *)
LEMMA AtExtend ==
    ASSUME NEW S, NEW f \in Seq(S), NEW g \in Seq(S), NEW o \in Nat, NEW h \in Seq(S), At(f, o, h)
    PROVE At(f \o g, o, h)
    <1> DEFINE fg == f \o g
    <1>1. /\ Len(fg) = Len(f) + Len(g) /\ Len(f) \in Nat /\ Len(g) \in Nat /\ Len(h) \in Nat
          /\ \A i \in 1..(Len(f) + Len(g)) : fg[i] = IF i <= Len(f) THEN f[i] ELSE g[i - Len(f)]
        BY ConcatProperties, LenProperties
    <1> HIDE DEF fg
    <1>2. o + Len(h) <= Len(f) /\ \A i \in 1..Len(h) : f[o + i] = h[i]
        BY DEF At
    <1>3. ASSUME NEW i \in 1..Len(h) PROVE fg[o + i] = h[i]
        <2>1. o + i \in 1..(Len(f) + Len(g)) /\ o + i <= Len(f)
            BY <1>1, <1>2
        <2> QED BY <1>1, <1>2, <2>1
    <1>4. o + Len(h) <= Len(fg)
        BY <1>1, <1>2
    <1> QED BY <1>3, <1>4 DEF At, fg

(* Each sequence occurs where those in front of it end.                    *)
LEMMA JoinedAt ==
    ASSUME NEW S, NEW q \in Seq(Seq(S)), NEW j \in 0..Len(q), NEW i \in Nat, i < j
    PROVE At(Joined(q, j), Len(Joined(q, i)), q[i + 1])
    <1> DEFINE n == Len(q)
               o == Len(Joined(q, i))
               E == {k \in Nat : i < k /\ k <= n => At(Joined(q, k), o, q[i + 1])}
    <1>0. n \in Nat
        BY LenProperties
    <1>1. i < n /\ i \in 0..n /\ Joined(q, i) \in Seq(S) /\ q[i + 1] \in Seq(S) /\ o \in Nat
        <2>1. i < n /\ i \in 0..n
            BY <1>0
        <2> QED BY <2>1, JoinedNext, LenProperties
    <1>2. 0 \in E
        OBVIOUS
    <1>3. ASSUME NEW k \in Nat, k \in E PROVE k + 1 \in E
        <2>1. SUFFICES ASSUME i < k + 1, k + 1 <= n PROVE At(Joined(q, k + 1), o, q[i + 1])
            OBVIOUS
        <2>2. k < n
            BY <1>0, <2>1
        <2>3. /\ Joined(q, k + 1) = Joined(q, k) \o q[k + 1]
              /\ Joined(q, k) \in Seq(S) /\ q[k + 1] \in Seq(S)
            BY <2>2, JoinedNext
        <2>4. CASE i = k
            BY <2>3, <2>4, AtStart
        <2>5. CASE i # k
            <3>1. At(Joined(q, k), o, q[i + 1])
                BY <1>0, <1>3, <2>1, <2>5
            <3> HIDE DEF o
            <3> QED BY <1>1, <2>3, <3>1, AtExtend
        <2> QED BY <2>4, <2>5
    <1>4. Nat \subseteq E
        <2> HIDE DEF E
        <2> QED BY <1>2, <1>3, Induct
    <1>5. j \in E
        BY <1>0, <1>4
    <1> QED BY <1>0, <1>5

(* What is left of q behind its first i sequences.                         *)
Remaining(q, i) == FlattenSeq(SubSeq(q, i + 1, Len(q)))

(* What is left has the type of its elements.                              *)
LEMMA RemainingType ==
    ASSUME NEW S, NEW q \in Seq(Seq(S)), NEW i \in 0..Len(q)
    PROVE /\ SubSeq(q, i + 1, Len(q)) \in Seq(Seq(S))
          /\ Remaining(q, i) \in Seq(S)
    <1> DEFINE T == Seq(S)
    <1>1. q \in Seq(T)
        OBVIOUS
    <1>2. SubSeq(q, i + 1, Len(q)) \in Seq(T)
        <2> HIDE DEF T
        <2>1. i + 1 \in Int /\ Len(q) \in Int /\ \A k \in (i + 1)..Len(q) : q[k] \in T
            BY <1>1, ElementOfSeq, LenProperties
        <2> QED BY <2>1, SubSeqProperties
    <1> QED BY <1>2, FlattenType DEF Remaining

(* Everything is left of all of them, and nothing at the end.              *)
LEMMA RemainingEnds ==
    ASSUME NEW S, NEW q \in Seq(S)
    PROVE Remaining(q, 0) = FlattenSeq(q) /\ Remaining(q, Len(q)) = <<>>
    <1>1. SubSeq(q, 0 + 1, Len(q)) = q
        BY SubSeqFull
    <1>2. SubSeq(q, Len(q) + 1, Len(q)) = <<>>
        <2>1. Len(q) \in Nat
            BY LenProperties
        <2>2. Len(q) + 1 \in Int /\ Len(q) \in Int /\ Len(q) < Len(q) + 1
            BY <2>1
        <2> QED BY <2>2, SubSeqEmpty
    <1> QED BY <1>1, <1>2, FlattenEmpty DEF Remaining

(* The next sequence is the beginning of what is left.                     *)
LEMMA RemainingNext ==
    ASSUME NEW S, NEW q \in Seq(Seq(S)), NEW i \in Nat, i < Len(q)
    PROVE Remaining(q, i) = q[i + 1] \o Remaining(q, i + 1)
    <1> DEFINE T == Seq(S)
    <1>1. /\ i + 1 \in 1..Len(q) /\ Len(q) \in (i + 1)..Len(q) /\ i + 1 \in 0..Len(q)
        BY LenProperties
    <1>2. q[i + 1] \in Seq(S)
        BY <1>1, ElementOfSeq
    <1>3. SubSeq(q, i + 1, Len(q)) = <<q[i + 1]>> \o SubSeq(q, (i + 1) + 1, Len(q))
        <2> HIDE DEF T
        <2>1. q \in Seq(T)
            BY DEF T
        <2> QED BY <1>1, <2>1, SubSeqRecursiveFirst
    <1>4. SubSeq(q, (i + 1) + 1, Len(q)) \in Seq(Seq(S))
        BY <1>1, RemainingType
    <1> QED BY <1>2, <1>3, <1>4, FlattenCons DEF Remaining

(* A concatenation is cut where it was put together.                       *)
LEMMA Cut ==
    ASSUME NEW S, NEW f \in Seq(S), NEW g \in Seq(S)
    PROVE /\ SubSeq(f \o g, 1, Len(f)) = f
          /\ SubSeq(f \o g, Len(f) + 1, Len(f \o g)) = g
    <1> DEFINE h == f \o g
    <1>1. h \in Seq(S) /\ Len(h) = Len(f) + Len(g) /\ Len(f) \in Nat /\ Len(g) \in Nat
        BY Concat
    <1>2. At(h, 0, f) /\ At(h, Len(f), g)
        BY AtStart
    <1> HIDE DEF h
    <1>3. Field(h, 0, Len(f)) = f /\ Field(h, Len(f), Len(g)) = g
        BY <1>1, <1>2, AtField
    <1>4. 0 + 1 = 1 /\ 0 + Len(f) = Len(f) /\ Len(f) + Len(g) = Len(h)
        BY <1>1
    <1>5. SubSeq(h, 1, Len(f)) = f /\ SubSeq(h, Len(f) + 1, Len(h)) = g
        BY <1>3, <1>4 DEF Field
    <1> QED BY <1>5 DEF h

-----------------------------------------------------------------------------
(* Vectors.                                                                *)

(* decodeEthTxPoolEvent ends in one of its three outcomes.                 *)
LEMMA OutcomeType ==
    ASSUME NEW d \in Seq(Byte), NEW o \in Nat
    PROVE decodeEthTxPoolEvent(d, o).outcome \in {"ok", "error", "panic"}
    <1> DEFINE R == {"ok", "error", "panic"}
    <1>2. Error.outcome \in R /\ Panic.outcome \in R
        BY Results
    <1>3. \A p : decodeInsert(d, p).outcome \in R
        BY <1>2 DEF decodeInsert, Done
    <1>4. \A p : skipReplacement(d, p).outcome \in R
        BY <1>2 DEF skipReplacement, Done
    <1>5. \A p : decodeDrop(d, p).outcome \in R
        BY <1>2, <1>4 DEF decodeDrop, Done
    <1>6. \A p : decodeEvict(d, p).outcome \in R
        BY <1>2 DEF decodeEvict, Done
    <1>7. \A p : decodeEventAction(d, p).outcome \in R
        <2> TAKE p
        <2> DEFINE v == Number(Field(d, p, TagWidth)) % Base
        <2>1. CASE Short(d, p, TagWidth)
            BY <1>2, <2>1 DEF decodeEventAction
        <2>2. CASE ~Short(d, p, TagWidth) /\ v = 0
            BY <1>3, <2>2 DEF decodeEventAction
        <2>3. CASE ~Short(d, p, TagWidth) /\ v = 1
            BY <2>3 DEF decodeEventAction, Done
        <2>4. CASE ~Short(d, p, TagWidth) /\ v = 2
            BY <1>5, <2>4 DEF decodeEventAction
        <2>5. CASE ~Short(d, p, TagWidth) /\ v = 3
            BY <1>6, <2>5 DEF decodeEventAction
        <2>6. CASE ~Short(d, p, TagWidth) /\ v \notin {0, 1, 2, 3}
            BY <1>2, <2>6 DEF decodeEventAction
        <2> QED BY <2>1, <2>2, <2>3, <2>4, <2>5, <2>6
    <1> DEFINE act == decodeEventAction(d, o + LenWidth + HashWidth)
               r == decodeEthTxPoolEvent(d, o)
    <1>8. CASE r = Error \/ r = act
        BY <1>2, <1>7, <1>8
    <1>9. CASE act.outcome = "ok" /\ r = [act EXCEPT !.event.hash = Field(d, o + LenWidth, HashWidth)]
        <2>1. \E a, t, n : act = Done(a, t, n)
            <3>1. Starts(d, d) /\ o + LenWidth + HashWidth \in Nat
                BY LenProperties, Widths DEF Starts
            <3>2. Stable(d, act, act)
                BY <3>1, ActionStable
            <3> HIDE DEF act, r
            <3> QED BY <1>9, <3>2 DEF Stable
        <2> DEFINE h == Field(d, o + LenWidth, HashWidth)
        <2>3. r = [act EXCEPT !.event.hash = h]
            BY <1>9
        <2> HIDE DEF act, r, h
        <2>2. PICK a, t, n : act = Done(a, t, n)
            BY <2>1
        <2>4. r.outcome = "ok"
            BY <2>2, <2>3 DEF Done, NoEvent
        <2> QED BY <2>4 DEF r
    <1>10. \/ r = Error \/ r = act
           \/ act.outcome = "ok" /\ r = [act EXCEPT !.event.hash = Field(d, o + LenWidth, HashWidth)]
        BY DEF decodeEthTxPoolEvent
    <1> QED BY <1>8, <1>9, <1>10

(* A message of events as the txpool writes it.                            *)
Vector == [events : Seq(Event), missing : Nat]

(* The events of a vector as bytes, all of its bytes, and where an event   *)
(* begins in them.                                                         *)
Encodings(m) == [i \in 1..Len(m.events) |-> EncodeEvent(m.events[i])]
Whole(m) == Word(Len(m.events), LenWidth) \o FlattenSeq(Encodings(m))
Begin(m, i) == LenWidth + Len(Joined(Encodings(m), i))

(* The events of a vector are events that fit, and so are their bytes.     *)
LEMMA EncodingsType ==
    ASSUME NEW m \in Vector, VectorFits(m)
    PROVE /\ Len(m.events) \in Nat /\ m.missing \in Nat
          /\ \A i \in 1..Len(m.events) : m.events[i] \in Event /\ EventFits(m.events[i])
          /\ Encodings(m) \in Seq(Seq(Byte)) /\ Len(Encodings(m)) = Len(m.events)
          /\ \A i \in 1..Len(m.events) : Encodings(m)[i] = EncodeEvent(m.events[i])
    <1>1. m.events \in Seq(Event) /\ m.missing \in Nat
        BY DEF Vector
    <1>2. Len(m.events) \in Nat /\ \A i \in 1..Len(m.events) : m.events[i] \in Event
        BY <1>1, ElementOfSeq, LenProperties
    <1>3. \A i \in 1..Len(m.events) : EventFits(m.events[i])
        BY DEF VectorFits
    <1>4. \A i \in 1..Len(m.events) : EncodeEvent(m.events[i]) \in Seq(Byte)
        BY <1>2, <1>3, EventFields
    <1>5. Encodings(m) \in [1..Len(m.events) -> Seq(Byte)]
        BY <1>4 DEF Encodings
    <1> QED BY <1>1, <1>2, <1>3, <1>5 DEF Encodings

(* A vector's bytes: its count, then each event where the one before it    *)
(* ends.                                                                   *)
LEMMA VectorParts ==
    ASSUME NEW m \in Vector, VectorFits(m)
    PROVE LET n == Len(m.events)
              W == Word(n, LenWidth)
          IN /\ W \in Seq(Byte) /\ Len(W) = LenWidth /\ Number(W) = n
             /\ Whole(m) \in Seq(Byte) /\ At(Whole(m), 0, W)
             /\ Begin(m, 0) = LenWidth /\ Begin(m, n) = Len(Whole(m))
             /\ \A i \in 0..n : Begin(m, i) \in Nat
             /\ \A i \in Nat : i < n =>
                  /\ Begin(m, i + 1) = Begin(m, i) + Len(EncodeEvent(m.events[i + 1]))
                  /\ At(Whole(m), Begin(m, i), EncodeEvent(m.events[i + 1]))
                  /\ i + 1 < n => Begin(m, i + 1) <= Begin(m, n - 1)
    <1> DEFINE n == Len(m.events)
               W == Word(n, LenWidth)
               q == Encodings(m)
               F == FlattenSeq(q)
    <1>1. /\ n \in Nat /\ q \in Seq(Seq(Byte)) /\ Len(q) = n
          /\ \A i \in 1..n : q[i] = EncodeEvent(m.events[i])
        BY EncodingsType
    <1>2. LenWidth \in Nat /\ n < Power[LenWidth]
        BY Widths DEF VectorFits
    <1>3. W \in Seq(Byte) /\ Len(W) = LenWidth /\ Number(W) = n
        BY <1>1, <1>2, WordType, NumberOfWord
    <1>4. F \in Seq(Byte)
        BY <1>1, FlattenType
    <1> HIDE DEF W, q
    <1>5. Whole(m) \in Seq(Byte) /\ Len(Whole(m)) = LenWidth + Len(F) /\ Len(F) \in Nat
        <2> HIDE DEF F
        <2>1. Whole(m) = W \o F
            BY DEF Whole, F, W, q
        <2> QED BY <1>3, <1>4, <2>1, Concat
    <1>6. At(Whole(m), 0, W) /\ At(Whole(m), LenWidth, F)
        <2> HIDE DEF F
        <2>1. Whole(m) = W \o F
            BY DEF Whole, F, W, q
        <2> QED BY <1>3, <1>4, <2>1, AtStart
    <1>7. Joined(q, 0) = <<>> /\ Joined(q, n) = F
        BY <1>1, JoinedEnds
    <1>8. Begin(m, 0) = LenWidth /\ Begin(m, n) = Len(Whole(m))
        BY <1>2, <1>5, <1>7 DEF Begin, q
    <1>9. ASSUME NEW i \in 0..n PROVE Begin(m, i) \in Nat /\ Len(Joined(q, i)) \in Nat
        <2>1. Joined(q, i) \in Seq(Byte)
            BY <1>1, JoinedType
        <2>2. Len(Joined(q, i)) \in Nat
            BY <2>1, LenProperties
        <2> QED BY <1>2, <2>2 DEF Begin, q
    <1>10. ASSUME NEW i \in Nat, i < n
           PROVE /\ Begin(m, i + 1) = Begin(m, i) + Len(EncodeEvent(m.events[i + 1]))
                 /\ At(Whole(m), Begin(m, i), EncodeEvent(m.events[i + 1]))
                 /\ i + 1 < n => Begin(m, i + 1) <= Begin(m, n - 1)
        <2> DEFINE e == EncodeEvent(m.events[i + 1])
                   k == Len(Joined(q, i))
        <2>1. i \in 0..n /\ n \in 0..Len(q) /\ i + 1 \in 1..n /\ q[i + 1] = e
            BY <1>1, <1>10
        <2>2. k \in Nat /\ e \in Seq(Byte) /\ Len(Joined(q, i + 1)) = k + Len(e) /\ Len(e) \in Nat
            <3>1. k \in Nat
                <4>1. Joined(q, i) \in Seq(Byte)
                    BY <1>1, <2>1, JoinedType
                <4> QED BY <4>1, LenProperties
            <3>2. e \in Seq(Byte) /\ Len(Joined(q, i + 1)) = k + Len(e)
                <4> HIDE DEF e, q
                <4> QED BY <1>1, <1>10, <2>1, JoinedNext
            <3> QED BY <3>1, <3>2, LenProperties
        <2> HIDE DEF e
        <2>3. Begin(m, i + 1) = Begin(m, i) + Len(e)
            BY <1>2, <2>2 DEF Begin, q
        <2>4. At(F, k, e)
            BY <1>1, <1>7, <1>10, <2>1, JoinedAt
        <2>5. At(Whole(m), Begin(m, i), e)
            <3>1. LenWidth + Len(F) <= Len(Whole(m)) /\ \A j \in 1..Len(F) : Whole(m)[LenWidth + j] = F[j]
                BY <1>6 DEF At
            <3>2. k + Len(e) <= Len(F) /\ \A j \in 1..Len(e) : F[k + j] = e[j]
                BY <2>4 DEF At
            <3>3. Begin(m, i) = LenWidth + k
                BY DEF Begin, q
            <3> HIDE DEF k, F
            <3>4. ASSUME NEW j \in 1..Len(e) PROVE Whole(m)[(LenWidth + k) + j] = e[j]
                <4>1. k + j \in 1..Len(F) /\ LenWidth + (k + j) = (LenWidth + k) + j
                    BY <1>2, <1>5, <2>2, <3>2
                <4> QED BY <3>1, <3>2, <4>1
            <3>5. (LenWidth + k) + Len(e) <= Len(Whole(m))
                BY <1>2, <1>5, <2>2, <3>2
            <3> QED BY <3>3, <3>4, <3>5 DEF At
        <2>6. ASSUME i + 1 < n PROVE Begin(m, i + 1) <= Begin(m, n - 1)
            <3>1. n - 1 \in 0..Len(q) /\ n - 1 \in 0..n /\ i < n - 1
                BY <1>1, <2>6
            <3>2. At(Joined(q, n - 1), k, q[i + 1])
                BY <1>1, <3>1, JoinedAt
            <3>3. k + Len(e) <= Len(Joined(q, n - 1)) /\ Len(Joined(q, n - 1)) \in Nat
                BY <1>9, <2>1, <3>1, <3>2 DEF At
            <3> HIDE DEF k
            <3>4. Begin(m, i + 1) = LenWidth + (k + Len(e))
                BY <2>2 DEF Begin, q
            <3>5. Begin(m, n - 1) = LenWidth + Len(Joined(q, n - 1))
                BY DEF Begin, q
            <3> QED BY <1>2, <2>2, <3>3, <3>4, <3>5
        <2> QED BY <2>3, <2>5, <2>6 DEF e
    <1> HIDE DEF F, n
    <1> QED BY <1>3, <1>5, <1>6, <1>8, <1>9, <1>10 DEF W, n

(* The first elements of a sequence are a beginning of it.                 *)
LEMMA Prefix ==
    ASSUME NEW S, NEW s \in Seq(S), NEW n \in 0..Len(s)
    PROVE /\ SubSeq(s, 1, n) \in Seq(S) /\ Len(SubSeq(s, 1, n)) = n
          /\ Starts(SubSeq(s, 1, n), s)
    <1> DEFINE d == SubSeq(s, 1, n)
    <1>1. n \in Nat /\ Len(s) \in Nat /\ n <= Len(s)
        BY LenProperties
    <1>2. \A i \in 1..n : s[i] \in S
        BY <1>1, ElementOfSeq
    <1>3. /\ d \in Seq(S) /\ Len(d) = IF 1 <= n THEN n - 1 + 1 ELSE 0
          /\ \A i \in 1..(n - 1 + 1) : d[i] = s[1 + i - 1]
        <2>1. 1 \in Int /\ n \in Int
            BY <1>1
        <2> QED BY <1>2, <2>1, SubSeqProperties
    <1>4. (IF 1 <= n THEN n - 1 + 1 ELSE 0) = n /\ n - 1 + 1 = n /\ \A i \in 1..n : 1 + i - 1 = i
        BY <1>1
    <1> HIDE DEF d
    <1>5. Len(d) = n /\ \A i \in 1..n : d[i] = s[i]
        BY <1>3, <1>4
    <1>6. Starts(d, s)
        BY <1>1, <1>5 DEF Starts
    <1> QED BY <1>3, <1>5, <1>6 DEF d

(* What occurs within the beginning of a message occurs in the beginning.  *)
LEMMA AtStable ==
    ASSUME NEW S, NEW d \in Seq(S), NEW data \in Seq(S), Starts(d, data),
           NEW o \in Nat, NEW f \in Seq(S), At(data, o, f), o + Len(f) <= Len(d)
    PROVE At(d, o, f)
    <1>1. Len(d) \in Nat /\ Len(f) \in Nat
        BY LenProperties
    <1>2. ASSUME NEW i \in 1..Len(f) PROVE d[o + i] = f[i]
        <2>1. o + i \in 1..Len(d)
            BY <1>1
        <2> QED BY <2>1 DEF At, Starts
    <1> QED BY <1>2 DEF At

(* What the txpool sends of a vector is a beginning of its bytes that      *)
(* holds all but the last event.                                           *)
LEMMA VectorData ==
    ASSUME NEW m \in Vector, VectorFits(m)
    PROVE /\ EncodeVector(m) \in Seq(Byte)
          /\ Len(EncodeVector(m)) = Len(Whole(m)) - m.missing /\ m.missing <= Len(Whole(m))
          /\ Starts(EncodeVector(m), Whole(m))
          /\ m.events # <<>> => /\ m.events[Len(m.events)] \in Event
                                /\ m.missing <= Len(EncodeEvent(m.events[Len(m.events)]))
          /\ m.events = <<>> => m.missing <= LenWidth /\ Len(Whole(m)) = LenWidth
    <1> DEFINE n == Len(m.events)
               e == EncodeEvent(m.events[n])
    <1>1. n \in Nat /\ m.missing \in Nat /\ (m.events = <<>> <=> n = 0)
        <2>1. m.events \in Seq(Event)
            BY DEF Vector
        <2> QED BY <2>1, EmptySeq, EncodingsType
    <1>2. /\ Whole(m) \in Seq(Byte) /\ Len(Whole(m)) \in Nat
          /\ Begin(m, 0) = LenWidth /\ Begin(m, n) = Len(Whole(m))
        BY VectorParts, LenProperties
    <1>3. m.missing <= IF m.events = <<>> THEN LenWidth ELSE Len(e)
        BY DEF VectorFits, Last
    <1>4. CASE n = 0
        <2>1. m.missing <= LenWidth /\ Len(Whole(m)) = LenWidth
            BY <1>1, <1>2, <1>3, <1>4
        <2>2. Len(Whole(m)) - m.missing \in 0..Len(Whole(m)) /\ m.missing <= Len(Whole(m))
            BY <1>1, <1>2, <2>1
        <2>3. EncodeVector(m) = SubSeq(Whole(m), 1, Len(Whole(m)) - m.missing)
            BY DEF EncodeVector, Whole, Encodings
        <2>4. /\ EncodeVector(m) \in Seq(Byte)
              /\ Len(EncodeVector(m)) = Len(Whole(m)) - m.missing
              /\ Starts(EncodeVector(m), Whole(m))
            BY <1>2, <2>2, <2>3, Prefix
        <2> QED BY <1>1, <1>4, <2>1, <2>2, <2>4
    <1>5. CASE n # 0
        <2>1. n - 1 \in Nat /\ n - 1 < n /\ (n - 1) + 1 = n /\ n \in 1..n /\ n - 1 \in 0..n
            BY <1>1, <1>5
        <2>2. Begin(m, (n - 1) + 1) = Begin(m, n - 1) + Len(EncodeEvent(m.events[(n - 1) + 1]))
            BY <2>1, VectorParts
        <2>3. Begin(m, n - 1) \in Nat
            BY <2>1, VectorParts
        <2>4. m.events[n] \in Event /\ e \in Seq(Byte) /\ Len(e) \in Nat
            BY <2>1, EncodingsType, EventFields, LenProperties
        <2>5. m.missing <= Len(e)
            BY <1>1, <1>3, <1>5
        <2>6. Len(Whole(m)) = Begin(m, n - 1) + Len(e)
            BY <1>2, <2>1, <2>2
        <2> HIDE DEF e, n
        <2>7. m.missing <= Len(Whole(m)) /\ Len(Whole(m)) - m.missing \in 0..Len(Whole(m))
            BY <1>1, <1>2, <2>3, <2>4, <2>5, <2>6
        <2>8. EncodeVector(m) = SubSeq(Whole(m), 1, Len(Whole(m)) - m.missing)
            BY DEF EncodeVector, Whole, Encodings
        <2>9. /\ EncodeVector(m) \in Seq(Byte)
              /\ Len(EncodeVector(m)) = Len(Whole(m)) - m.missing
              /\ Starts(EncodeVector(m), Whole(m))
            BY <1>2, <2>7, <2>8, Prefix
        <2> QED BY <1>1, <1>5, <2>4, <2>5, <2>7, <2>9 DEF e, n
    <1> QED BY <1>4, <1>5

(* What decoding makes of the event at a position of a vector.             *)
LEMMA NextEvent ==
    ASSUME NEW m \in Vector, VectorFits(m), NEW i \in Nat, i < Len(m.events)
    PROVE LET n == Len(m.events)
              e == m.events[i + 1]
              r == decodeEthTxPoolEvent(EncodeVector(m), Begin(m, i))
          IN /\ r.outcome \in {"ok", "error", "panic"}
             /\ r.outcome = "ok" =>
                  /\ Understood(e) /\ r.event = Meant(e) /\ r.next = Begin(m, i + 1)
                  /\ r.next \in 0..Len(EncodeVector(m))
                  /\ m.missing > 0 => i + 1 < n
             /\ r.outcome # "ok" => ~Intact(m)
             /\ r.outcome = "panic" =>
                  /\ i + 1 = n /\ e.action = "drop" /\ e.reason = ReplacedByHigherPriority
                  /\ m.missing \in (HashWidth + 1)..(HashWidth + LenWidth)
    <1> DEFINE n == Len(m.events)
               e == m.events[i + 1]
               d == EncodeVector(m)
               D == Whole(m)
               o == Begin(m, i)
               r == decodeEthTxPoolEvent(d, o)
    <1>1. /\ n \in Nat /\ i \in 0..n /\ i + 1 \in 1..n /\ m.missing \in Nat
          /\ e \in Event /\ EventFits(e)
        BY EncodingsType
    <1>2. /\ d \in Seq(Byte) /\ Starts(d, D) /\ Len(d) = Len(D) - m.missing
          /\ Len(d) \in Nat /\ Len(D) \in Nat /\ D \in Seq(Byte)
        BY VectorData, VectorParts, LenProperties
    <1>3. /\ o \in Nat /\ Begin(m, i + 1) = o + Len(EncodeEvent(e)) /\ At(D, o, EncodeEvent(e))
          /\ i + 1 < n => Begin(m, i + 1) <= Begin(m, n - 1)
          /\ Begin(m, n) = Len(D) /\ Begin(m, i + 1) \in Nat
        BY <1>1, VectorParts
    <1>4. EncodeEvent(e) \in Seq(Byte) /\ Len(EncodeEvent(e)) \in Nat
        BY <1>1, EventFields, LenProperties
    <1>5. r.outcome \in {"ok", "error", "panic"}
        BY <1>2, <1>3, OutcomeType
    <1>6. CASE i + 1 < n \/ m.missing = 0
        <2>1. Begin(m, i + 1) <= Len(d)
            <3>1. CASE m.missing = 0
                <4>1. o + Len(EncodeEvent(e)) <= Len(D)
                    BY <1>3 DEF At
                <4> QED BY <1>2, <1>3, <3>1, <4>1
            <3>2. CASE i + 1 < n
                <4>1. n - 1 \in Nat /\ n - 1 < n /\ (n - 1) + 1 = n /\ n - 1 \in 0..n /\ m.events # <<>>
                    BY <1>1, <3>2
                <4>2. /\ Begin(m, (n - 1) + 1) = Begin(m, n - 1) + Len(EncodeEvent(m.events[(n - 1) + 1]))
                      /\ Begin(m, n - 1) \in Nat
                    BY <4>1, VectorParts
                <4>3. m.missing <= Len(EncodeEvent(m.events[n]))
                    BY <4>1, VectorData
                <4>4. Len(EncodeEvent(m.events[n])) \in Nat
                    <5>1. n \in 1..n
                        BY <1>1, <4>1
                    <5>2. m.events[n] \in Event /\ EventFits(m.events[n])
                        BY <5>1, EncodingsType
                    <5> QED BY <5>2, EventFields, LenProperties
                <4> HIDE DEF n, d, D, o, e
                <4>5. Len(D) = Begin(m, n - 1) + Len(EncodeEvent(m.events[n]))
                    BY <1>3, <4>1, <4>2
                <4>6. Len(d) = Len(D) - m.missing /\ m.missing \in Nat
                    BY <1>1, <1>2, <1>3
                <4>7. Begin(m, n - 1) \in Nat /\ Begin(m, n - 1) <= Len(d)
                    BY <4>2, <4>3, <4>4, <4>5, <4>6
                <4>8. Begin(m, i + 1) <= Begin(m, n - 1) /\ Begin(m, i + 1) \in Nat /\ Len(d) \in Nat
                    BY <1>2, <1>3, <3>2
                <4> QED BY <4>7, <4>8
            <3> QED BY <1>6, <3>1, <3>2
        <2>2. At(d, o, EncodeEvent(e))
            <3> HIDE DEF d, D, o, e
            <3> QED BY <1>2, <1>3, <1>4, <2>1, AtStable
        <2>3. /\ Understood(e) => /\ r.outcome = "ok" /\ r.next = o + Len(EncodeEvent(e))
                                  /\ r.event = Meant(e)
              /\ ~Understood(e) => r.outcome = "error"
            BY <1>1, <1>2, <1>3, <2>2, EventDecodes
        <2>4. ~Understood(e) => ~Intact(m)
            BY <1>1 DEF Intact
        <2>5. Begin(m, i + 1) \in 0..Len(d)
            BY <1>2, <1>3, <2>1
        <2>6. m.missing > 0 => i + 1 < n
            BY <1>6
        <2> HIDE DEF r, d, o, e, n
        <2>7. r.outcome = "ok" =>
                  /\ Understood(e) /\ r.event = Meant(e) /\ r.next = Begin(m, i + 1)
                  /\ r.next \in 0..Len(d) /\ (m.missing > 0 => i + 1 < n)
            BY <1>3, <2>3, <2>5, <2>6
        <2>8. r.outcome # "panic" /\ (r.outcome # "ok" => ~Intact(m))
            BY <2>3, <2>4
        <2>9. r.outcome = "panic" =>
                  /\ i + 1 = n /\ e.action = "drop" /\ e.reason = ReplacedByHigherPriority
                  /\ m.missing \in (HashWidth + 1)..(HashWidth + LenWidth)
            BY <2>8
        <2> QED BY <1>5, <2>6, <2>7, <2>8, <2>9 DEF r, d, o, e, n
    <1>7. CASE ~(i + 1 < n) /\ m.missing # 0
        <2>1. i + 1 = n /\ Len(d) < Len(D)
            BY <1>1, <1>2, <1>7
        <2>2. Len(D) = o + Len(EncodeEvent(e)) /\ Len(D) - Len(d) = m.missing
            BY <1>1, <1>2, <1>3, <2>1
        <2>3. /\ r.outcome # "ok"
              /\ r.outcome = "panic" =>
                   /\ e.action = "drop" /\ e.reason = ReplacedByHigherPriority
                   /\ Len(D) - Len(d) \in (HashWidth + 1)..(HashWidth + LenWidth)
            <3> HIDE DEF d, D, o, e
            <3> QED BY <1>1, <1>2, <1>3, <2>1, <2>2, EventTruncated DEF r
        <2>4. ~Intact(m)
            BY <1>7 DEF Intact
        <2> QED BY <1>5, <2>1, <2>2, <2>3, <2>4
    <1> QED BY <1>6, <1>7

(* What decoding makes of the count at the beginning of a vector.          *)
LEMMA Count ==
    ASSUME NEW m \in Vector, VectorFits(m)
    PROVE LET d == EncodeVector(m) IN
          /\ Short(d, 0, LenWidth) => ~Intact(m)
          /\ ~Short(d, 0, LenWidth) =>
               /\ Number(Field(d, 0, LenWidth)) = Len(m.events)
               /\ LenWidth \in 0..Len(d)
               /\ m.missing > 0 => 0 < Len(m.events)
    <1> DEFINE n == Len(m.events)
               W == Word(n, LenWidth)
               d == EncodeVector(m)
               D == Whole(m)
    <1>1. n \in Nat /\ m.missing \in Nat /\ (m.events = <<>> <=> n = 0)
        <2>1. m.events \in Seq(Event)
            BY DEF Vector
        <2> QED BY <2>1, EmptySeq, EncodingsType
    <1>2. W \in Seq(Byte) /\ Len(W) = LenWidth /\ Number(W) = n /\ At(D, 0, W) /\ D \in Seq(Byte)
        BY VectorParts
    <1>3. /\ d \in Seq(Byte) /\ Starts(d, D) /\ Len(d) = Len(D) - m.missing
          /\ Len(d) \in Nat /\ Len(D) \in Nat /\ LenWidth \in Nat
        BY VectorData, <1>2, LenProperties, Widths
    <1>4. ASSUME Short(d, 0, LenWidth) PROVE ~Intact(m)
        <2>1. LenWidth <= Len(D)
            BY <1>2, <1>3 DEF At
        <2>2. Len(d) < LenWidth
            BY <1>3, <1>4 DEF Short
        <2>3. m.missing # 0
            <3> HIDE DEF d, D
            <3> QED BY <1>1, <1>3, <2>1, <2>2
        <2> QED BY <2>3 DEF Intact
    <1>5. ASSUME ~Short(d, 0, LenWidth)
          PROVE /\ Number(Field(d, 0, LenWidth)) = n /\ LenWidth \in 0..Len(d)
                /\ m.missing > 0 => 0 < n
        <2>1. Field(d, 0, LenWidth) = W
            <3> HIDE DEF d, D, W
            <3>1. Field(d, 0, LenWidth) = Field(D, 0, LenWidth)
                BY <1>2, <1>3, <1>5, FieldStable
            <3>2. Field(D, 0, Len(W)) = W
                BY <1>2, AtField
            <3> QED BY <1>2, <3>1, <3>2
        <2>2. LenWidth \in 0..Len(d)
            BY <1>3, <1>5 DEF Short
        <2>3. ASSUME m.missing > 0, n = 0 PROVE FALSE
            <3>1. Len(D) = LenWidth
                BY <1>1, <2>3, VectorData
            <3> HIDE DEF d, D
            <3> QED BY <1>1, <1>3, <2>2, <2>3, <3>1
        <2> HIDE DEF n, d, W
        <2> QED BY <1>1, <1>2, <2>1, <2>2, <2>3
    <1> QED BY <1>4, <1>5

-----------------------------------------------------------------------------
(* Frames and what they mean.                                              *)

(* The data of the frames: the snapshot's and each vector's.               *)
Payload(s, k) == IF k = 0 THEN EncodeSnapshot(s.snapshot) ELSE EncodeVector(s.vectors[k])

(* The messages of a script.                                               *)
LEMMA ScriptType ==
    ASSUME NEW s \in Scripts
    PROVE /\ Len(s.vectors) \in Nat
          /\ \A i \in 1..Len(s.vectors) : s.vectors[i] \in Vector /\ VectorFits(s.vectors[i])
          /\ s.snapshot.hashes \in Nat /\ s.snapshot.missing \in Nat
          /\ SnapshotFits(s.snapshot)
    <1>1. /\ s.snapshot \in [hashes : Nat, missing : Nat] /\ SnapshotFits(s.snapshot)
          /\ s.vectors \in Seq(Vector)
          /\ \A i \in 1..Len(s.vectors) : VectorFits(s.vectors[i])
        BY MessagesAssumption DEF Vector
    <1>2. Len(s.vectors) \in Nat /\ \A i \in 1..Len(s.vectors) : s.vectors[i] \in Vector
        BY <1>1, ElementOfSeq, LenProperties
    <1> QED BY <1>1, <1>2

(* The data of every frame are bytes, no more than its length can say.     *)
LEMMA PayloadType ==
    ASSUME NEW s \in Scripts, NEW k \in 0..Len(s.vectors)
    PROVE Payload(s, k) \in Seq(Byte) /\ Len(Payload(s, k)) < Power[HeaderWidth]
    <1>1. CASE k = 0
        <2> DEFINE m == s.snapshot
                   W == Word(m.hashes, LenWidth)
                   n == m.hashes * HashWidth - m.missing
                   V == Word(0, n)
        <2>1. m.hashes \in Nat /\ m.missing \in Nat /\ m.missing <= m.hashes * HashWidth
            BY ScriptType DEF SnapshotFits
        <2>2. n \in Nat
            <3>1. m.hashes * HashWidth \in Nat
                BY <2>1, Widths
            <3> QED BY <2>1, <3>1
        <2>3. W \in Seq(Byte) /\ V \in Seq(Byte)
            <3> HIDE DEF n
            <3> QED BY <2>1, <2>2, WordType, Widths
        <2>4. EncodeSnapshot(m) = W \o V
            BY DEF EncodeSnapshot
        <2>5. Len(EncodeSnapshot(m)) < Power[HeaderWidth]
            BY ScriptType DEF SnapshotFits
        <2> HIDE DEF W, V
        <2>6. EncodeSnapshot(m) \in Seq(Byte)
            BY <2>3, <2>4, Concat
        <2> QED BY <1>1, <2>5, <2>6 DEF Payload
    <1>2. CASE k # 0
        <2>1. k \in 1..Len(s.vectors) /\ Payload(s, k) = EncodeVector(s.vectors[k])
            BY <1>2, ScriptType DEF Payload
        <2>2. s.vectors[k] \in Vector /\ VectorFits(s.vectors[k])
            BY <2>1, ScriptType
        <2> QED BY <2>1, <2>2, VectorData DEF VectorFits
    <1> QED BY <1>1, <1>2

(* A frame is bytes.                                                       *)
LEMMA FrameType ==
    ASSUME NEW p \in Seq(Byte)
    PROVE Frame(p) \in Seq(Byte)
    <1>1. BigEndian(Len(p), HeaderWidth) \in Seq(Byte)
        BY BigEndianType, LenProperties, Widths
    <1> QED BY <1>1, Concat DEF Frame

(* The frames of a script, in the order in which they are sent.            *)
LEMMA FramesType ==
    ASSUME NEW s \in Scripts
    PROVE /\ Frames(s) \in Seq(Seq(Byte)) /\ Len(Frames(s)) = Len(s.vectors) + 1
          /\ \A k \in 0..Len(s.vectors) : Frames(s)[k + 1] = Frame(Payload(s, k))
    <1> DEFINE n == Len(s.vectors)
               first == <<Frame(EncodeSnapshot(s.snapshot))>>
               rest == [i \in 1..n |-> Frame(EncodeVector(s.vectors[i]))]
               T == Seq(Byte)
    <1>1. n \in Nat /\ \A k \in 0..n : Frame(Payload(s, k)) \in T
        BY ScriptType, PayloadType, FrameType
    <1>2. Frame(EncodeSnapshot(s.snapshot)) = Frame(Payload(s, 0))
        BY DEF Payload
    <1>3. \A i \in 1..n : Frame(EncodeVector(s.vectors[i])) = Frame(Payload(s, i))
        BY <1>1 DEF Payload
    <1> HIDE DEF n
    <1>4. first \in Seq(T) /\ Len(first) = 1 /\ first[1] = Frame(Payload(s, 0))
        BY <1>1, <1>2
    <1>5. /\ rest \in Seq(T) /\ Len(rest) = n
          /\ \A i \in 1..n : rest[i] = Frame(Payload(s, i))
        <2>1. n \in Nat /\ \A i \in 1..n : Frame(Payload(s, i)) \in T
            BY <1>1
        <2> HIDE DEF T
        <2>2. rest \in [1..n -> T] /\ \A i \in 1..n : rest[i] = Frame(Payload(s, i))
            BY <1>3, <2>1
        <2> HIDE DEF rest
        <2>3. rest \in Seq(T)
            BY <2>1, <2>2
        <2>4. Len(rest) = n
            BY <2>1, <2>2
        <2> QED BY <2>2, <2>3, <2>4
    <1> HIDE DEF T
    <1>6. /\ first \o rest \in Seq(T) /\ Len(first \o rest) = 1 + n
          /\ \A i \in 1..(1 + n) : (first \o rest)[i] = IF i <= 1 THEN first[i] ELSE rest[i - 1]
        <2>1. first \in Seq(T) /\ Len(first) = 1 /\ rest \in Seq(T) /\ Len(rest) = n
            BY <1>4, <1>5
        <2> HIDE DEF first, rest
        <2>2. /\ first \o rest \in Seq(T) /\ Len(first \o rest) = Len(first) + Len(rest)
              /\ \A i \in 1..(Len(first) + Len(rest)) :
                   (first \o rest)[i] = IF i <= Len(first) THEN first[i] ELSE rest[i - Len(first)]
            BY <2>1, ConcatProperties
        <2> QED BY <2>1, <2>2
    <1>7. \A k \in 0..n : (first \o rest)[k + 1] = Frame(Payload(s, k))
        <2> TAKE k \in 0..n
        <2> HIDE DEF first, rest
        <2>1. k + 1 \in 1..(1 + n) /\ (k + 1) - 1 = k
            BY <1>1
        <2>2. CASE k = 0
            BY <1>4, <1>6, <2>1, <2>2
        <2>3. CASE k # 0
            <3>1. k \in 1..n /\ ~(k + 1 <= 1)
                BY <1>1, <2>3
            <3> QED BY <1>5, <1>6, <2>1, <3>1
        <2> QED BY <2>2, <2>3
    <1>8. Frames(s) = first \o rest
        BY DEF Frames, n
    <1>9. 1 + n = n + 1
        BY <1>1
    <1> QED BY <1>6, <1>7, <1>8, <1>9 DEF n, T

(* What io.ReadFull takes from the beginning of a frame.                   *)
LEMMA Received ==
    ASSUME NEW p \in Seq(Byte), Len(p) < Power[HeaderWidth], NEW more \in Seq(Byte)
    PROVE LET in == Frame(p) \o more IN
          /\ BigEndianNumber(SubSeq(in, 1, HeaderWidth)) = Len(p)
          /\ SubSeq(in, HeaderWidth + 1, Len(in)) = p \o more
          /\ p \o more \in Seq(Byte)
    <1> DEFINE B == BigEndian(Len(p), HeaderWidth)
               pm == p \o more
    <1>1. /\ B \in Seq(Byte) /\ Len(B) = HeaderWidth /\ BigEndianNumber(B) = Len(p)
        BY BigEndianType, NumberOfBigEndian, LenProperties, Widths
    <1> HIDE DEF B
    <1>2. pm \in Seq(Byte)
        BY Concat
    <1>3. Frame(p) \o more = B \o pm
        <2>1. Frame(p) = B \o p
            BY DEF Frame, B
        <2>2. (B \o p) \o more = B \o (p \o more)
            <3>1. B \in Seq(Byte) /\ p \in Seq(Byte) /\ more \in Seq(Byte)
                BY <1>1
            <3> QED BY ONLY <3>1, Regroup, SMTT(20)
        <2> QED BY <2>1, <2>2
    <1> HIDE DEF pm
    <1>4. SubSeq(B \o pm, 1, Len(B)) = B /\ SubSeq(B \o pm, Len(B) + 1, Len(B \o pm)) = pm
        BY <1>1, <1>2, Cut
    <1> QED BY <1>1, <1>2, <1>3, <1>4 DEF pm

(* What the vectors mean, and what the first ones amount to.               *)
Decoded == {Meant(e) : e \in Event}
Meanings(s) == [i \in 1..Len(s.vectors) |-> Meaning(s.vectors[i])]

(* What each vector means is a sequence of events.                         *)
LEMMA MeaningsType ==
    ASSUME NEW s \in Scripts
    PROVE /\ Meanings(s) \in Seq(Seq(Decoded)) /\ Len(Meanings(s)) = Len(s.vectors)
          /\ \A i \in 1..Len(s.vectors) : Meanings(s)[i] = Meaning(s.vectors[i])
    <1>1. ASSUME NEW i \in 1..Len(s.vectors) PROVE Meaning(s.vectors[i]) \in Seq(Decoded)
        <2> DEFINE m == s.vectors[i]
                   n == Len(m.events)
                   f == [j \in 1..n |-> Meant(m.events[j])]
        <2>1. m \in Vector /\ VectorFits(m)
            BY ScriptType
        <2>2. n \in Nat /\ \A j \in 1..n : m.events[j] \in Event
            <3> HIDE DEF m
            <3> QED BY <2>1, EncodingsType
        <2> HIDE DEF n, m
        <2>3. \A j \in 1..n : Meant(m.events[j]) \in Decoded
            BY <2>2 DEF Decoded
        <2>4. f \in [1..n -> Decoded]
            BY <2>3
        <2>5. f \in Seq(Decoded)
            BY <2>2, <2>4
        <2> HIDE DEF f
        <2>6. Meaning(m) = IF Intact(m) THEN f ELSE <<>>
            BY DEF Meaning, f, n
        <2>7. <<>> \in Seq(Decoded)
            OBVIOUS
        <2> QED BY <2>5, <2>6, <2>7 DEF m
    <1>2. Len(s.vectors) \in Nat
        BY ScriptType
    <1>3. Meanings(s) \in [1..Len(s.vectors) -> Seq(Decoded)]
        BY <1>1 DEF Meanings
    <1> QED BY <1>2, <1>3 DEF Meanings

(* What the first vectors mean, as DeliversWhatWasMeant puts it.           *)
LEMMA FirstMeanings ==
    ASSUME NEW s \in Scripts, NEW k \in 0..Len(s.vectors)
    PROVE FlattenSeq([i \in 1..k |-> Meaning(s.vectors[i])]) = Joined(Meanings(s), k)
    <1> DEFINE q == Meanings(s)
               n == Len(s.vectors)
               f == [i \in 1..k |-> Meaning(s.vectors[i])]
               T == Seq(Decoded)
    <1>1. n \in Nat /\ q \in Seq(T) /\ Len(q) = n /\ \A i \in 1..n : q[i] = Meaning(s.vectors[i])
        BY ScriptType, MeaningsType
    <1>2. k \in Nat /\ k <= n /\ \A i \in 1..k : i \in 1..n
        BY <1>1
    <1>3. f \in Seq(T) /\ Len(f) = k /\ \A i \in 1..k : f[i] = q[i]
        <2>1. \A i \in 1..k : q[i] \in T
            <3> HIDE DEF T, q
            <3> QED BY <1>1, <1>2, ElementOfSeq
        <2>2. f \in [1..k -> T] /\ \A i \in 1..k : f[i] = q[i]
            BY <1>1, <1>2, <2>1
        <2> HIDE DEF f, T, q
        <2> QED BY <1>2, <2>2
    <1> HIDE DEF f, T, q
    <1>4. /\ SubSeq(q, 1, k) \in Seq(T) /\ Len(SubSeq(q, 1, k)) = k
          /\ \A i \in 1..k : SubSeq(q, 1, k)[i] = q[i]
        BY <1>1, <1>2, Prefix DEF Starts
    <1>5. SubSeq(q, 1, k) = f
        BY <1>3, <1>4, SeqEqual
    <1> QED BY <1>5 DEF Joined, f, q

-----------------------------------------------------------------------------
(* The reading half.                                                       *)

(* The reader with i events of a vector decoded.                           *)
Decoding(m, i) ==
    [at |-> "event", need |-> 0, data |-> EncodeVector(m), offset |-> Begin(m, i),
     left |-> Len(m.events) - i, events |-> [j \in 1..i |-> Meant(m.events[j])]]

(* The reader with i events of a vector decoded, and what is still to      *)
(* decode; when bytes are missing an event is left that will not decode.   *)
DecodedUpTo(m, i) ==
    /\ reader = Decoding(m, i)
    /\ Begin(m, i) \in 0..Len(EncodeVector(m))
    /\ \A j \in 1..i : Understood(m.events[j])
    /\ m.missing > 0 => i < Len(m.events)

(* The reader before the data of a frame and before a vector's count.      *)
AtData(n) == [Reading("data") EXCEPT !.need = n]
AtVector(d) == [Reading("vector") EXCEPT !.data = d]

(* Where the reader stands, and what is still to come.                     *)
Standing ==
    \/ reader = Between /\ inbound = Remaining(Frames(script), frames)
    \/ /\ frames <= Len(script.vectors)
       /\ reader = AtData(Len(Payload(script, frames)))
       /\ inbound = Payload(script, frames) \o Remaining(Frames(script), frames + 1)
    \/ /\ frames > 1 /\ inbound = Remaining(Frames(script), frames)
       /\ LET m == script.vectors[frames - 1] IN
          \/ reader = AtVector(EncodeVector(m))
          \/ \E i \in 0..Len(m.events) : DecodedUpTo(m, i)
    \/ reader = Reading("ended")
    \/ reader = Reading("panicked") /\ frames > 1 /\ PanicsOnlyAtReplacement

(* The vectors that have been dealt with.                                  *)
Dealt == IF Settled = 0 THEN 0 ELSE Settled - 1

(* The inductive invariant: the reader is in step with the frames, and     *)
(* what it has delivered is what the vectors dealt with mean.              *)
ReadInv ==
    /\ script \in Scripts
    /\ inbound \in Seq(Byte)
    /\ frames \in 0..(Len(script.vectors) + 1)
    /\ Standing
    /\ delivered = Joined(Meanings(script), Dealt)

(* The reader's states, field by field.                                    *)
LEMMA Readers ==
    /\ Between = [at |-> "length", need |-> HeaderWidth, data |-> <<>>, offset |-> 0,
                  left |-> 0, events |-> <<>>]
    /\ \A n : AtData(n) = [at |-> "data", need |-> n, data |-> <<>>, offset |-> 0,
                           left |-> 0, events |-> <<>>]
    /\ \A d : AtVector(d) = [at |-> "vector", need |-> 0, data |-> d, offset |-> 0,
                             left |-> 0, events |-> <<>>]
    /\ Reading("ended").at = "ended" /\ Reading("panicked").at = "panicked"
    <1>1. \A n : AtData(n) = [at |-> "data", need |-> n, data |-> <<>>, offset |-> 0,
                           left |-> 0, events |-> <<>>]
        BY DEF AtData, Reading
    <1>2. \A d : AtVector(d) = [at |-> "vector", need |-> 0, data |-> d, offset |-> 0,
                             left |-> 0, events |-> <<>>]
        BY DEF AtVector, Reading
    <1> QED BY <1>1, <1>2 DEF Between, Reading

(* Which of the cases holds for which place in readEvents.                 *)
LEMMA ReaderAt ==
    ASSUME Standing
    PROVE /\ reader.at = "length" => reader = Between /\ inbound = Remaining(Frames(script), frames)
          /\ reader.at = "data" =>
               /\ frames <= Len(script.vectors)
               /\ reader = AtData(Len(Payload(script, frames)))
               /\ inbound = Payload(script, frames) \o Remaining(Frames(script), frames + 1)
          /\ reader.at \in {"vector", "event"} =>
               frames > 1 /\ inbound = Remaining(Frames(script), frames)
          /\ reader.at = "vector" =>
               reader = AtVector(EncodeVector(script.vectors[frames - 1]))
          /\ reader.at = "event" =>
               \E i \in 0..Len(script.vectors[frames - 1].events) :
                   DecodedUpTo(script.vectors[frames - 1], i)
          /\ reader.at = "panicked" => frames > 1 /\ PanicsOnlyAtReplacement
          /\ reader.at \in {"length", "data", "vector", "event", "ended", "panicked"}
    <1> DEFINE m == script.vectors[frames - 1]
    <1>1. CASE reader = Between /\ inbound = Remaining(Frames(script), frames)
        BY <1>1, Readers
    <1>2. CASE /\ frames <= Len(script.vectors)
               /\ reader = AtData(Len(Payload(script, frames)))
               /\ inbound = Payload(script, frames) \o Remaining(Frames(script), frames + 1)
        BY <1>2, Readers
    <1>3. CASE /\ frames > 1 /\ inbound = Remaining(Frames(script), frames)
               /\ reader = AtVector(EncodeVector(m))
        BY <1>3, Readers
    <1>4. CASE /\ frames > 1 /\ inbound = Remaining(Frames(script), frames)
               /\ \E i \in 0..Len(m.events) : DecodedUpTo(m, i)
        <2>1. reader.at = "event"
            BY <1>4 DEF DecodedUpTo, Decoding
        <2> QED BY <1>4, <2>1
    <1>5. CASE reader = Reading("ended")
        BY <1>5, Readers
    <1>6. CASE reader = Reading("panicked") /\ frames > 1 /\ PanicsOnlyAtReplacement
        BY <1>6, Readers
    <1> QED BY <1>1, <1>2, <1>3, <1>4, <1>5, <1>6 DEF Standing

(* The reader begins between two messages, with everything to come.        *)
LEMMA Initially == Init => ReadInv
    <1> SUFFICES ASSUME Init PROVE ReadInv
        OBVIOUS
    <1>1. script \in Scripts /\ frames = 0 /\ reader = Between /\ delivered = <<>>
        BY DEF Init
    <1>2. Len(script.vectors) \in Nat
        BY <1>1, ScriptType
    <1>3. Frames(script) \in Seq(Seq(Byte)) /\ 0 \in 0..Len(Frames(script))
        BY <1>1, <1>2, FramesType
    <1>4. inbound = Remaining(Frames(script), 0)
        BY <1>3, RemainingEnds DEF Init
    <1>5. inbound \in Seq(Byte)
        BY <1>3, <1>4, RemainingType
    <1>6. Settled = 0 /\ Dealt = 0
        <2>1. reader.at = "length"
            BY <1>1, Readers
        <2>2. Settled = frames - 0
            BY <2>1 DEF Settled
        <2>3. Settled = 0
            BY <1>1, <2>2
        <2> QED BY <2>3 DEF Dealt
    <1>7. Joined(Meanings(script), 0) = <<>>
        BY <1>1, MeaningsType, JoinedEnds
    <1> QED BY <1>1, <1>2, <1>4, <1>5, <1>6, <1>7 DEF ReadInv, Standing

(* The connection may end anywhere; what was delivered stands.             *)
LEMMA ReadEndsKeeps == ReadInv /\ ReadEnds => ReadInv'
    <1> SUFFICES ASSUME ReadInv, ReadEnds PROVE ReadInv'
        OBVIOUS
    <1>1. /\ reader' = Reading("ended") /\ script' = script /\ inbound' = inbound
          /\ delivered' = delivered /\ frames' = frames /\ reader.at \in {"length", "data"}
        BY DEF ReadEnds
    <1>2. frames \in Int
        BY ScriptType DEF ReadInv
    <1>3. Settled' = Settled
        BY <1>1, <1>2, Readers DEF Settled
    <1>4. Dealt' = Dealt
        BY <1>3 DEF Dealt
    <1>5. Standing'
        BY <1>1 DEF Standing
    <1> QED BY <1>1, <1>4, <1>5 DEF ReadInv

(* The length of a frame is the number of the bytes that follow it.        *)
LEMMA ReadLengthKeeps == ReadInv /\ ReadLength => ReadInv'
    <1> SUFFICES ASSUME ReadInv, ReadLength PROVE ReadInv'
        OBVIOUS
    <1> DEFINE n == Len(script.vectors)
               p == Payload(script, frames)
               more == Remaining(Frames(script), frames + 1)
    <1>1. /\ script' = script /\ delivered' = delivered /\ frames' = frames
          /\ reader.at = "length" /\ Len(inbound) >= reader.need
          /\ reader' = AtData(BigEndianNumber(SubSeq(inbound, 1, reader.need)))
          /\ inbound' = SubSeq(inbound, reader.need + 1, Len(inbound))
        BY DEF ReadLength, Available, Chunk, Rest, AtData
    <1>2. reader = Between /\ inbound = Remaining(Frames(script), frames) /\ reader.need = HeaderWidth
        BY <1>1, ReaderAt, Readers DEF ReadInv
    <1>3. /\ script \in Scripts /\ n \in Nat /\ frames \in 0..(n + 1) /\ frames \in Nat
          /\ Frames(script) \in Seq(Seq(Byte)) /\ Len(Frames(script)) = n + 1
          /\ HeaderWidth \in Nat \ {0}
        BY ScriptType, FramesType, Widths DEF ReadInv
    <1>4. frames <= n
        <2>1. ASSUME frames = Len(Frames(script)) PROVE FALSE
            <3>1. inbound = <<>>
                BY <1>2, <1>3, <2>1, RemainingEnds
            <3>2. Len(inbound) = 0
                BY <3>1
            <3> QED BY <1>1, <1>2, <1>3, <3>2
        <2> QED BY <1>3, <2>1
    <1>5. frames \in 0..n /\ frames < Len(Frames(script)) /\ frames + 1 \in 0..Len(Frames(script))
        BY <1>3, <1>4
    <1>6. /\ p \in Seq(Byte) /\ Len(p) < Power[HeaderWidth] /\ more \in Seq(Byte)
          /\ inbound = Frame(p) \o more
        <2>1. p \in Seq(Byte) /\ Len(p) < Power[HeaderWidth]
            BY <1>3, <1>5, PayloadType
        <2>2. Frames(script) \in Seq(Seq(Byte)) /\ Frames(script)[frames + 1] = Frame(p)
            <3>1. \A k \in 0..n : Frames(script)[k + 1] = Frame(Payload(script, k))
                BY <1>3, FramesType
            <3> HIDE DEF n
            <3> QED BY <1>3, <1>5, <3>1
        <2>3. more \in Seq(Byte)
            BY <1>3, <1>5, <2>2, RemainingType
        <2>4. Remaining(Frames(script), frames) = Frames(script)[frames + 1] \o more
            BY <1>3, <1>5, <2>2, RemainingNext
        <2> QED BY <1>2, <2>1, <2>2, <2>3, <2>4
    <1>7. /\ BigEndianNumber(SubSeq(inbound, 1, HeaderWidth)) = Len(p)
          /\ SubSeq(inbound, HeaderWidth + 1, Len(inbound)) = p \o more
          /\ p \o more \in Seq(Byte)
        <2> HIDE DEF p, more
        <2> QED BY <1>6, Received
    <1>8. reader' = AtData(Len(p)) /\ inbound' = p \o more /\ inbound' \in Seq(Byte)
        <2> HIDE DEF p, more
        <2>1. reader' = AtData(BigEndianNumber(SubSeq(inbound, 1, HeaderWidth)))
            BY <1>1, <1>2
        <2>2. inbound' = SubSeq(inbound, HeaderWidth + 1, Len(inbound))
            BY <1>1, <1>2
        <2> QED BY <1>7, <2>1, <2>2
    <1>9. Settled' = Settled
        <2>1. reader'.at = "data"
            BY <1>8, Readers
        <2> QED BY <1>1, <2>1 DEF Settled
    <1>10. Dealt' = Dealt
        BY <1>9 DEF Dealt
    <1>11. Standing'
        BY <1>1, <1>4, <1>8 DEF Standing
    <1> QED BY <1>1, <1>8, <1>10, <1>11 DEF ReadInv

(* The data of a frame are a payload, and the next frame is in front.      *)
LEMMA ReadDataKeeps == ReadInv /\ ReadData => ReadInv'
    <1> SUFFICES ASSUME ReadInv, ReadData PROVE ReadInv'
        OBVIOUS
    <1> DEFINE n == Len(script.vectors)
               p == Payload(script, frames)
               more == Remaining(Frames(script), frames + 1)
    <1>1. /\ script' = script /\ delivered' = delivered /\ frames' = frames + 1
          /\ reader.at = "data"
          /\ inbound' = SubSeq(inbound, reader.need + 1, Len(inbound))
          /\ frames > 0 => reader' = AtVector(SubSeq(inbound, 1, reader.need))
          /\ ~(frames > 0) => reader' = Between \/ reader' = Reading("ended")
        BY DEF ReadData, Available, Chunk, Rest, AtVector
    <1>2. /\ frames <= n /\ reader.need = Len(p) /\ inbound = p \o more
        BY <1>1, ReaderAt, Readers DEF ReadInv
    <1>3. /\ script \in Scripts /\ n \in Nat /\ frames \in 0..(n + 1) /\ frames \in Nat
          /\ Frames(script) \in Seq(Seq(Byte)) /\ Len(Frames(script)) = n + 1
        BY ScriptType, FramesType DEF ReadInv
    <1>4. frames \in 0..n /\ frames + 1 \in 0..Len(Frames(script)) /\ frames + 1 \in 0..(n + 1)
        BY <1>2, <1>3
    <1>5. p \in Seq(Byte) /\ more \in Seq(Byte)
        BY <1>3, <1>4, PayloadType, RemainingType
    <1>6. inbound' = more /\ SubSeq(inbound, 1, reader.need) = p
        <2> HIDE DEF p, more
        <2> QED BY <1>1, <1>2, <1>5, Cut
    <1>7. CASE frames = 0
        <2>1. reader' = Between \/ reader' = Reading("ended")
            BY <1>1, <1>7
        <2>2. Dealt' = Dealt
            <3>1. reader'.at \in {"length", "ended"}
                BY <2>1, Readers
            <3>2. Settled = frames - 0 /\ Settled' = frames' - 0
                BY <1>1, <3>1 DEF Settled
            <3>3. Settled = 0 /\ Settled' = 1
                BY <1>1, <1>7, <3>2
            <3> QED BY <3>3 DEF Dealt
        <2>3. Standing'
            BY <1>1, <1>6, <2>1 DEF Standing
        <2> QED BY <1>1, <1>4, <1>5, <1>6, <2>2, <2>3 DEF ReadInv
    <1>8. CASE frames # 0
        <2>1. frames > 0 /\ frames + 1 > 1 /\ (frames + 1) - 1 = frames /\ p = EncodeVector(script.vectors[frames])
            BY <1>3, <1>8 DEF Payload
        <2>2. reader' = AtVector(p) /\ p = EncodeVector(script'.vectors[frames' - 1])
            BY <1>1, <1>6, <2>1
        <2>3. Dealt' = Dealt
            <3>1. Settled' = frames /\ Settled = frames
                BY <1>1, <1>3, <2>2, Readers DEF Settled
            <3> QED BY <3>1 DEF Dealt
        <2>4. Standing'
            BY <1>1, <1>6, <2>1, <2>2 DEF Standing
        <2> QED BY <1>1, <1>4, <1>5, <1>6, <2>3, <2>4 DEF ReadInv
    <1> QED BY <1>7, <1>8

(* The vector at the reader's hands.                                       *)
Current == script.vectors[frames - 1]

(* The vector at hand is one of the script's and fits.                     *)
LEMMA CurrentType ==
    ASSUME ReadInv, frames > 1
    PROVE /\ script \in Scripts /\ Len(script.vectors) \in Nat /\ frames \in Nat
          /\ frames - 1 \in 1..Len(script.vectors)
          /\ Current \in Vector /\ VectorFits(Current)
          /\ frames - 2 \in Nat /\ frames - 2 < Len(script.vectors) /\ (frames - 2) + 1 = frames - 1
    <1>1. script \in Scripts /\ Len(script.vectors) \in Nat /\ frames \in 0..(Len(script.vectors) + 1)
        BY ScriptType DEF ReadInv
    <1>2. /\ frames \in Nat /\ frames - 1 \in 1..Len(script.vectors)
          /\ frames - 2 \in Nat /\ frames - 2 < Len(script.vectors) /\ (frames - 2) + 1 = frames - 1
        BY <1>1
    <1> QED BY <1>1, <1>2, ScriptType DEF Current

(* A step within a message settles nothing.                                *)
LEMMA StaysAtMessage ==
    ASSUME ReadInv, reader.at \in {"vector", "event"},
           reader'.at \in {"vector", "event", "panicked"},
           UNCHANGED <<script, inbound, delivered, frames>>, Standing'
    PROVE ReadInv'
    <1>1. Settled' = frames' - 1 /\ Settled = frames - 1
        BY DEF Settled
    <1>2. Dealt' = Dealt
        BY <1>1 DEF Dealt
    <1> QED BY <1>2 DEF ReadInv

(* A message is dealt with: its meaning is delivered, the reader between   *)
(* two messages.                                                           *)
LEMMA GoesOn ==
    ASSUME ReadInv, reader.at \in {"vector", "event"}, reader' = Between,
           UNCHANGED <<script, inbound, frames>>,
           delivered' = delivered \o Meaning(Current)
    PROVE ReadInv'
    <1> DEFINE k == frames - 2
               q == Meanings(script)
    <1>1. frames > 1 /\ inbound = Remaining(Frames(script), frames)
        BY ReaderAt DEF ReadInv
    <1>2. /\ script \in Scripts /\ frames \in Nat /\ frames - 1 \in 1..Len(script.vectors)
          /\ k \in Nat /\ k < Len(script.vectors) /\ k + 1 = frames - 1
        BY <1>1, CurrentType
    <1>3. Dealt = k
        <2>1. Settled = frames - 1
            BY DEF Settled
        <2>2. Settled # 0 /\ Settled - 1 = k
            BY <1>1, <1>2, <2>1
        <2> QED BY <2>2 DEF Dealt
    <1>4. Dealt' = k + 1
        <2>1. reader'.at = "length"
            BY Readers
        <2>2. Settled' = frames - 0
            BY <2>1 DEF Settled
        <2>3. Settled' # 0 /\ Settled' - 1 = k + 1
            BY <1>1, <1>2, <2>2
        <2> QED BY <2>3 DEF Dealt
    <1>5. q \in Seq(Seq(Decoded)) /\ Len(q) = Len(script.vectors) /\ q[k + 1] = Meaning(Current)
        BY <1>2, MeaningsType DEF Current
    <1>6. Joined(q, k + 1) = Joined(q, k) \o q[k + 1]
        <2> HIDE DEF q, k
        <2> QED BY <1>2, <1>5, JoinedNext
    <1>7. delivered' = Joined(Meanings(script'), Dealt')
        BY <1>3, <1>4, <1>5, <1>6 DEF ReadInv
    <1>8. Standing'
        BY <1>1 DEF Standing
    <1> QED BY <1>7, <1>8 DEF ReadInv

(* A message that is not intact means nothing, so that nothing is to be    *)
(* delivered of it.                                                        *)
LEMMA GivesUp ==
    ASSUME ReadInv, reader.at \in {"vector", "event"}, reader' = Between,
           UNCHANGED <<script, inbound, delivered, frames>>, ~Intact(Current)
    PROVE ReadInv'
    <1>1. Meaning(Current) = <<>>
        BY DEF Meaning
    <1>2. \E S : delivered \in Seq(S)
        <2>1. frames > 1
            BY ReaderAt DEF ReadInv
        <2>2. /\ script \in Scripts /\ frames \in Nat /\ frames - 1 \in 1..Len(script.vectors)
              /\ Len(script.vectors) \in Nat
            BY <2>1, CurrentType
        <2>3. Settled = frames - 1
            BY DEF Settled
        <2>4. Dealt \in 0..Len(script.vectors)
            BY <2>1, <2>2, <2>3 DEF Dealt
        <2>5. Joined(Meanings(script), Dealt) \in Seq(Decoded)
            BY <2>2, <2>4, MeaningsType, JoinedType
        <2> QED BY <2>5 DEF ReadInv
    <1>3. delivered \o <<>> = delivered
        BY <1>2, ConcatEmptySeq
    <1>4. delivered' = delivered \o Meaning(Current)
        BY <1>1, <1>3
    <1> QED BY <1>4, GoesOn

(* The first events of a vector as a decoder hands them on.                *)
LEMMA FirstMeant ==
    ASSUME NEW m \in Vector, VectorFits(m)
    PROVE /\ Decoding(m, 0).events = <<>>
          /\ \A i \in Nat : i < Len(m.events) =>
               Append(Decoding(m, i).events, Meant(m.events[i + 1])) = Decoding(m, i + 1).events
    <1> DEFINE n == Len(m.events)
               f(i) == [j \in 1..i |-> Meant(m.events[j])]
    <1>1. n \in Nat /\ \A j \in 1..n : Meant(m.events[j]) \in Decoded
        BY EncodingsType DEF Decoded
    <1>2. ASSUME NEW i \in Nat, i <= n
          PROVE f(i) \in Seq(Decoded) /\ Len(f(i)) = i /\ \A j \in 1..i : f(i)[j] = Meant(m.events[j])
        <2> DEFINE g == f(i)
        <2>1. \A j \in 1..i : j \in 1..n
            BY <1>1, <1>2
        <2>2. g \in [1..i -> Decoded] /\ \A j \in 1..i : g[j] = Meant(m.events[j])
            BY <1>1, <2>1
        <2> HIDE DEF g
        <2>3. g \in Seq(Decoded) /\ Len(g) = i
            BY <2>2
        <2> QED BY <2>2, <2>3 DEF g
    <1>3. \A i : Decoding(m, i).events = f(i)
        BY DEF Decoding
    <1>4. f(0) = <<>>
        <2>1. f(0) \in Seq(Decoded) /\ Len(f(0)) = 0
            <3>1. 0 \in Nat /\ 0 <= n
                BY <1>1
            <3> HIDE DEF f
            <3> QED BY <1>2, <3>1
        <2> HIDE DEF f
        <2> QED BY <2>1, EmptySeq
    <1>5. ASSUME NEW i \in Nat, i < n
          PROVE Append(f(i), Meant(m.events[i + 1])) = f(i + 1)
        <2> DEFINE e == Meant(m.events[i + 1])
        <2>1. i + 1 \in Nat /\ i + 1 <= n /\ i <= n /\ i + 1 \in 1..n
            BY <1>1, <1>5
        <2>2. e \in Decoded
            BY <1>1, <2>1
        <2>3. /\ f(i) \in Seq(Decoded) /\ Len(f(i)) = i /\ \A j \in 1..i : f(i)[j] = Meant(m.events[j])
              /\ f(i + 1) \in Seq(Decoded) /\ Len(f(i + 1)) = i + 1
              /\ \A j \in 1..(i + 1) : f(i + 1)[j] = Meant(m.events[j])
            <3> HIDE DEF f
            <3> QED BY <1>2, <2>1
        <2> HIDE DEF f, e
        <2>4. /\ Append(f(i), e) \in Seq(Decoded) /\ Len(Append(f(i), e)) = i + 1
              /\ \A j \in 1..i : Append(f(i), e)[j] = f(i)[j]
              /\ Append(f(i), e)[i + 1] = e
            BY <2>2, <2>3, AppendProperties
        <2>5. \A j \in 1..(i + 1) : Append(f(i), e)[j] = f(i + 1)[j]
            <3> TAKE j \in 1..(i + 1)
            <3>1. CASE j = i + 1
                BY <2>1, <2>3, <2>4, <3>1 DEF e
            <3>2. CASE j # i + 1
                <4>1. j \in 1..i
                    BY <3>2
                <4> QED BY <2>3, <2>4, <4>1
            <3> QED BY <3>1, <3>2
        <2>6. Append(f(i), e) = f(i + 1)
            BY <2>3, <2>4, <2>5, SeqEqual
        <2> QED BY <2>6 DEF e
    <1> HIDE DEF f
    <1> QED BY <1>3, <1>4, <1>5

(* The count is the number of the events, or the message is too short.     *)
LEMMA DecodeCountKeeps == ReadInv /\ DecodeCount => ReadInv'
    <1> SUFFICES ASSUME ReadInv, DecodeCount PROVE ReadInv'
        OBVIOUS
    <1> DEFINE m == Current
               d == EncodeVector(m)
               n == Number(Field(d, 0, LenWidth))
    <1>1. /\ UNCHANGED <<script, inbound, delivered, frames>> /\ reader.at = "vector"
          /\ reader' = IF Short(reader.data, 0, LenWidth) THEN Between
                       ELSE [reader EXCEPT !.at = "event", !.offset = LenWidth,
                               !.left = Number(Field(reader.data, 0, LenWidth))]
        BY DEF DecodeCount
    <1>2. frames > 1 /\ reader = AtVector(d) /\ reader.data = d /\ inbound = Remaining(Frames(script), frames)
        BY <1>1, ReaderAt, Readers DEF ReadInv, Current
    <1>3. m \in Vector /\ VectorFits(m)
        BY <1>2, CurrentType
    <1>4. CASE Short(d, 0, LenWidth)
        <2>1. ~Intact(m)
            BY <1>3, <1>4, Count
        <2> QED BY <1>1, <1>2, <1>4, <2>1, GivesUp
    <1>5. CASE ~Short(d, 0, LenWidth)
        <2>1. /\ n = Len(m.events) /\ LenWidth \in 0..Len(d) /\ (m.missing > 0 => 0 < Len(m.events))
            BY <1>3, <1>5, Count
        <2>2. reader' = [at |-> "event", need |-> 0, data |-> d, offset |-> LenWidth,
                         left |-> n, events |-> <<>>]
            <3> HIDE DEF d
            <3>1. reader = [at |-> "vector", need |-> 0, data |-> d, offset |-> 0,
                             left |-> 0, events |-> <<>>]
                BY <1>2, Readers
            <3>2. reader' = [reader EXCEPT !.at = "event", !.offset = LenWidth, !.left = n]
                BY <1>1, <1>2, <1>5
            <3> QED BY <3>1, <3>2
        <2>3. /\ Begin(m, 0) = LenWidth /\ Len(m.events) \in Nat /\ Decoding(m, 0).events = <<>>
            BY <1>3, VectorParts, EncodingsType, FirstMeant
        <2>4. reader' = Decoding(m, 0)
            <3>1. Decoding(m, 0) = [at |-> "event", need |-> 0, data |-> d, offset |-> LenWidth,
                                     left |-> Len(m.events) - 0, events |-> <<>>]
                <4> DEFINE g == Decoding(m, 0).events
                <4>1. Decoding(m, 0) = [at |-> "event", need |-> 0, data |-> d, offset |-> Begin(m, 0),
                                     left |-> Len(m.events) - 0, events |-> g]
                    BY DEF Decoding
                <4> HIDE DEF g, d, m
                <4>2. g = <<>>
                    BY <2>3 DEF g
                <4> QED BY <2>3, <4>1, <4>2
            <3>2. Len(m.events) - 0 = n
                BY <2>1, <2>3
            <3> QED BY <2>2, <3>1, <3>2
        <2>5. DecodedUpTo(m, 0)'
            <3>1. m' = m
                BY <1>1 DEF Current
            <3> HIDE DEF m, n
            <3>2. \A j \in 1..0 : Understood(m.events[j])
                OBVIOUS
            <3> QED BY <2>1, <2>3, <2>4, <3>1, <3>2 DEF DecodedUpTo
        <2>6. 0 \in 0..Len(m.events)
            BY <2>3
        <2>7. Standing'
            BY <1>1, <1>2, <2>5, <2>6 DEF Standing, Current
        <2>8. reader'.at = "event"
            BY <2>2
        <2> QED BY <1>1, <2>7, <2>8, StaysAtMessage
    <1> QED BY <1>4, <1>5

(* The vector at hand when events of it are being decoded.                 *)
LEMMA AtEvent ==
    ASSUME ReadInv, reader.at = "event"
    PROVE /\ frames > 1 /\ inbound = Remaining(Frames(script), frames)
          /\ Current \in Vector /\ VectorFits(Current) /\ Len(Current.events) \in Nat
          /\ \E i \in 0..Len(Current.events) : DecodedUpTo(Current, i)
    <1>1. /\ frames > 1 /\ inbound = Remaining(Frames(script), frames)
          /\ \E i \in 0..Len(Current.events) : DecodedUpTo(Current, i)
        BY ReaderAt DEF ReadInv, Current
    <1>2. Current \in Vector /\ VectorFits(Current)
        BY <1>1, CurrentType
    <1> QED BY <1>1, <1>2, EncodingsType

(* Each turn decodes the next event, or the message was not intact.        *)
LEMMA DecodeEventKeeps == ReadInv /\ DecodeEvent => ReadInv'
    <1> SUFFICES ASSUME ReadInv, DecodeEvent PROVE ReadInv'
        OBVIOUS
    <1> DEFINE m == Current
               n == Len(m.events)
               d == EncodeVector(m)
    <1>1. /\ UNCHANGED <<script, inbound, delivered, frames>>
          /\ reader.at = "event" /\ reader.left > 0
        BY DEF DecodeEvent
    <1>2. /\ frames > 1 /\ inbound = Remaining(Frames(script), frames)
          /\ m \in Vector /\ VectorFits(m) /\ n \in Nat
        BY <1>1, AtEvent
    <1>3. PICK i \in 0..n : DecodedUpTo(m, i)
        BY <1>1, AtEvent
    <1>4. reader = Decoding(m, i) /\ \A j \in 1..i : Understood(m.events[j])
        BY <1>3 DEF DecodedUpTo
    <1>5. /\ reader.data = d /\ reader.offset = Begin(m, i) /\ reader.left = n - i
          /\ reader.events = Decoding(m, i).events
        BY <1>4 DEF Decoding
    <1>6. i \in Nat /\ i < n /\ i + 1 \in 0..n /\ (n - i) - 1 = n - (i + 1)
        BY <1>1, <1>2, <1>5
    <1> DEFINE r == decodeEthTxPoolEvent(d, Begin(m, i))
               e == m.events[i + 1]
    <1>7. /\ r.outcome = "ok" =>
               reader' = [reader EXCEPT !.offset = r.next, !.left = @ - 1, !.events = Append(@, r.event)]
          /\ r.outcome = "error" => reader' = Between
          /\ r.outcome = "panic" => reader' = Reading("panicked")
        BY <1>5 DEF DecodeEvent
    <1>8. /\ r.outcome \in {"ok", "error", "panic"}
          /\ r.outcome = "ok" =>
               /\ Understood(e) /\ r.event = Meant(e) /\ r.next = Begin(m, i + 1)
               /\ r.next \in 0..Len(d)
               /\ m.missing > 0 => i + 1 < n
          /\ r.outcome # "ok" => ~Intact(m)
          /\ r.outcome = "panic" =>
               /\ i + 1 = n /\ e.action = "drop" /\ e.reason = ReplacedByHigherPriority
               /\ m.missing \in (HashWidth + 1)..(HashWidth + LenWidth)
        <2> HIDE DEF m
        <2> QED BY <1>2, <1>6, NextEvent
    <1>9. CASE r.outcome = "ok"
        <2>1. reader' = Decoding(m, i + 1)
            <3> DEFINE g == Decoding(m, i).events
                       h == Decoding(m, i + 1).events
            <3>1. reader = [at |-> "event", need |-> 0, data |-> d, offset |-> Begin(m, i),
                            left |-> n - i, events |-> g]
                BY <1>4 DEF Decoding
            <3>2. Decoding(m, i + 1) = [at |-> "event", need |-> 0, data |-> d,
                            offset |-> Begin(m, i + 1), left |-> n - (i + 1), events |-> h]
                BY DEF Decoding
            <3>3. Append(g, Meant(e)) = h
                <4> HIDE DEF m
                <4> QED BY <1>2, <1>6, FirstMeant
            <3>4. reader' = [reader EXCEPT !.offset = Begin(m, i + 1), !.left = @ - 1,
                                           !.events = Append(@, Meant(e))]
                BY <1>7, <1>8, <1>9
            <3> HIDE DEF g, h, d, m, n, e
            <3>5. reader' = [at |-> "event", need |-> 0, data |-> d,
                            offset |-> Begin(m, i + 1), left |-> (n - i) - 1,
                            events |-> Append(g, Meant(e))]
                BY <3>1, <3>4
            <3> QED BY <1>6, <3>2, <3>3, <3>5
        <2>2. \A j \in 1..(i + 1) : Understood(m.events[j])
            <3>1. Understood(m.events[i + 1])
                BY <1>8, <1>9
            <3>2. \A j \in 1..(i + 1) : j = i + 1 \/ j \in 1..i
                BY <1>6
            <3> HIDE DEF m
            <3> QED BY <1>4, <3>1, <3>2
        <2>3. Begin(m, i + 1) \in 0..Len(d) /\ (m.missing > 0 => i + 1 < n)
            BY <1>8, <1>9
        <2>4. DecodedUpTo(m, i + 1)'
            <3>1. m' = m
                BY <1>1 DEF Current
            <3> HIDE DEF m
            <3> QED BY <2>1, <2>2, <2>3, <3>1 DEF DecodedUpTo
        <2>5. Standing'
            BY <1>1, <1>2, <1>6, <2>4 DEF Standing, Current
        <2>6. reader'.at = "event"
            BY <2>1 DEF Decoding
        <2> QED BY <1>1, <2>5, <2>6, StaysAtMessage
    <1>10. CASE r.outcome = "error"
        <2>1. reader' = Between /\ ~Intact(m)
            BY <1>7, <1>8, <1>10
        <2> QED BY <1>1, <2>1, GivesUp
    <1>11. CASE r.outcome = "panic"
        <2>1. reader' = Reading("panicked")
            BY <1>7, <1>11
        <2>2. /\ Last(m.events) = e /\ e.action = "drop" /\ e.reason = ReplacedByHigherPriority
              /\ m.missing \in (HashWidth + 1)..(HashWidth + LenWidth)
            BY <1>8, <1>11 DEF Last
        <2>3. PanicsOnlyAtReplacement'
            <3>1. script'.vectors[frames' - 1] = m
                BY <1>1 DEF Current
            <3> HIDE DEF m, e
            <3> QED BY <2>2, <3>1 DEF PanicsOnlyAtReplacement
        <2>4. Standing'
            BY <1>1, <1>2, <2>1, <2>3 DEF Standing
        <2>5. reader'.at = "panicked"
            BY <2>1, Readers
        <2> QED BY <1>1, <2>4, <2>5, StaysAtMessage
    <1> QED BY <1>8, <1>9, <1>10, <1>11

(* When no event is left the decoded ones are what the vector meant.       *)
LEMMA DeliverKeeps == ReadInv /\ Deliver => ReadInv'
    <1> SUFFICES ASSUME ReadInv, Deliver PROVE ReadInv'
        OBVIOUS
    <1> DEFINE m == Current
               n == Len(m.events)
    <1>1. /\ UNCHANGED <<script, inbound, frames>> /\ delivered' = delivered \o reader.events
          /\ reader.at = "event" /\ reader.left = 0 /\ reader' = Between
        BY DEF Deliver
    <1>2. m \in Vector /\ VectorFits(m) /\ n \in Nat /\ m.missing \in Nat
        BY <1>1, AtEvent, EncodingsType
    <1>3. PICK i \in 0..n : DecodedUpTo(m, i)
        BY <1>1, AtEvent
    <1>4. /\ reader = Decoding(m, i) /\ \A j \in 1..i : Understood(m.events[j])
          /\ m.missing > 0 => i < n
        BY <1>3 DEF DecodedUpTo
    <1>5. reader.left = n - i /\ reader.events = [j \in 1..i |-> Meant(m.events[j])]
        BY <1>4 DEF Decoding
    <1>6. i = n /\ m.missing = 0
        BY <1>1, <1>2, <1>4, <1>5
    <1>7. Intact(m)
        BY <1>4, <1>6 DEF Intact
    <1>8. reader.events = Meaning(m)
        BY <1>5, <1>6, <1>7 DEF Meaning
    <1> QED BY <1>1, <1>8, GoesOn

(* Neither the sending half nor the txpool touches the reading half.       *)
LEMMA ReadKeeps == ReadInv /\ [Next]_vars => ReadInv'
    <1> SUFFICES ASSUME ReadInv, [Next]_vars PROVE ReadInv'
        OBVIOUS
    <1>1. ASSUME UNCHANGED <<script, inbound, reader, delivered, frames>> PROVE ReadInv'
        <2>1. Settled' = Settled
            BY <1>1 DEF Settled
        <2>2. Dealt' = Dealt
            BY <2>1 DEF Dealt
        <2>3. Standing'
            BY <1>1 DEF ReadInv, Standing, DecodedUpTo, PanicsOnlyAtReplacement
        <2> QED BY <1>1, <2>2, <2>3 DEF ReadInv
    <1>2. CASE readEvents
        BY <1>2, ReadEndsKeeps, ReadLengthKeeps, ReadDataKeeps, DecodeCountKeeps,
           DecodeEventKeeps, DeliverKeeps DEF readEvents
    <1>3. CASE SendTxWithPriorityRLP \/ PeerReads \/ UNCHANGED vars
        BY <1>1, <1>3 DEF SendTxWithPriorityRLP, WriteLength, WriteData, PeerReads, vars
    <1> QED BY <1>2, <1>3 DEF Next

(* The inductive invariant of readEvents.                                  *)
THEOREM ReadInvariant == Spec => []ReadInv
    <1> QED BY Initially, ReadKeeps, PTL DEF Spec

(* Whatever the txpool sends, in events that fit their fields, and         *)
(* whatever is missing of a last event: readEvents delivers the events of  *)
(* every message that it understands, in order, and nothing of another.    *)
THEOREM MessagesAreDeliveredAsMeant == Spec => []DeliversWhatWasMeant
    <1>1. ReadInv => DeliversWhatWasMeant
        <2> SUFFICES ASSUME ReadInv PROVE DeliversWhatWasMeant
            OBVIOUS
        <2>1. /\ script \in Scripts /\ Len(script.vectors) \in Nat
              /\ frames \in 0..(Len(script.vectors) + 1)
            BY ScriptType DEF ReadInv
        <2>2. Dealt \in 0..Len(script.vectors)
            <3>1. CASE reader.at \in {"vector", "event", "panicked"}
                <4>1. frames > 1
                    BY <3>1, ReaderAt DEF ReadInv
                <4>2. Settled = frames - 1
                    BY <3>1 DEF Settled
                <4> QED BY <2>1, <4>1, <4>2 DEF Dealt
            <3>2. CASE reader.at \notin {"vector", "event", "panicked"}
                <4>1. Settled = frames - 0
                    BY <3>2 DEF Settled
                <4> QED BY <2>1, <4>1 DEF Dealt
            <3> QED BY <3>1, <3>2
        <2>3. delivered = FlattenSeq([i \in 1..Dealt |-> Meaning(script.vectors[i])])
            BY <2>1, <2>2, FirstMeanings DEF ReadInv
        <2> QED BY <2>3 DEF DeliversWhatWasMeant, Dealt
    <1> QED BY <1>1, ReadInvariant, PTL

(* Whatever the txpool sends with honest counts (MessagesAssumption), the  *)
(* one way to a panic in the decoder is a last event that is the drop of a *)
(* replaced transaction, cut off in the length of the replacement's hash.  *)
THEOREM PanicsAreShortReplacements == Spec => []PanicsOnlyAtReplacement
    <1>1. ReadInv => PanicsOnlyAtReplacement
        BY ReaderAt DEF ReadInv, PanicsOnlyAtReplacement
    <1> QED BY <1>1, ReadInvariant, PTL

-----------------------------------------------------------------------------
(* RLP.                                                                    *)

(* The numbers of RLP and how they make up the base.                       *)
LEMMA Marks ==
    /\ StringMark \in Nat \ {0} /\ ShortLimit \in Nat \ {0} /\ LengthBytes \in Nat \ {0}
    /\ ListMark \in Nat /\ ListMark = StringMark + ShortLimit + LengthBytes
    /\ Base = ListMark + ShortLimit + LengthBytes
    /\ HeaderWidth \in Nat \ {0} /\ HeaderWidth <= LengthBytes
    /\ Base \in Nat \ {0}
    <1>1. StringMark \in Nat \ {0} /\ ShortLimit \in Nat \ {0} /\ LengthBytes \in Nat \ {0}
        BY RangeAssumption
    <1> QED BY <1>1, RangeAssumption, BaseAssumption, HeaderWidthAssumption DEF ListMark

(* A power of the base is no more than half of the next.                   *)
LEMMA PowerDoubles == \A w \in Nat : Power[w] + Power[w] <= Power[w + 1]
    <1> TAKE w \in Nat
    <1> DEFINE p == Power[w]
    <1>1. p \in Nat /\ Power[w + 1] = Base * p
        BY PowerDef, PowerType
    <1> HIDE DEF p
    <1>2. \A b \in Nat : (2 + b) * p = (p + p) + b * p /\ b * p \in Nat
        BY <1>1
    <1>3. Base - 2 \in Nat /\ 2 + (Base - 2) = Base
        BY BaseAssumption
    <1>4. Base * p = (p + p) + (Base - 2) * p /\ (Base - 2) * p \in Nat
        BY <1>2, <1>3
    <1> DEFINE x == (Base - 2) * p
    <1> HIDE DEF x
    <1>5. Power[w + 1] = (p + p) + x /\ x \in Nat
        BY <1>1, <1>4 DEF x
    <1>6. p + p <= Power[w + 1]
        BY <1>1, <1>5
    <1> QED BY <1>6 DEF p

(* A power of the base is above its exponent.                              *)
LEMMA PowerAbove == \A w \in Nat : w < Power[w]
    <1> DEFINE E == {w \in Nat : w < Power[w]}
    <1>1. 0 \in E
        BY PowerDef
    <1>2. ASSUME NEW w \in Nat, w \in E PROVE w + 1 \in E
        <2>1. /\ w < Power[w] /\ Power[w] + Power[w] <= Power[w + 1]
              /\ Power[w] \in Nat /\ Power[w + 1] \in Nat
            BY <1>2, PowerDoubles, PowerType
        <2> QED BY <2>1
    <1>3. Nat \subseteq E
        <2> HIDE DEF E
        <2> QED BY <1>1, <1>2, Induct
    <1> QED BY <1>3

(* Powers grow with their exponents.                                       *)
LEMMA PowerGrows ==
    ASSUME NEW i \in Nat, NEW j \in Nat, i <= j
    PROVE Power[i] <= Power[j]
    <1> DEFINE E == {k \in Nat : i <= k => Power[i] <= Power[k]}
    <1>1. 0 \in E
        <2>1. i <= 0 => i = 0
            OBVIOUS
        <2> QED BY <2>1, PowerType
    <1>2. ASSUME NEW k \in Nat, k \in E PROVE k + 1 \in E
        <2>1. SUFFICES ASSUME i <= k + 1 PROVE Power[i] <= Power[k + 1]
            OBVIOUS
        <2>2. Power[i] \in Nat /\ Power[k] \in Nat /\ Power[k + 1] \in Nat
              /\ Power[k] + Power[k] <= Power[k + 1]
            BY PowerDoubles, PowerType
        <2>3. CASE i = k + 1
            BY <2>2, <2>3
        <2>4. CASE i # k + 1
            <3>1. Power[i] <= Power[k]
                BY <1>2, <2>1, <2>4
            <3> QED BY <2>2, <3>1
        <2> QED BY <2>3, <2>4
    <1>3. Nat \subseteq E
        <2> HIDE DEF E
        <2> QED BY <1>1, <1>2, Induct
    <1> QED BY <1>3

(* Digits is the least width that holds a number.                          *)
LEMMA DigitsType ==
    ASSUME NEW n \in Nat
    PROVE /\ Digits(n) \in Nat \ {0} /\ n < Power[Digits(n)]
          /\ \A w \in Nat \ {0} : n < Power[w] => Digits(n) <= w
    <1> DEFINE Fits == {k \in Nat \ {0} : n < Power[k]}
               Is(k) == n < Power[k] /\ (k > 1 => n >= Power[k - 1])
    <1>1. n + 1 \in Fits
        <2>1. n + 1 < Power[n + 1]
            BY PowerAbove
        <2> QED BY <2>1, PowerType
    <1>2. PICK k \in Fits : \A j \in Fits : k <= j
        <2>1. Fits \subseteq Nat /\ Fits # {}
            BY <1>1
        <2> HIDE DEF Fits
        <2> QED BY <2>1, Least
    <1>3. k \in 1..(n + 1) /\ Is(k)
        <2>1. k \in Nat \ {0} /\ n < Power[k] /\ k <= n + 1
            BY <1>1, <1>2
        <2>2. ASSUME k > 1 PROVE n >= Power[k - 1]
            <3>1. k - 1 \in Nat \ {0} /\ ~(k <= k - 1)
                BY <2>1, <2>2
            <3>2. k - 1 \notin Fits
                BY <1>2, <3>1
            <3>3. ~(n < Power[k - 1])
                BY <3>1, <3>2
            <3> QED BY <3>1, <3>3, PowerType
        <2> QED BY <2>1, <2>2
    <1>4. Digits(n) = CHOOSE j \in 1..(n + 1) : Is(j)
        BY DEF Digits
    <1>5. Digits(n) \in 1..(n + 1) /\ Is(Digits(n))
        <2> HIDE DEF Is
        <2> QED BY <1>3, <1>4
    <1> DEFINE d == Digits(n)
    <1>6. d \in Nat \ {0} /\ n < Power[d] /\ (d > 1 => n >= Power[d - 1])
        BY <1>5
    <1> HIDE DEF d
    <1>7. ASSUME NEW w \in Nat \ {0}, n < Power[w], ~(d <= w) PROVE FALSE
        <2>1. d > 1 /\ d - 1 \in Nat /\ w <= d - 1
            BY <1>6, <1>7
        <2>2. Power[w] <= Power[d - 1] /\ Power[w] \in Nat /\ Power[d - 1] \in Nat
            BY <2>1, PowerGrows, PowerType
        <2> QED BY <1>6, <1>7, <2>1, <2>2
    <1> QED BY <1>6, <1>7 DEF d

(* encodeLength writes a number that is read back.                         *)
LEMMA LengthType ==
    ASSUME NEW n \in Nat
    PROVE /\ encodeLength(n) \in Seq(Byte) /\ Len(encodeLength(n)) = Digits(n)
          /\ BigEndianNumber(encodeLength(n)) = n
    BY DigitsType, BigEndianType, NumberOfBigEndian DEF encodeLength

(* What the reader makes of a header at a position.                        *)
LEMMA HeaderReads ==
    ASSUME NEW mark \in {StringMark, ListMark}, NEW n \in Nat, n < Power[LengthBytes]
    PROVE LET h == Header(mark, n) IN
          /\ h \in Seq(Byte) /\ Len(h) \in Nat \ {0}
          /\ \A bytes \in Seq(Byte), o \in Nat : At(bytes, o, h) =>
               /\ Item(bytes, o + 1).from = o + 1 + Len(h)
               /\ Item(bytes, o + 1).size = n
    <1> DEFINE h == Header(mark, n)
               k == Digits(n)
               L == encodeLength(n)
    <1>1. /\ k \in Nat \ {0} /\ k <= LengthBytes
          /\ L \in Seq(Byte) /\ Len(L) = k /\ BigEndianNumber(L) = n
        BY DigitsType, LengthType, Marks
    <1>2. mark \in Nat
        BY Marks
    <1>3. \A bytes, at : at <= Len(bytes) /\ ~(bytes[at] < StringMark)
             /\ (bytes[at] < ListMark <=> mark = StringMark)
             => Item(bytes, at) = IF ~(at > Len(bytes)) THEN Announced(bytes, at, mark) ELSE Item(bytes, at)
        <2>1. StringMark # ListMark
            BY Marks
        <2> QED BY <2>1 DEF Item
    <1>4. CASE n < ShortLimit
        <2> DEFINE b == mark + n
        <2>1. h = <<b>>
            BY <1>4 DEF Header
        <2>2. /\ b \in Byte /\ ~(b < StringMark) /\ (b < ListMark <=> mark = StringMark)
              /\ b - mark = n
            <3>1. CASE mark = StringMark
                BY <1>4, <3>1, Marks DEF Byte
            <3>2. CASE mark = ListMark
                BY <1>4, <3>2, Marks DEF Byte
            <3> QED BY <3>1, <3>2
        <2> HIDE DEF b, k, L
        <2>3. h \in Seq(Byte) /\ Len(h) = 1 /\ h[1] = b
            BY <2>1, <2>2
        <2> HIDE DEF h
        <2>4. ASSUME NEW bytes \in Seq(Byte), NEW o \in Nat, At(bytes, o, h)
              PROVE Item(bytes, o + 1).from = o + 1 + 1 /\ Item(bytes, o + 1).size = n
            <3>1. o + 1 <= Len(bytes) /\ bytes[o + 1] = b /\ Len(bytes) \in Nat
                BY <2>3, <2>4, LenProperties DEF At
            <3>2. Item(bytes, o + 1) = Announced(bytes, o + 1, mark)
                BY <1>3, <2>2, <3>1
            <3>3. Announced(bytes, o + 1, mark) = [from |-> o + 1 + 1, size |-> n]
                BY <1>4, <2>2, <3>1 DEF Announced
            <3> QED BY <3>2, <3>3
        <2> QED BY <2>3, <2>4 DEF h
    <1>5. CASE ~(n < ShortLimit)
        <2> DEFINE b == mark + ShortLimit - 1 + k
                   f == <<b>>
        <2>1. h = f \o L
            BY <1>5 DEF Header
        <2>2. /\ b \in Byte /\ ~(b < StringMark) /\ (b < ListMark <=> mark = StringMark)
              /\ ~(b - mark < ShortLimit) /\ b - mark - ShortLimit + 1 = k
            <3> HIDE DEF k
            <3>1. CASE mark = StringMark
                BY <1>1, <3>1, Marks DEF Byte
            <3>2. CASE mark = ListMark
                BY <1>1, <3>2, Marks DEF Byte
            <3> QED BY <3>1, <3>2
        <2> HIDE DEF b, k, L
        <2>3. f \in Seq(Byte) /\ Len(f) = 1 /\ f[1] = b
            BY <2>2
        <2> HIDE DEF f, h
        <2>4. h \in Seq(Byte) /\ Len(h) = 1 + k
            BY <1>1, <2>1, <2>3, Concat
        <2>5. ASSUME NEW bytes \in Seq(Byte), NEW o \in Nat, At(bytes, o, h)
              PROVE Item(bytes, o + 1).from = o + 1 + (1 + k) /\ Item(bytes, o + 1).size = n
            <3>1. At(bytes, o, f) /\ At(bytes, o + 1, L)
                BY <1>1, <2>1, <2>3, <2>5, AtConcat
            <3>2. o + 1 <= Len(bytes) /\ bytes[o + 1] = b /\ Len(bytes) \in Nat
                BY <2>3, <3>1, LenProperties DEF At
            <3>3. Item(bytes, o + 1) = Announced(bytes, o + 1, mark)
                BY <1>3, <2>2, <3>2
            <3>4. Field(bytes, o + 1, k) = L
                BY <1>1, <3>1, AtField
            <3>5. SubSeq(bytes, (o + 1) + 1, (o + 1) + k) = L
                BY <3>4 DEF Field
            <3>6. Announced(bytes, o + 1, mark) = [from |-> o + 1 + 1 + k, size |-> n]
                BY <1>1, <2>2, <3>2, <3>5 DEF Announced
            <3>7. o + 1 + 1 + k = o + 1 + (1 + k)
                BY <1>1
            <3> QED BY <3>3, <3>6, <3>7
        <2> QED BY <1>1, <2>4, <2>5 DEF h
    <1> QED BY <1>4, <1>5

(* A reader finds the item at a position, with these contents.             *)
Reads(bytes, o, item, contents) ==
    /\ After(bytes, o + 1) = o + Len(item) + 1
    /\ SubSeq(bytes, Item(bytes, o + 1).from, After(bytes, o + 1) - 1) = contents

(* An item of a header and its contents is read as these contents.         *)
LEMMA HeaderAndContents ==
    ASSUME NEW mark \in {StringMark, ListMark}, NEW s \in Seq(Byte), Len(s) < Power[LengthBytes]
    PROVE LET item == Header(mark, Len(s)) \o s IN
          /\ item \in Seq(Byte) /\ Len(item) \in Nat \ {0} /\ Len(s) <= Len(item)
          /\ \A bytes \in Seq(Byte), o \in Nat : At(bytes, o, item) =>
               /\ Reads(bytes, o, item, s)
               /\ Item(bytes, o + 1).from = o + Len(Header(mark, Len(s))) + 1
    <1> DEFINE n == Len(s)
               h == Header(mark, n)
               item == h \o s
    <1>1. /\ n \in Nat /\ h \in Seq(Byte) /\ Len(h) \in Nat \ {0}
          /\ \A bytes \in Seq(Byte), o \in Nat : At(bytes, o, h) =>
               Item(bytes, o + 1).from = o + 1 + Len(h) /\ Item(bytes, o + 1).size = n
        <2>1. n \in Nat /\ n < Power[LengthBytes]
            BY LenProperties
        <2>2. mark \in {StringMark, ListMark}
            OBVIOUS
        <2> HIDE DEF n
        <2> QED BY ONLY <2>1, <2>2, HeaderReads, ZenonT(20)
    <1> HIDE DEF h
    <1>2. item \in Seq(Byte) /\ Len(item) = Len(h) + n
        BY <1>1, Concat
    <1> HIDE DEF item
    <1>3. ASSUME NEW bytes \in Seq(Byte), NEW o \in Nat, At(bytes, o, item)
          PROVE Reads(bytes, o, item, s) /\ Item(bytes, o + 1).from = o + Len(h) + 1
        <2>1. At(bytes, o, h) /\ At(bytes, o + Len(h), s)
            BY <1>1, <1>3, AtConcat DEF item
        <2>2. Item(bytes, o + 1).from = o + 1 + Len(h) /\ Item(bytes, o + 1).size = n
            BY <1>1, <2>1
        <2>3. After(bytes, o + 1) = o + 1 + Len(h) + n
            BY <2>2 DEF After
        <2>4. /\ o + 1 + Len(h) + n = o + Len(item) + 1
              /\ o + 1 + Len(h) = (o + Len(h)) + 1
              /\ (o + 1 + Len(h) + n) - 1 = (o + Len(h)) + n
              /\ o + Len(h) \in Nat
            BY <1>1, <1>2
        <2>5. Field(bytes, o + Len(h), n) = s
            BY <2>1, <2>4, AtField
        <2>6. SubSeq(bytes, (o + Len(h)) + 1, (o + Len(h)) + n) = s
            BY <2>5 DEF Field
        <2> QED BY <2>2, <2>3, <2>4, <2>6 DEF Reads
    <1>4. Len(item) \in Nat \ {0} /\ n <= Len(item)
        BY <1>1, <1>2
    <1> QED BY <1>2, <1>3, <1>4 DEF item, h

(* A string of bytes is read as these bytes, a short one as itself.        *)
LEMMA StringReads ==
    ASSUME NEW s \in Seq(Byte), Len(s) < Power[LengthBytes]
    PROVE /\ String(s) \in Seq(Byte) /\ Len(String(s)) \in Nat \ {0}
          /\ \A bytes \in Seq(Byte), o \in Nat : At(bytes, o, String(s)) =>
               Reads(bytes, o, String(s), s)
    <1>1. CASE Len(s) = 1 /\ s[1] < StringMark
        <2>1. String(s) = s
            BY <1>1 DEF String
        <2>2. ASSUME NEW bytes \in Seq(Byte), NEW o \in Nat, At(bytes, o, s)
              PROVE Reads(bytes, o, s, s)
            <3>1. o + 1 <= Len(bytes) /\ bytes[o + 1] = s[1] /\ Len(bytes) \in Nat
                BY <1>1, <2>2, LenProperties DEF At
            <3>2. Item(bytes, o + 1) = [from |-> o + 1, size |-> 1]
                <4>1. ~(o + 1 > Len(bytes)) /\ bytes[o + 1] < StringMark
                    BY <1>1, <3>1
                <4> QED BY <4>1 DEF Item
            <3>3. Item(bytes, o + 1).from = o + 1 /\ After(bytes, o + 1) = o + 1 + 1
                BY <3>2 DEF After
            <3>4. Field(bytes, o, 1) = s
                <4>1. Field(bytes, o, Len(s)) = s
                    BY <2>2, AtField
                <4> QED BY <1>1, <4>1
            <3>5. SubSeq(bytes, o + 1, (o + 1 + 1) - 1) = s
                BY <3>4 DEF Field
            <3> QED BY <1>1, <3>3, <3>5 DEF Reads
        <2> QED BY <1>1, <2>1, <2>2
    <1>2. CASE ~(Len(s) = 1 /\ s[1] < StringMark)
        <2>1. String(s) = Header(StringMark, Len(s)) \o s
            BY <1>2 DEF String
        <2> DEFINE item == Header(StringMark, Len(s)) \o s
        <2>2. /\ item \in Seq(Byte) /\ Len(item) \in Nat \ {0}
              /\ \A bytes \in Seq(Byte), o \in Nat : At(bytes, o, item) => Reads(bytes, o, item, s)
            BY HeaderAndContents
        <2> HIDE DEF item
        <2>3. String(s) = item
            BY <2>1 DEF item
        <2> QED BY <2>2, <2>3
    <1> QED BY <1>1, <1>2

(* An empty list is read as an item without contents.                      *)
LEMMA ListOfNothing ==
    /\ encodeRLPListHeader(0) \in Seq(Byte) /\ Len(encodeRLPListHeader(0)) \in Nat \ {0}
    /\ \A bytes \in Seq(Byte), o \in Nat : At(bytes, o, encodeRLPListHeader(0)) =>
         \A s \in Seq(Byte) : Len(s) = 0 => Reads(bytes, o, encodeRLPListHeader(0), s)
    <1> DEFINE h == encodeRLPListHeader(0)
    <1>1. 0 < Power[LengthBytes]
        BY PowerType, Marks
    <1>2. /\ h \in Seq(Byte) /\ Len(h) \in Nat \ {0}
          /\ \A bytes \in Seq(Byte), o \in Nat : At(bytes, o, h) =>
               Item(bytes, o + 1).from = o + 1 + Len(h) /\ Item(bytes, o + 1).size = 0
        BY <1>1, HeaderReads DEF encodeRLPListHeader
    <1> HIDE DEF h
    <1>3. ASSUME NEW bytes \in Seq(Byte), NEW o \in Nat, At(bytes, o, h),
                 NEW s \in Seq(Byte), Len(s) = 0
          PROVE Reads(bytes, o, h, s)
        <2>1. Item(bytes, o + 1).from = o + 1 + Len(h) /\ Item(bytes, o + 1).size = 0
            BY <1>2, <1>3
        <2>2. After(bytes, o + 1) = o + 1 + Len(h) + 0
            BY <2>1 DEF After
        <2>3. /\ o + 1 + Len(h) + 0 = o + Len(h) + 1
              /\ (o + 1 + Len(h) + 0) - 1 < o + 1 + Len(h)
              /\ o + 1 + Len(h) \in Int /\ (o + 1 + Len(h) + 0) - 1 \in Int
            BY <1>2
        <2>4. SubSeq(bytes, o + 1 + Len(h), (o + 1 + Len(h) + 0) - 1) = <<>>
            BY <2>3, SubSeqEmpty
        <2>5. s = <<>>
            BY <1>3, EmptySeq
        <2> QED BY <2>1, <2>2, <2>3, <2>4, <2>5 DEF Reads
    <1> QED BY <1>2, <1>3 DEF h

(* A sequence over a set is one over a larger set.                         *)
LEMMA Wider ==
    ASSUME NEW S, NEW T, S \subseteq T, NEW s \in Seq(S)
    PROVE s \in Seq(T)
    <1>1. Len(s) \in Nat /\ s \in [1..Len(s) -> S]
        BY LenProperties
    <1>2. s \in [1..Len(s) -> T]
        BY <1>1
    <1> QED BY <1>1, <1>2

(* Whatever fits, what is written is no shorter than what it holds.        *)
LEMMA WrittenLength ==
    /\ \A mark, n \in Nat : Header(mark, n) \in Seq(Nat)
    /\ \A s \in Seq(Byte) : String(s) \in Seq(Nat) /\ Len(s) <= Len(String(s))
    <1>1. ASSUME NEW mark \in Nat, NEW n \in Nat PROVE Header(mark, n) \in Seq(Nat)
        <2> DEFINE k == Digits(n)
                   L == encodeLength(n)
                   b == mark + ShortLimit - 1 + k
        <2>1. k \in Nat \ {0} /\ L \in Seq(Nat) /\ ShortLimit \in Nat \ {0}
            <3>1. L \in Seq(Byte) /\ Byte \subseteq Nat
                BY LengthType DEF Byte
            <3>2. L \in Seq(Nat)
                <4> HIDE DEF L
                <4> QED BY <3>1, Wider
            <3> QED BY <3>2, DigitsType, Marks
        <2>2. mark + n \in Nat /\ b \in Nat
            BY <2>1
        <2> HIDE DEF k, b, L
        <2>3. <<mark + n>> \in Seq(Nat) /\ <<b>> \in Seq(Nat)
            BY <2>2
        <2>4. <<b>> \o L \in Seq(Nat)
            <3> DEFINE f == <<b>>
            <3> HIDE DEF f
            <3>1. f \o L \in Seq(Nat)
                BY <2>1, <2>3, Concat DEF f
            <3> QED BY <3>1 DEF f
        <2> QED BY <2>3, <2>4 DEF Header, b, k, L
    <1>2. ASSUME NEW s \in Seq(Byte) PROVE String(s) \in Seq(Nat) /\ Len(s) <= Len(String(s))
        <2> DEFINE h == Header(StringMark, Len(s))
        <2>1. s \in Seq(Nat) /\ h \in Seq(Nat) /\ Len(s) \in Nat
            <3>1. Byte \subseteq Nat
                BY DEF Byte
            <3>2. s \in Seq(Nat) /\ Len(s) \in Nat
                BY <3>1, Wider, LenProperties
            <3> QED BY <1>1, <3>2, Marks
        <2> HIDE DEF h
        <2>2. h \o s \in Seq(Nat) /\ Len(h \o s) = Len(h) + Len(s) /\ Len(h) \in Nat
            BY <2>1, Concat
        <2>3. Len(s) <= Len(h \o s)
            BY <2>1, <2>2
        <2>4. String(s) = s \/ String(s) = h \o s
            BY DEF String, h
        <2>5. CASE String(s) = s
            BY <2>1, <2>5
        <2>6. CASE String(s) = h \o s
            BY <2>2, <2>3, <2>6
        <2> QED BY <2>4, <2>5, <2>6
    <1> QED BY <1>1, <1>2

(* A request of a script.                                                  *)
RequestType == [tx : Seq(Byte), priority : Nat, extra : Seq(Byte)]

(* The parts of a request as bytes.                                        *)
PriorityBytes(n) == IF n = 0 THEN BigEndian(0, 0) ELSE encodeLength(n)
Extra(r) == IF r.extra = <<>> THEN encodeRLPListHeader(0) ELSE String(r.extra)
Contents(r) == r.tx \o Integer(r.priority) \o Extra(r)
Packed(r) == EncodeRLP(r.tx, r.priority, r.extra)

(* A request is a list of its three parts.                                 *)
LEMMA PackedIs ==
    ASSUME NEW r
    PROVE Packed(r) = Header(ListMark, Len(Contents(r))) \o Contents(r)
    BY DEF Packed, EncodeRLP, Contents, Extra, encodeRLPListHeader

(* The bytes of a priority are read back; zero has none.                   *)
LEMMA PriorityBytesType ==
    ASSUME NEW n \in Nat
    PROVE /\ PriorityBytes(n) \in Seq(Byte) /\ BigEndianNumber(PriorityBytes(n)) = n
          /\ Integer(n) = String(PriorityBytes(n))
    <1>1. CASE n = 0
        <2>1. 0 < Power[0]
            BY PowerDef
        <2>2. /\ BigEndian(0, 0) \in Seq(Byte) /\ Len(BigEndian(0, 0)) = 0
              /\ BigEndianNumber(BigEndian(0, 0)) = 0
            BY <2>1, BigEndianType, NumberOfBigEndian
        <2>3. BigEndian(0, 0) = <<>>
            BY <2>2, EmptySeq
        <2>4. Integer(n) = String(<<>>)
            BY <1>1 DEF Integer
        <2> QED BY <1>1, <2>2, <2>3, <2>4 DEF PriorityBytes
    <1>2. CASE n # 0
        BY <1>2, LengthType DEF PriorityBytes, Integer
    <1> QED BY <1>1, <1>2

(* Whatever they are, the parts are no longer than the whole.              *)
LEMMA PartsFit ==
    ASSUME NEW r \in RequestType, RequestFits(r)
    PROVE /\ r.tx \in Seq(Byte) /\ r.priority \in Nat /\ r.extra \in Seq(Byte)
          /\ Len(r.tx) < Power[LengthBytes] /\ Len(PriorityBytes(r.priority)) < Power[LengthBytes]
          /\ Len(r.extra) < Power[LengthBytes] /\ Len(Contents(r)) < Power[LengthBytes]
          /\ Len(Packed(r)) < Power[HeaderWidth]
    <1> DEFINE t == r.tx
               d == PriorityBytes(r.priority)
               p == Integer(r.priority)
               x == Extra(r)
               tp == t \o p
               c == Contents(r)
               h == Header(ListMark, Len(c))
               b == Packed(r)
    <1>1. t \in Seq(Byte) /\ r.priority \in Nat /\ r.extra \in Seq(Byte)
        BY DEF RequestType
    <1>2. t \in Seq(Nat) /\ Len(t) \in Nat
        <2>1. Byte \subseteq Nat
            BY DEF Byte
        <2> QED BY <1>1, <2>1, Wider, LenProperties
    <1>3. p \in Seq(Nat) /\ Len(d) <= Len(p) /\ Len(p) \in Nat /\ Len(d) \in Nat
        BY <1>1, PriorityBytesType, WrittenLength, LenProperties
    <1>4. x \in Seq(Nat) /\ Len(r.extra) <= Len(x) /\ Len(x) \in Nat /\ Len(r.extra) \in Nat
        <2>1. CASE r.extra = <<>>
            <3>1. x \in Seq(Nat)
                BY <2>1, Marks, WrittenLength DEF Extra, encodeRLPListHeader
            <3>2. Len(r.extra) = 0
                BY <2>1
            <3> QED BY <3>1, <3>2, LenProperties
        <2>2. CASE r.extra # <<>>
            <3>1. x = String(r.extra)
                BY <2>2 DEF Extra
            <3> QED BY <1>1, <3>1, WrittenLength, LenProperties
        <2> QED BY <2>1, <2>2
    <1>5. c = tp \o x
        BY DEF Contents
    <1> HIDE DEF t, p, x, d, c
    <1>6. tp \in Seq(Nat) /\ Len(tp) = Len(t) + Len(p)
        BY <1>2, <1>3, Concat
    <1> HIDE DEF tp
    <1>7. c \in Seq(Nat) /\ Len(c) = Len(tp) + Len(x) /\ Len(c) \in Nat
        BY <1>4, <1>5, <1>6, Concat, LenProperties
    <1>8. h \in Seq(Nat)
        BY <1>7, WrittenLength, Marks
    <1>9. b = h \o c
        BY PackedIs DEF c
    <1> HIDE DEF h, b
    <1>10. Len(b) = Len(h) + Len(c) /\ Len(h) \in Nat
        BY <1>7, <1>8, <1>9, Concat
    <1>11. Len(b) < Power[HeaderWidth]
        BY DEF RequestFits, b, Packed
    <1>12. Power[HeaderWidth] <= Power[LengthBytes] /\ Power[HeaderWidth] \in Nat /\ Power[LengthBytes] \in Nat
        BY PowerGrows, PowerType, Marks
    <1>13. /\ Len(t) < Power[LengthBytes] /\ Len(d) < Power[LengthBytes]
           /\ Len(r.extra) < Power[LengthBytes] /\ Len(c) < Power[LengthBytes]
        <2> DEFINE A == Power[HeaderWidth]
                   B == Power[LengthBytes]
        <2>1. Len(b) < A /\ A <= B /\ A \in Nat /\ B \in Nat
            BY <1>11, <1>12
        <2>2. Len(c) = Len(t) + Len(p) + Len(x) /\ Len(b) = Len(h) + Len(c)
            BY <1>6, <1>7, <1>10
        <2> HIDE DEF A, B
        <2>3. Len(c) <= Len(b) /\ Len(t) <= Len(c) /\ Len(p) <= Len(c) /\ Len(x) <= Len(c)
            BY <1>2, <1>3, <1>4, <1>10, <2>2
        <2>4. Len(b) \in Nat /\ Len(c) \in Nat
            BY <1>2, <1>3, <1>4, <1>10, <2>2
        <2>5. Len(t) < B /\ Len(d) < B /\ Len(r.extra) < B /\ Len(c) < B
            BY <1>2, <1>3, <1>4, <2>1, <2>3, <2>4
        <2> QED BY <2>5 DEF B
    <1> QED BY <1>1, <1>11, <1>13 DEF t, d, c, b

(* The extra data are read back, also when there are none.                 *)
LEMMA ExtraReads ==
    ASSUME NEW r \in RequestType, RequestFits(r)
    PROVE /\ Extra(r) \in Seq(Byte) /\ Len(Extra(r)) \in Nat \ {0}
          /\ \A bytes \in Seq(Byte), o \in Nat : At(bytes, o, Extra(r)) =>
               Reads(bytes, o, Extra(r), r.extra)
    <1>1. r.extra \in Seq(Byte) /\ Len(r.extra) < Power[LengthBytes]
        BY PartsFit
    <1>2. CASE r.extra = <<>>
        <2>1. Extra(r) = encodeRLPListHeader(0) /\ Len(r.extra) = 0
            BY <1>2 DEF Extra
        <2> QED BY <1>1, <2>1, ListOfNothing
    <1>3. CASE r.extra # <<>>
        <2>1. Extra(r) = String(r.extra)
            BY <1>3 DEF Extra
        <2> QED BY <1>1, <2>1, StringReads
    <1> QED BY <1>2, <1>3

(* A transaction that is one item is passed over as one.                   *)
LEMMA TxReads ==
    ASSUME NEW tx \in Seq(Byte), IsItem(tx), Len(tx) < Power[LengthBytes],
           NEW bytes \in Seq(Byte), NEW o \in Nat, At(bytes, o, tx)
    PROVE After(bytes, o + 1) = o + Len(tx) + 1
    <1>1. PICK mark \in {StringMark, ListMark}, n \in 0..Len(tx) :
              tx = Header(mark, n) \o SubSeq(tx, Len(tx) - n + 1, Len(tx))
        BY DEF IsItem
    <1> DEFINE s == SubSeq(tx, Len(tx) - n + 1, Len(tx))
    <1>2. Len(tx) \in Nat /\ n \in Nat /\ n <= Len(tx) /\ Len(tx) - n \in Nat
        BY <1>1, LenProperties
    <1>3. s \in Seq(Byte) /\ Len(s) = n
        <2> DEFINE b == Len(tx) - n
        <2>1. ~Short(tx, b, n) /\ b + n = Len(tx) /\ b \in Nat
            BY <1>2 DEF Short
        <2>2. s = Field(tx, b, n)
            BY <2>1 DEF Field
        <2> HIDE DEF s, b
        <2>3. Field(tx, b, n) \in Seq(Byte) /\ Len(Field(tx, b, n)) = n
            <3>1. tx \in Seq(Byte) /\ n \in Nat
                BY <1>2
            <3> QED BY ONLY <2>1, <3>1, FieldType
        <2> QED BY <2>2, <2>3
    <1> HIDE DEF s
    <1> DEFINE item == Header(mark, Len(s)) \o s
    <1>4. tx = item
        BY <1>1, <1>3 DEF s
    <1>5. Len(s) < Power[LengthBytes]
        BY <1>2, <1>3, PowerType, Marks
    <1>6. \A b \in Seq(Byte), p \in Nat : At(b, p, item) => Reads(b, p, item, s)
        BY <1>1, <1>3, <1>5, HeaderAndContents
    <1> HIDE DEF item
    <1>7. Reads(bytes, o, tx, s)
        BY <1>4, <1>6
    <1> QED BY <1>7 DEF Reads

(* The txpool unpacks from a request's bytes what the request was.         *)
LEMMA RequestReads ==
    ASSUME NEW r \in RequestType, RequestFits(r)
    PROVE /\ Packed(r) \in Seq(Byte) /\ Len(Packed(r)) \in Nat \ {0}
          /\ Len(Packed(r)) < Power[HeaderWidth]
          /\ Unpack(Packed(r)) =
               [tx |-> r.tx, priority |-> r.priority, extra |-> r.extra, whole |-> TRUE]
    <1> DEFINE t == r.tx
               d == PriorityBytes(r.priority)
               p == Integer(r.priority)
               x == Extra(r)
               tp == t \o p
               c == Contents(r)
               h == Header(ListMark, Len(c))
               b == Packed(r)
               k == Len(h)
               i == k + Len(t)
               j == i + Len(p)
    <1>1. /\ t \in Seq(Byte) /\ r.priority \in Nat /\ Len(t) < Power[LengthBytes]
          /\ Len(d) < Power[LengthBytes] /\ Len(c) < Power[LengthBytes]
          /\ Len(b) < Power[HeaderWidth] /\ Len(t) \in Nat
        BY PartsFit, LenProperties
    <1>2. d \in Seq(Byte) /\ BigEndianNumber(d) = r.priority /\ p = String(d)
        BY <1>1, PriorityBytesType
    <1>3. /\ p \in Seq(Byte) /\ Len(p) \in Nat \ {0}
          /\ \A s \in Seq(Byte), o \in Nat : At(s, o, p) => Reads(s, o, p, d)
        <2> HIDE DEF p, d
        <2> QED BY <1>1, <1>2, StringReads
    <1>4. /\ x \in Seq(Byte) /\ Len(x) \in Nat \ {0}
          /\ \A s \in Seq(Byte), o \in Nat : At(s, o, x) => Reads(s, o, x, r.extra)
        BY ExtraReads
    <1>5. c = tp \o x
        BY DEF Contents
    <1>6. IsItem(t)
        BY DEF RequestFits
    <1> HIDE DEF t, p, x, d, c
    <1>7. tp \in Seq(Byte) /\ Len(tp) = Len(t) + Len(p)
        BY <1>1, <1>3, Concat
    <1>8. c \in Seq(Byte) /\ Len(c) = Len(tp) + Len(x) /\ Len(c) \in Nat
        <2> HIDE DEF tp
        <2> QED BY <1>4, <1>5, <1>7, Concat, LenProperties
    <1>9. b = h \o c
        BY PackedIs DEF c
    <1>10. h \in Seq(Byte) /\ k \in Nat \ {0}
        BY <1>1, <1>8, HeaderReads
    <1> DEFINE item == Header(ListMark, Len(c)) \o c
    <1>11. /\ b = item /\ item \in Seq(Byte) /\ Len(item) \in Nat \ {0}
           /\ \A s \in Seq(Byte), o \in Nat : At(s, o, item) =>
                Reads(s, o, item, c) /\ Item(s, o + 1).from = o + k + 1
        BY <1>1, <1>8, <1>9, HeaderAndContents
    <1> HIDE DEF h, b, item, tp
    <1>12. b \in Seq(Byte) /\ Len(b) \in Nat \ {0} /\ Len(b) = k + Len(c)
        BY <1>8, <1>9, <1>10, <1>11, Concat
    <1>13. At(b, 0, b)
        <2>1. 0 + Len(b) <= Len(b) /\ \A q \in 1..Len(b) : b[0 + q] = b[q]
            BY <1>12
        <2> QED BY <2>1 DEF At
    <1>14. At(b, k, c)
        <2>1. At(b, 0 + Len(h), c)
            BY <1>8, <1>9, <1>10, <1>12, <1>13, AtConcat
        <2> QED BY <1>10, <2>1
    <1>15. At(b, k, tp) /\ At(b, k + Len(tp), x)
        BY <1>4, <1>5, <1>7, <1>10, <1>12, <1>14, AtConcat
    <1>16. At(b, k, t) /\ At(b, i, p)
        BY <1>1, <1>3, <1>10, <1>12, <1>15, AtConcat DEF tp
    <1>17. /\ k + Len(tp) = j /\ i \in Nat /\ j \in Nat /\ j + Len(x) = Len(b)
           /\ 0 + k + 1 = k + 1 /\ 0 + Len(b) + 1 = Len(b) + 1 /\ 0 + 1 = 1
           /\ (i + 1) - 1 = i /\ j + 1 <= Len(b)
        <2> HIDE DEF k
        <2> QED BY <1>1, <1>3, <1>4, <1>7, <1>8, <1>10, <1>12
    <1> HIDE DEF k, i, j
    <1>18. Item(b, 1).from = k + 1 /\ After(b, 1) = Len(b) + 1
        <2>1. Reads(b, 0, b, c) /\ Item(b, 0 + 1).from = 0 + k + 1
            BY <1>11, <1>12, <1>13
        <2>2. After(b, 0 + 1) = 0 + Len(b) + 1
            BY <2>1 DEF Reads
        <2> QED BY <1>17, <2>1, <2>2
    <1>19. After(b, k + 1) = i + 1
        BY <1>1, <1>6, <1>10, <1>12, <1>16, TxReads DEF i
    <1>20. After(b, i + 1) = j + 1 /\ SubSeq(b, Item(b, i + 1).from, After(b, i + 1) - 1) = d
        BY <1>3, <1>12, <1>16, <1>17 DEF Reads, j
    <1>21. After(b, j + 1) = Len(b) + 1 /\ SubSeq(b, Item(b, j + 1).from, After(b, j + 1) - 1) = r.extra
        <2>1. Reads(b, j, x, r.extra)
            BY <1>4, <1>12, <1>15, <1>17
        <2> QED BY <1>17, <2>1 DEF Reads
    <1>22. SubSeq(b, k + 1, (i + 1) - 1) = t
        <2>1. Field(b, k, Len(t)) = t
            BY <1>1, <1>10, <1>12, <1>16, AtField
        <2> QED BY <1>17, <2>1 DEF Field, i
    <1>23. Unpack(b) = [tx |-> t, priority |-> BigEndianNumber(d), extra |-> r.extra,
                        whole |-> (/\ After(b, 1) = Len(b) + 1
                                   /\ After(b, j + 1) = Len(b) + 1
                                   /\ j + 1 <= Len(b))]
        BY <1>18, <1>19, <1>20, <1>21, <1>22 DEF Unpack
    <1>24. Unpack(b) = [tx |-> t, priority |-> r.priority, extra |-> r.extra, whole |-> TRUE]
        BY <1>2, <1>17, <1>18, <1>21, <1>23
    <1> QED BY <1>1, <1>12, <1>24 DEF b, t

-----------------------------------------------------------------------------
(* The sending half.                                                       *)

(* Beginnings of a concatenation.                                          *)
LEMMA StartsConcat ==
    ASSUME NEW S, NEW f \in Seq(S), NEW g \in Seq(S)
    PROVE /\ \A d \in Seq(S) : Starts(d, f) => Starts(d, f \o g)
          /\ \A d \in Seq(S) : Starts(d, g) => Starts(f \o d, f \o g)
    <1>1. /\ Len(f) \in Nat /\ Len(g) \in Nat
          /\ \A d \in Seq(S) : /\ Len(d) \in Nat /\ Len(f \o d) = Len(f) + Len(d)
                               /\ \A i \in 1..(Len(f) + Len(d)) :
                                    (f \o d)[i] = IF i <= Len(f) THEN f[i] ELSE d[i - Len(f)]
        BY ConcatProperties, LenProperties
    <1>2. ASSUME NEW d \in Seq(S), Starts(d, f) PROVE Starts(d, f \o g)
        <2> DEFINE fg == f \o g
        <2>1. /\ Len(fg) = Len(f) + Len(g)
              /\ \A i \in 1..(Len(f) + Len(g)) : fg[i] = IF i <= Len(f) THEN f[i] ELSE g[i - Len(f)]
            BY <1>1
        <2> HIDE DEF fg
        <2>2. Len(d) \in Nat /\ Len(d) <= Len(f) /\ \A i \in 1..Len(d) : d[i] = f[i]
            BY <1>1, <1>2 DEF Starts
        <2>3. \A i \in 1..Len(d) : i \in 1..(Len(f) + Len(g)) /\ i <= Len(f)
            BY <1>1, <2>2
        <2>4. \A i \in 1..Len(d) : d[i] = fg[i]
            BY <2>1, <2>2, <2>3
        <2>5. Len(d) <= Len(fg)
            BY <1>1, <2>1, <2>2
        <2> QED BY <2>4, <2>5 DEF Starts, fg
    <1>3. ASSUME NEW d \in Seq(S), Starts(d, g) PROVE Starts(f \o d, f \o g)
        <2> DEFINE fg == f \o g
                   fd == f \o d
        <2>1. /\ Len(fg) = Len(f) + Len(g) /\ Len(fd) = Len(f) + Len(d) /\ Len(d) \in Nat
              /\ \A i \in 1..(Len(f) + Len(g)) : fg[i] = IF i <= Len(f) THEN f[i] ELSE g[i - Len(f)]
              /\ \A i \in 1..(Len(f) + Len(d)) : fd[i] = IF i <= Len(f) THEN f[i] ELSE d[i - Len(f)]
            BY <1>1
        <2> HIDE DEF fg, fd
        <2>2. Len(d) <= Len(g) /\ \A i \in 1..Len(d) : d[i] = g[i]
            BY <1>3 DEF Starts
        <2>3. ASSUME NEW i \in 1..Len(fd) PROVE fd[i] = fg[i]
            <3>1. i \in 1..(Len(f) + Len(d)) /\ i \in 1..(Len(f) + Len(g))
                BY <1>1, <2>1, <2>2
            <3>2. CASE i <= Len(f)
                BY <2>1, <3>1, <3>2
            <3>3. CASE ~(i <= Len(f))
                <4>1. i - Len(f) \in 1..Len(d)
                    BY <1>1, <2>1, <3>1, <3>3
                <4> QED BY <2>1, <2>2, <3>1, <3>3, <4>1
            <3> QED BY <3>2, <3>3
        <2>4. Len(fd) <= Len(fg)
            BY <1>1, <2>1, <2>2
        <2> QED BY <2>3, <2>4 DEF Starts, fg, fd
    <1> QED BY <1>2, <1>3

(* A sequence more, and it is the last of what is left.                    *)
LEMMA RemainingAppend ==
    ASSUME NEW S, NEW q \in Seq(Seq(S)), NEW x \in Seq(S), NEW a \in 0..Len(q)
    PROVE Remaining(Append(q, x), a) = Remaining(q, a) \o x
    <1> DEFINE T == Seq(S)
               n == Len(q)
               z == Append(q, x)
               u == SubSeq(q, a + 1, n)
               v == SubSeq(z, a + 1, n + 1)
    <1>1. n \in Nat /\ a \in Nat /\ a <= n
        BY LenProperties
    <1>2. /\ z \in Seq(T) /\ Len(z) = n + 1 /\ z[n + 1] = x /\ \A i \in 1..n : z[i] = q[i]
        <2> HIDE DEF T
        <2>1. q \in Seq(T) /\ x \in T
            BY DEF T
        <2> QED BY <2>1, AppendProperties
    <1>3. q \in Seq(T) /\ x \in T
        OBVIOUS
    <1> HIDE DEF T, z
    <1>4. /\ u \in Seq(T) /\ Len(u) = n - a /\ \A i \in 1..(n - a) : u[i] = q[a + i]
        <2>1. ~Short(q, a, n - a) /\ a + (n - a) = n /\ n - a \in Nat
            BY <1>1 DEF Short
        <2>2. u = Field(q, a, n - a)
            BY <2>1 DEF Field
        <2> DEFINE w == n - a
        <2> HIDE DEF u, n, w
        <2>3. w \in Nat /\ ~Short(q, a, w) /\ u = Field(q, a, w)
            BY <2>1, <2>2 DEF w
        <2>4. /\ Field(q, a, w) \in Seq(T) /\ Len(Field(q, a, w)) = w
              /\ \A i \in 1..w : Field(q, a, w)[i] = q[a + i]
            BY <1>1, <1>3, <2>3, FieldType
        <2> QED BY <2>3, <2>4 DEF w
    <1>5. /\ v \in Seq(T) /\ Len(v) = n + 1 - a /\ \A i \in 1..(n + 1 - a) : v[i] = z[a + i]
        <2>1. ~Short(z, a, n + 1 - a) /\ a + (n + 1 - a) = n + 1 /\ n + 1 - a \in Nat
            BY <1>1, <1>2 DEF Short
        <2>2. v = Field(z, a, n + 1 - a)
            BY <2>1 DEF Field
        <2> DEFINE w == n + 1 - a
        <2> HIDE DEF v, n, w
        <2>3. w \in Nat /\ ~Short(z, a, w) /\ v = Field(z, a, w)
            BY <2>1, <2>2 DEF w
        <2>4. /\ Field(z, a, w) \in Seq(T) /\ Len(Field(z, a, w)) = w
              /\ \A i \in 1..w : Field(z, a, w)[i] = z[a + i]
            BY <1>1, <1>2, <2>3, FieldType
        <2>5. \A i \in 1..w : v[i] = z[a + i]
            BY <2>3, <2>4
        <2>6. v \in Seq(T) /\ Len(v) = w
            BY <2>3, <2>4
        <2> QED BY <2>5, <2>6 DEF w
    <1> HIDE DEF u, v, n
    <1>6. v = Append(u, x)
        <2>1. /\ Append(u, x) \in Seq(T) /\ Len(Append(u, x)) = (n - a) + 1
              /\ Append(u, x)[(n - a) + 1] = x
              /\ \A i \in 1..(n - a) : Append(u, x)[i] = u[i]
            BY <1>3, <1>4, AppendProperties
        <2>2. (n - a) + 1 = n + 1 - a /\ a + ((n - a) + 1) = n + 1 /\ n - a \in Nat
            BY <1>1
        <2>3. ASSUME NEW i \in 1..((n - a) + 1) PROVE v[i] = Append(u, x)[i]
            <3>1. CASE i = (n - a) + 1
                BY <1>2, <1>5, <2>1, <2>2, <3>1
            <3>2. CASE i # (n - a) + 1
                <4>1. i \in 1..(n - a) /\ a + i \in 1..n /\ i \in 1..(n + 1 - a)
                    BY <1>1, <2>2, <3>2
                <4> QED BY <1>2, <1>4, <1>5, <2>1, <4>1
            <3> QED BY <3>1, <3>2
        <2> QED BY <1>5, <2>1, <2>2, <2>3, SeqEqual
    <1>7. FlattenSeq(Append(u, x)) = FlattenSeq(u) \o x
        BY <1>4, FlattenAppend DEF T
    <1> QED BY <1>2, <1>6, <1>7 DEF Remaining, u, v, n, z

(* The frames of the requests.                                             *)
Sent(s) == [i \in 1..Len(s.requests) |-> Frame(Packed(s.requests[i]))]

(* The requests of a script and their frames.                              *)
LEMMA RequestsType ==
    ASSUME NEW s \in Scripts
    PROVE /\ Len(s.requests) \in Nat
          /\ \A i \in 1..Len(s.requests) :
               s.requests[i] \in RequestType /\ RequestFits(s.requests[i])
          /\ Sent(s) \in Seq(Seq(Byte)) /\ Len(Sent(s)) = Len(s.requests)
          /\ \A i \in 1..Len(s.requests) : Sent(s)[i] = Frame(Packed(s.requests[i]))
    <1> DEFINE n == Len(s.requests)
               T == Seq(Byte)
               q == Sent(s)
    <1>1. s.requests \in Seq(RequestType) /\ \A i \in 1..n : RequestFits(s.requests[i])
        BY MessagesAssumption DEF RequestType
    <1>2. n \in Nat /\ \A i \in 1..n : s.requests[i] \in RequestType
        BY <1>1, ElementOfSeq, LenProperties
    <1>3. \A i \in 1..n : Frame(Packed(s.requests[i])) \in T
        BY <1>1, <1>2, RequestReads, FrameType
    <1>4. q \in [1..n -> T] /\ \A i \in 1..n : q[i] = Frame(Packed(s.requests[i]))
        BY <1>3 DEF Sent
    <1>5. q \in Seq(T) /\ Len(q) = n
        <2> HIDE DEF q, T
        <2>1. q \in Seq(T)
            BY <1>2, <1>4
        <2>2. Len(q) = n
            BY <1>2, <1>4
        <2> QED BY <2>1, <2>2
    <1> QED BY <1>1, <1>2, <1>4, <1>5

(* A whole frame is taken as it was written.                               *)
LEMMA WholeFrame ==
    ASSUME NEW p \in Seq(Byte), Len(p) < Power[HeaderWidth], NEW more \in Seq(Byte)
    PROVE LET out == Frame(p) \o more IN
          /\ BigEndianNumber(Field(out, 0, HeaderWidth)) = Len(p)
          /\ Field(out, HeaderWidth, Len(p)) = p
          /\ SubSeq(out, HeaderWidth + Len(p) + 1, Len(out)) = more
    <1> DEFINE B == BigEndian(Len(p), HeaderWidth)
               F == Frame(p)
               out == F \o more
    <1>1. /\ B \in Seq(Byte) /\ Len(B) = HeaderWidth /\ BigEndianNumber(B) = Len(p)
          /\ HeaderWidth \in Nat /\ Len(p) \in Nat
        BY BigEndianType, NumberOfBigEndian, LenProperties, Widths
    <1>2. F = B \o p
        BY DEF Frame
    <1> HIDE DEF B, F
    <1>3. F \in Seq(Byte) /\ Len(F) = HeaderWidth + Len(p)
        BY <1>1, <1>2, Concat
    <1>4. out \in Seq(Byte) /\ At(out, 0, F)
        BY <1>3, Concat, AtStart
    <1>5. SubSeq(out, Len(F) + 1, Len(out)) = more
        BY <1>3, Cut
    <1> HIDE DEF out
    <1>6. At(out, 0, B) /\ At(out, 0 + Len(B), p)
        BY <1>1, <1>2, <1>4, AtConcat
    <1>7. Field(out, 0, Len(B)) = B /\ Field(out, 0 + Len(B), Len(p)) = p
        BY <1>1, <1>4, <1>6, AtField
    <1>8. 0 + Len(B) = HeaderWidth
        BY <1>1
    <1> QED BY <1>1, <1>3, <1>5, <1>7, <1>8 DEF out, F

(* A part of a frame is never taken for one.                               *)
LEMMA PartOfFrame ==
    ASSUME NEW p \in Seq(Byte), Len(p) < Power[HeaderWidth],
           NEW part \in Seq(Byte), Starts(part, Frame(p)), Len(part) < Len(Frame(p))
    PROVE \/ Short(part, 0, HeaderWidth)
          \/ Short(part, HeaderWidth, BigEndianNumber(Field(part, 0, HeaderWidth)))
    <1> DEFINE B == BigEndian(Len(p), HeaderWidth)
               F == Frame(p)
    <1>1. /\ B \in Seq(Byte) /\ Len(B) = HeaderWidth /\ BigEndianNumber(B) = Len(p)
          /\ HeaderWidth \in Nat /\ Len(p) \in Nat
        BY BigEndianType, NumberOfBigEndian, LenProperties, Widths
    <1>2. F = B \o p
        BY DEF Frame
    <1>3. Starts(part, F) /\ Len(part) < Len(F)
        OBVIOUS
    <1> HIDE DEF B, F
    <1>4. F \in Seq(Byte) /\ Len(F) = HeaderWidth + Len(p) /\ At(F, 0, B)
        BY <1>1, <1>2, Concat, AtStart
    <1>5. SUFFICES ASSUME ~Short(part, 0, HeaderWidth)
                   PROVE Short(part, HeaderWidth, BigEndianNumber(Field(part, 0, HeaderWidth)))
        OBVIOUS
    <1>6. Field(part, 0, HeaderWidth) = Field(F, 0, HeaderWidth)
        BY <1>1, <1>3, <1>4, <1>5, FieldStable
    <1>7. Field(F, 0, HeaderWidth) = B
        BY <1>1, <1>4, AtField
    <1>8. BigEndianNumber(Field(part, 0, HeaderWidth)) = Len(p)
        BY <1>1, <1>6, <1>7
    <1> QED BY <1>3, <1>4, <1>8 DEF Short

(* What the txpool has unpacked is this kind of record.                    *)
Unpacked == [tx : Seq(Byte), priority : Nat, extra : Seq(Byte), whole : {TRUE}]

(* The whole frames on their way, and what may be written of the next one. *)
Pending == Remaining(SubSeq(Sent(script), 1, sender.next - 1), Len(accepted))

(* What may be written of the next frame: its length before the data, or,  *)
(* after a failed write, anything short of the whole.                      *)
Unfinished(part) ==
    \/ sender.at = "idle" /\ part = <<>>
    \/ /\ sender.next <= Len(script.requests)
       /\ \/ sender.at = "data" /\ part = BigEndian(Len(Encoded), HeaderWidth)
          \/ /\ sender.at = "failed"
             /\ Starts(part, Frame(Encoded)) /\ Len(part) < Len(Frame(Encoded))

(* The inductive invariant: what the txpool has unpacked are the first     *)
(* requests, and what is on its way are the frames of the others that were *)
(* written, with a part of the next one.                                   *)
SendInv ==
    /\ script \in Scripts
    /\ sender \in [at : {"idle", "data", "failed"}, next : 1..(Len(script.requests) + 1)]
    /\ accepted \in Seq(Unpacked)
    /\ RequestsReadBack
    /\ \E part \in Seq(Byte) : Unfinished(part) /\ outbound = Pending \o part

(* The empty sequence is one of bytes.                                     *)
LEMMA EmptyBytes == <<>> \in Seq(Byte)
    OBVIOUS

(* Nothing appended changes nothing.                                       *)
LEMMA Appending ==
    ASSUME NEW S, NEW s \in Seq(S)
    PROVE s \o <<>> = s
    BY ConcatEmptySeq

(* The frames sent before the next one.                                    *)
LEMMA SentBefore ==
    ASSUME SendInv
    PROVE /\ Len(script.requests) \in Nat /\ sender.next \in Nat /\ sender.next - 1 \in Nat
          /\ sender.next - 1 \in 0..Len(script.requests)
          /\ SubSeq(Sent(script), 1, sender.next - 1) \in Seq(Seq(Byte))
          /\ Len(SubSeq(Sent(script), 1, sender.next - 1)) = sender.next - 1
          /\ \A i \in 1..(sender.next - 1) :
               SubSeq(Sent(script), 1, sender.next - 1)[i] = Frame(Packed(script.requests[i]))
          /\ Len(accepted) \in 0..(sender.next - 1)
          /\ Pending \in Seq(Byte)
    <1> DEFINE n == Len(script.requests)
               q == Sent(script)
               k == sender.next - 1
               s == SubSeq(q, 1, k)
               T == Seq(Byte)
    <1>1. /\ script \in Scripts /\ sender.next \in 1..(n + 1) /\ Len(accepted) \in Nat
          /\ Len(accepted) <= k
        BY LenProperties DEF SendInv, RequestsReadBack
    <1>2. /\ n \in Nat /\ q \in Seq(T) /\ Len(q) = n
          /\ \A i \in 1..n : q[i] = Frame(Packed(script.requests[i]))
        BY <1>1, RequestsType
    <1>3. sender.next \in Nat /\ k \in Nat /\ k \in 0..n
        BY <1>1, <1>2
    <1> HIDE DEF q, T, n
    <1>4. s \in Seq(T) /\ Len(s) = k /\ \A i \in 1..k : s[i] = q[i]
        <2> HIDE DEF k
        <2> QED BY <1>2, <1>3, Prefix DEF Starts
    <1>5. \A i \in 1..k : i \in 1..n
        BY <1>3, <1>2
    <1>6. Len(accepted) \in 0..k
        BY <1>1, <1>3
    <1>7. Remaining(s, Len(accepted)) \in Seq(Byte)
        <2> HIDE DEF s, k
        <2> QED BY <1>4, <1>6, RemainingType DEF T
    <1> QED BY <1>2, <1>3, <1>4, <1>5, <1>6, <1>7 DEF n, q, T, Pending

(* Nothing is on its way at first.                                         *)
LEMMA SendInitially == Init => SendInv
    <1> SUFFICES ASSUME Init PROVE SendInv
        OBVIOUS
    <1>1. /\ script \in Scripts /\ sender = [at |-> "idle", next |-> 1] /\ outbound = <<>>
          /\ accepted = <<>>
        BY DEF Init
    <1>2. Len(script.requests) \in Nat
        BY <1>1, RequestsType
    <1>3. sender \in [at : {"idle", "data", "failed"}, next : 1..(Len(script.requests) + 1)]
        BY <1>1, <1>2
    <1>4. accepted \in Seq(Unpacked) /\ Len(accepted) = 0
        BY <1>1
    <1>5. RequestsReadBack
        BY <1>1, <1>4 DEF RequestsReadBack
    <1>6. Pending = <<>>
        <2>1. sender.next - 1 = 0
            BY <1>1
        <2>2. SubSeq(Sent(script), 1, 0) = <<>>
            BY SubSeqEmpty
        <2>3. SubSeq(<<>>, 0 + 1, Len(<<>>)) = <<>>
            BY SubSeqEmpty
        <2>4. Remaining(<<>>, 0) = <<>>
            BY <2>3, FlattenEmpty DEF Remaining
        <2> QED BY <1>4, <2>1, <2>2, <2>4 DEF Pending
    <1>7. Unfinished(<<>>)
        BY <1>1 DEF Unfinished
    <1>8. outbound = Pending \o <<>>
        BY <1>1, <1>6, EmptyBytes, Appending
    <1> QED BY <1>1, <1>3, <1>4, <1>5, <1>7, <1>8, EmptyBytes DEF SendInv

(* The request being written.                                              *)
LEMMA EncodedType ==
    ASSUME SendInv, sender.next <= Len(script.requests)
    PROVE /\ Encoded = Packed(script.requests[sender.next])
          /\ Encoded \in Seq(Byte) /\ Len(Encoded) \in Nat \ {0}
          /\ Len(Encoded) < Power[HeaderWidth]
          /\ BigEndian(Len(Encoded), HeaderWidth) \in Seq(Byte)
          /\ Len(BigEndian(Len(Encoded), HeaderWidth)) = HeaderWidth
          /\ Frame(Encoded) = BigEndian(Len(Encoded), HeaderWidth) \o Encoded
          /\ Len(Frame(Encoded)) = HeaderWidth + Len(Encoded) /\ Frame(Encoded) \in Seq(Byte)
    <1>1. Encoded = Packed(script.requests[sender.next])
        BY DEF Encoded, Packed, Request
    <1>2. sender.next \in 1..Len(script.requests) /\ script \in Scripts
        BY SentBefore DEF SendInv
    <1>3. /\ Encoded \in Seq(Byte) /\ Len(Encoded) \in Nat \ {0}
          /\ Len(Encoded) < Power[HeaderWidth]
        BY <1>1, <1>2, RequestsType, RequestReads
    <1> DEFINE B == BigEndian(Len(Encoded), HeaderWidth)
    <1>4. B \in Seq(Byte) /\ Len(B) = HeaderWidth
        BY <1>3, BigEndianType, Widths
    <1>5. Frame(Encoded) = B \o Encoded
        BY DEF Frame
    <1> HIDE DEF B
    <1>6. Len(Frame(Encoded)) = HeaderWidth + Len(Encoded) /\ Frame(Encoded) \in Seq(Byte)
        BY <1>3, <1>4, <1>5, Concat
    <1> QED BY <1>1, <1>3, <1>4, <1>5, <1>6 DEF B

(* A write that fails leaves a part that is short of a frame.              *)
LEMMA FailedWrite ==
    ASSUME SendInv, sender.next <= Len(script.requests),
           UNCHANGED <<script, accepted>>, sender' = [sender EXCEPT !.at = "failed"],
           NEW part \in Seq(Byte), outbound = Pending \o part,
           NEW more \in Seq(Byte), outbound' = outbound \o more,
           Starts(part \o more, Frame(Encoded)), Len(part \o more) < Len(Frame(Encoded))
    PROVE SendInv'
    <1>1. sender \in [at : {"idle", "data", "failed"}, next : 1..(Len(script.requests) + 1)]
        BY DEF SendInv
    <1>2. sender'.at = "failed" /\ sender'.next = sender.next
        BY <1>1
    <1>3. sender' \in [at : {"idle", "data", "failed"}, next : 1..(Len(script.requests) + 1)]
        BY <1>1
    <1>4. Encoded' = Encoded /\ Pending' = Pending
        BY <1>2 DEF Encoded, Request, Pending
    <1>5. RequestsReadBack'
        BY <1>2 DEF SendInv, RequestsReadBack
    <1> DEFINE longer == part \o more
    <1>6. longer \in Seq(Byte)
        BY Concat
    <1>7. outbound' = Pending \o longer
        <2> DEFINE P == Pending
        <2>1. P \in Seq(Byte)
            BY SentBefore
        <2>2. outbound' = (P \o part) \o more
            OBVIOUS
        <2> HIDE DEF P
        <2>3. part \in Seq(Byte) /\ more \in Seq(Byte)
            OBVIOUS
        <2>4. (P \o part) \o more = P \o (part \o more)
            BY ONLY <2>1, <2>3, Regroup, SMTT(20)
        <2>5. outbound' = P \o longer
            BY <2>2, <2>4
        <2> QED BY <2>5 DEF P
    <1>8. Unfinished(longer)'
        <2> HIDE DEF longer
        <2>1. Starts(longer, Frame(Encoded)) /\ Len(longer) < Len(Frame(Encoded))
            BY DEF longer
        <2> QED BY <1>2, <1>4, <2>1 DEF Unfinished
    <1> HIDE DEF longer
    <1> QED BY <1>3, <1>4, <1>5, <1>6, <1>7, <1>8 DEF SendInv

(* The length of a frame, written or written in part, is a part of it.     *)
LEMMA WriteLengthKeeps == SendInv /\ WriteLength => SendInv'
    <1> SUFFICES ASSUME SendInv, WriteLength PROVE SendInv'
        OBVIOUS
    <1> DEFINE B == BigEndian(Len(Encoded), HeaderWidth)
    <1>1. /\ sender.at = "idle" /\ sender.next <= Len(script.requests)
          /\ UNCHANGED <<script, accepted>>
          /\ \/ outbound' = outbound \o B /\ sender' = [at |-> "data", next |-> sender.next]
             \/ /\ \E n \in 0..(Len(B) - 1) : outbound' = outbound \o SubSeq(B, 1, n)
                /\ sender' = [sender EXCEPT !.at = "failed"]
        BY DEF WriteLength, Writes
    <1>2. /\ Encoded \in Seq(Byte) /\ Len(Encoded) \in Nat \ {0}
          /\ B \in Seq(Byte) /\ Len(B) = HeaderWidth /\ HeaderWidth \in Nat \ {0}
          /\ Frame(Encoded) = B \o Encoded /\ Len(Frame(Encoded)) = HeaderWidth + Len(Encoded)
        BY <1>1, EncodedType, Widths
    <1>3. PICK part \in Seq(Byte) : Unfinished(part) /\ outbound = Pending \o part
        BY DEF SendInv
    <1>4. part = <<>>
        BY <1>1, <1>3 DEF Unfinished
    <1>5. outbound = Pending
        BY <1>3, <1>4, SentBefore, Appending
    <1>6. sender \in [at : {"idle", "data", "failed"}, next : 1..(Len(script.requests) + 1)]
        BY DEF SendInv
    <1> HIDE DEF B
    <1>7. CASE outbound' = outbound \o B /\ sender' = [at |-> "data", next |-> sender.next]
        <2>1. sender'.at = "data" /\ sender'.next = sender.next
            BY <1>7
        <2>2. sender' \in [at : {"idle", "data", "failed"}, next : 1..(Len(script.requests) + 1)]
            BY <1>6, <1>7
        <2>3. Encoded' = Encoded /\ Pending' = Pending
            BY <1>1, <2>1 DEF Encoded, Request, Pending
        <2>4. RequestsReadBack'
            BY <1>1, <2>1 DEF SendInv, RequestsReadBack
        <2> PICK b \in Seq(Byte) : b = B
            BY <1>2
        <2>5. Unfinished(b)'
            <3>1. b = BigEndian(Len(Encoded'), HeaderWidth)
                BY <2>3 DEF B
            <3> QED BY <1>1, <2>1, <3>1 DEF Unfinished
        <2>6. outbound' = Pending' \o b
            BY <1>5, <1>7, <2>3
        <2> QED BY <1>1, <2>2, <2>4, <2>5, <2>6 DEF SendInv
    <1>8. CASE /\ \E n \in 0..(Len(B) - 1) : outbound' = outbound \o SubSeq(B, 1, n)
               /\ sender' = [sender EXCEPT !.at = "failed"]
        <2>1. PICK n \in 0..(Len(B) - 1) : outbound' = outbound \o SubSeq(B, 1, n)
            BY <1>8
        <2> DEFINE d == SubSeq(B, 1, n)
        <2>2. n \in 0..Len(B) /\ n < Len(B)
            BY <1>2
        <2>3. d \in Seq(Byte) /\ Len(d) = n /\ Starts(d, B)
            BY <1>2, <2>2, Prefix
        <2>4. Starts(d, Frame(Encoded)) /\ Len(d) < Len(Frame(Encoded))
            <3> HIDE DEF d
            <3>1. Starts(d, B \o Encoded)
                BY <1>2, <2>3, StartsConcat
            <3> QED BY <1>2, <2>2, <2>3, <3>1
        <2>5. part \o d = d
            <3> HIDE DEF d
            <3> QED BY <1>4, <2>3, ConcatEmptySeq
        <2>6. outbound' = outbound \o d
            BY <2>1
        <2> HIDE DEF d
        <2> QED BY <1>1, <1>3, <1>8, <2>3, <2>4, <2>5, <2>6, FailedWrite
    <1> QED BY <1>1, <1>7, <1>8

(* The data complete the frame, or leave a part of it.                     *)
LEMMA WriteDataKeeps == SendInv /\ WriteData => SendInv'
    <1> SUFFICES ASSUME SendInv, WriteData PROVE SendInv'
        OBVIOUS
    <1> DEFINE B == BigEndian(Len(Encoded), HeaderWidth)
               k == sender.next - 1
               q == Sent(script)
               n == Len(script.requests)
    <1>1. /\ sender.at = "data" /\ UNCHANGED <<script, accepted>>
          /\ \/ /\ outbound' = outbound \o Encoded
                /\ sender' = [at |-> "idle", next |-> sender.next + 1]
             \/ /\ \E j \in 0..(Len(Encoded) - 1) : outbound' = outbound \o SubSeq(Encoded, 1, j)
                /\ sender' = [sender EXCEPT !.at = "failed"]
        BY DEF WriteData, Writes
    <1>2. PICK part \in Seq(Byte) : Unfinished(part) /\ outbound = Pending \o part
        BY DEF SendInv
    <1>3. sender.next <= n /\ part = B
        BY <1>1, <1>2 DEF Unfinished
    <1>4. /\ Encoded \in Seq(Byte) /\ Len(Encoded) \in Nat \ {0}
          /\ Encoded = Packed(script.requests[sender.next])
          /\ B \in Seq(Byte) /\ Len(B) = HeaderWidth /\ HeaderWidth \in Nat \ {0}
          /\ Frame(Encoded) = B \o Encoded /\ Len(Frame(Encoded)) = HeaderWidth + Len(Encoded)
          /\ Frame(Encoded) \in Seq(Byte)
        BY <1>3, EncodedType, Widths
    <1>5. /\ n \in Nat /\ sender.next \in Nat /\ k \in Nat /\ k \in 0..n
          /\ SubSeq(q, 1, k) \in Seq(Seq(Byte)) /\ Len(SubSeq(q, 1, k)) = k
          /\ Len(accepted) \in 0..k /\ Pending \in Seq(Byte)
        BY SentBefore
    <1>6. sender \in [at : {"idle", "data", "failed"}, next : 1..(n + 1)] /\ script \in Scripts
        BY DEF SendInv
    <1> HIDE DEF B
    <1>7. CASE outbound' = outbound \o Encoded /\ sender' = [at |-> "idle", next |-> sender.next + 1]
        <2>1. sender'.at = "idle" /\ sender'.next = sender.next + 1
            BY <1>7
        <2>2. sender' \in [at : {"idle", "data", "failed"}, next : 1..(n + 1)]
            <3>1. sender.next + 1 \in 1..(n + 1)
                BY <1>3, <1>5
            <3> QED BY <1>7, <3>1
        <2>3. RequestsReadBack'
            <3>1. Len(accepted) <= (sender.next + 1) - 1
                BY <1>5
            <3> QED BY <1>1, <2>1, <3>1 DEF SendInv, RequestsReadBack
        <2>4. SubSeq(q, 1, (sender.next + 1) - 1) = Append(SubSeq(q, 1, k), Frame(Encoded))
            <3> DEFINE T == Seq(Byte)
                       m == sender.next
            <3>0. /\ q \in Seq(T) /\ Len(q) = n
                  /\ \A i \in 1..n : q[i] = Frame(Packed(script.requests[i]))
                BY <1>6, RequestsType
            <3>1. /\ q \in Seq(T) /\ Len(q) = n /\ q[m] = Frame(Encoded) /\ m \in 1..Len(q)
                  /\ (m + 1) - 1 = m
                <4>1. m \in 1..n /\ (m + 1) - 1 = m
                    BY <1>3, <1>5, <1>6
                <4> HIDE DEF q, T, n
                <4>2. q[m] = Frame(Encoded)
                    BY <1>4, <3>0, <4>1
                <4> HIDE DEF m
                <4> QED BY <3>0, <4>1, <4>2
            <3>2. Frame(Encoded) \in T /\ SubSeq(q, 1, k) \in Seq(T)
                BY <1>4, <1>5
            <3> HIDE DEF T, q, m
            <3>3. SubSeq(q, 1, m) = SubSeq(q, 1, m - 1) \o <<q[m]>>
                BY <3>1, SubSeqRecursiveSecond
            <3>4. SubSeq(q, 1, k) \o <<Frame(Encoded)>> = Append(SubSeq(q, 1, k), Frame(Encoded))
                BY <3>2, AppendIsConcat
            <3>5. m - 1 = k
                BY DEF m
            <3> QED BY <3>1, <3>3, <3>4, <3>5 DEF m
        <2>5. Pending' = Pending \o Frame(Encoded)
            <3> DEFINE s == SubSeq(q, 1, k)
            <3>1. Remaining(Append(s, Frame(Encoded)), Len(accepted)) = Remaining(s, Len(accepted)) \o Frame(Encoded)
                <4>1. s \in Seq(Seq(Byte)) /\ Len(accepted) \in 0..Len(s)
                    BY <1>5
                <4> HIDE DEF s
                <4> QED BY <1>4, <4>1, RemainingAppend
            <3>2. Pending' = Remaining(SubSeq(q, 1, (sender.next + 1) - 1), Len(accepted))
                BY <1>1, <2>1 DEF Pending
            <3> QED BY <2>4, <3>1, <3>2 DEF Pending
        <2>6. outbound' = Pending'
            <3> DEFINE P == Pending
                       E == Encoded
            <3>1. (P \o B) \o E = P \o (B \o E)
                <4>1. P \in Seq(Byte) /\ B \in Seq(Byte) /\ E \in Seq(Byte)
                    BY <1>4, <1>5
                <4> HIDE DEF P, E
                <4> QED BY ONLY <4>1, Regroup, SMTT(20)
            <3> QED BY <1>2, <1>3, <1>4, <1>7, <2>5, <3>1 DEF B
        <2>7. Pending' \in Seq(Byte)
            BY <1>4, <1>5, <2>5, Concat
        <2>8. outbound' = Pending' \o <<>>
            BY <2>6, <2>7, Appending
        <2>9. Unfinished(<<>>)'
            BY <2>1 DEF Unfinished
        <2> QED BY <1>1, <2>2, <2>3, <2>8, <2>9, EmptyBytes DEF SendInv
    <1>8. CASE /\ \E j \in 0..(Len(Encoded) - 1) : outbound' = outbound \o SubSeq(Encoded, 1, j)
               /\ sender' = [sender EXCEPT !.at = "failed"]
        <2>1. PICK j \in 0..(Len(Encoded) - 1) : outbound' = outbound \o SubSeq(Encoded, 1, j)
            BY <1>8
        <2> DEFINE d == SubSeq(Encoded, 1, j)
        <2>2. j \in 0..Len(Encoded) /\ j < Len(Encoded)
            BY <1>4
        <2>3. d \in Seq(Byte) /\ Len(d) = j /\ Starts(d, Encoded)
            BY <1>4, <2>2, Prefix
        <2>4. outbound' = outbound \o d
            BY <2>1
        <2> HIDE DEF d
        <2>5. Starts(B \o d, Frame(Encoded))
            BY <1>4, <2>3, StartsConcat
        <2>6. Len(B \o d) < Len(Frame(Encoded))
            <3>1. Len(B \o d) = HeaderWidth + j
                BY <1>4, <2>3, Concat
            <3> QED BY <1>4, <2>2, <3>1
        <2>7. part = B
            BY <1>3 DEF B
        <2> QED BY <1>1, <1>2, <1>3, <1>8, <2>3, <2>4, <2>5, <2>6, <2>7, FailedWrite
    <1> QED BY <1>1, <1>7, <1>8

(* The txpool has nothing to take when only a part of a frame has come.    *)
LEMMA NothingToTake ==
    ASSUME SendInv, NEW part \in Seq(Byte), Unfinished(part), outbound = part
    PROVE \/ Short(outbound, 0, HeaderWidth)
          \/ Short(outbound, HeaderWidth, BigEndianNumber(Field(outbound, 0, HeaderWidth)))
    <1> DEFINE B == BigEndian(Len(Encoded), HeaderWidth)
               F == Frame(Encoded)
    <1>1. CASE sender.at = "idle" /\ part = <<>>
        <2>1. Len(outbound) = 0
            BY <1>1
        <2>2. 0 < 0 + HeaderWidth
            BY Widths
        <2> QED BY <2>1, <2>2 DEF Short
    <1>2. CASE /\ sender.next <= Len(script.requests)
               /\ \/ sender.at = "data" /\ part = B
                  \/ sender.at = "failed" /\ Starts(part, F) /\ Len(part) < Len(F)
        <2>1. /\ Encoded \in Seq(Byte) /\ Len(Encoded) \in Nat \ {0}
              /\ Len(Encoded) < Power[HeaderWidth]
              /\ B \in Seq(Byte) /\ Len(B) = HeaderWidth /\ HeaderWidth \in Nat
              /\ F = B \o Encoded /\ Len(F) = HeaderWidth + Len(Encoded)
            BY <1>2, EncodedType, Widths
        <2> HIDE DEF B, F
        <2>2. Starts(B, F)
            <3>1. Starts(B, B)
                BY <2>1, LenProperties DEF Starts
            <3> QED BY <2>1, <3>1, StartsConcat
        <2>3. Len(B) < Len(F)
            BY <2>1
        <2>4. Starts(part, F) /\ Len(part) < Len(F)
            BY <1>2, <2>2, <2>3
        <2> QED BY <2>1, <2>4, PartOfFrame DEF F
    <1> QED BY <1>1, <1>2 DEF Unfinished

(* The txpool takes the first frame on its way, which holds the request    *)
(* that comes next.                                                        *)
LEMMA PeerReadsKeeps == SendInv /\ PeerReads => SendInv'
    <1> SUFFICES ASSUME SendInv, PeerReads PROVE SendInv'
        OBVIOUS
    <1> DEFINE size == BigEndianNumber(Field(outbound, 0, HeaderWidth))
               a == Len(accepted)
               k == sender.next - 1
               s == SubSeq(Sent(script), 1, k)
               r == script.requests[a + 1]
               p == Packed(r)
               R == Remaining(s, a + 1)
    <1>1. /\ ~Short(outbound, 0, HeaderWidth) /\ ~Short(outbound, HeaderWidth, size)
          /\ accepted' = Append(accepted, Unpack(Field(outbound, HeaderWidth, size)))
          /\ outbound' = SubSeq(outbound, HeaderWidth + size + 1, Len(outbound))
          /\ UNCHANGED <<script, sender>>
        BY DEF PeerReads
    <1>2. PICK part \in Seq(Byte) : Unfinished(part) /\ outbound = Pending \o part
        BY DEF SendInv
    <1>3. /\ Len(script.requests) \in Nat /\ k \in Nat /\ k <= Len(script.requests)
          /\ s \in Seq(Seq(Byte)) /\ Len(s) = k
          /\ \A i \in 1..k : s[i] = Frame(Packed(script.requests[i]))
          /\ a \in 0..k /\ a \in Nat
        BY SentBefore
    <1>4. a < k
        <2>1. ASSUME a = k PROVE FALSE
            <3>1. Pending = <<>>
                <4>1. Remaining(s, Len(s)) = <<>>
                    <5> HIDE DEF s
                    <5> QED BY <1>3, RemainingEnds
                <4> QED BY <1>3, <2>1, <4>1 DEF Pending
            <3>2. outbound = part
                <4>1. <<>> \o part = part
                    BY ConcatEmptySeq
                <4> QED BY <1>2, <3>1, <4>1
            <3> QED BY <1>1, <1>2, <3>2, NothingToTake
        <2> QED BY <1>3, <2>1
    <1>5. a + 1 \in 1..k /\ a + 1 \in 1..Len(script.requests) /\ a + 1 \in 0..k
        BY <1>3, <1>4
    <1>6. /\ script \in Scripts /\ accepted \in Seq(Unpacked)
          /\ sender \in [at : {"idle", "data", "failed"}, next : 1..(Len(script.requests) + 1)]
        BY DEF SendInv
    <1>7. r \in RequestType /\ RequestFits(r)
        BY <1>5, <1>6, RequestsType
    <1>8. /\ p \in Seq(Byte) /\ Len(p) < Power[HeaderWidth]
          /\ Unpack(p) = [tx |-> r.tx, priority |-> r.priority, extra |-> r.extra, whole |-> TRUE]
        <2> HIDE DEF r
        <2> QED BY <1>7, RequestReads
    <1>9. Pending = Frame(p) \o R /\ R \in Seq(Byte)
        <2>1. s[a + 1] = Frame(p)
            BY <1>3, <1>5
        <2>2. a < Len(s) /\ a + 1 \in 0..Len(s)
            BY <1>3, <1>4, <1>5
        <2>3. Remaining(s, a) = s[a + 1] \o R
            <3> HIDE DEF s, a
            <3> QED BY <1>3, <2>2, RemainingNext
        <2>4. R \in Seq(Byte)
            <3> HIDE DEF s, a
            <3> QED BY <1>3, <2>2, RemainingType
        <2> QED BY <2>1, <2>3, <2>4 DEF Pending
    <1>10. Frame(p) \in Seq(Byte)
        BY <1>8, FrameType
    <1> DEFINE more == R \o part
    <1>11. more \in Seq(Byte) /\ outbound = Frame(p) \o more
        <2> DEFINE F == Frame(p)
        <2>1. F \in Seq(Byte) /\ R \in Seq(Byte) /\ part \in Seq(Byte)
            BY <1>9, <1>10
        <2>2. outbound = (F \o R) \o part
            BY <1>2, <1>9
        <2> HIDE DEF F, R
        <2>3. (F \o R) \o part = F \o (R \o part)
            BY ONLY <2>1, Regroup, SMTT(20)
        <2>4. R \o part \in Seq(Byte)
            BY ONLY <2>1, Concat
        <2> QED BY <2>2, <2>3, <2>4 DEF F
    <1>12. accepted' = Append(accepted, Unpack(p)) /\ outbound' = more
        <2> HIDE DEF p, more
        <2>1. size = Len(p) /\ Field(outbound, HeaderWidth, Len(p)) = p
              /\ SubSeq(outbound, HeaderWidth + Len(p) + 1, Len(outbound)) = more
            BY <1>8, <1>11, WholeFrame
        <2> QED BY <1>1, <2>1
    <1> DEFINE u == Unpack(p)
    <1>13. u \in Unpacked
        <2>1. r.tx \in Seq(Byte) /\ r.priority \in Nat /\ r.extra \in Seq(Byte)
            <3> HIDE DEF r
            <3> QED BY <1>7, PartsFit
        <2> HIDE DEF r, p
        <2> QED BY <1>8, <2>1 DEF Unpacked
    <1> HIDE DEF u
    <1>14. /\ accepted' \in Seq(Unpacked) /\ Len(accepted') = a + 1
           /\ \A i \in 1..a : accepted'[i] = accepted[i]
           /\ accepted'[a + 1] = u
        <2>1. accepted' = Append(accepted, u)
            BY <1>12 DEF u
        <2> QED BY <1>6, <1>13, <2>1, AppendProperties
    <1>15. RequestsReadBack'
        <2>1. /\ Len(accepted) <= k
              /\ \A i \in 1..a :
                   /\ accepted[i].whole
                   /\ accepted[i].tx = script.requests[i].tx
                   /\ accepted[i].priority = script.requests[i].priority
                   /\ accepted[i].extra = script.requests[i].extra
            BY DEF SendInv, RequestsReadBack
        <2>2. /\ u.whole /\ u.tx = r.tx /\ u.priority = r.priority /\ u.extra = r.extra
            <3> HIDE DEF r, p
            <3> QED BY <1>8 DEF u
        <2>3. ASSUME NEW i \in 1..(a + 1)
              PROVE /\ accepted'[i].whole
                    /\ accepted'[i].tx = script.requests[i].tx
                    /\ accepted'[i].priority = script.requests[i].priority
                    /\ accepted'[i].extra = script.requests[i].extra
            <3>1. CASE i = a + 1
                BY <1>14, <2>2, <3>1
            <3>2. CASE i # a + 1
                <4>1. i \in 1..a
                    BY <1>3, <3>2
                <4>2. accepted'[i] = accepted[i]
                    BY <1>14, <4>1
                <4> HIDE DEF a
                <4> QED BY <2>1, <4>1, <4>2
            <3> QED BY <3>1, <3>2
        <2>4. a + 1 <= k
            BY <1>3, <1>4
        <2> HIDE DEF a, r
        <2> QED BY <1>1, <1>14, <2>3, <2>4 DEF RequestsReadBack
    <1>16. Pending' = R
        <2>1. Len(accepted') = a + 1
            BY <1>14
        <2> QED BY <1>1, <2>1 DEF Pending
    <1>17. outbound' = Pending' \o part
        BY <1>12, <1>16
    <1>18. Unfinished(part)'
        BY <1>1, <1>2 DEF Unfinished, Encoded, Request
    <1> QED BY <1>1, <1>6, <1>14, <1>15, <1>17, <1>18 DEF SendInv

(* Nothing of the reading half touches the sending half.                   *)
LEMMA SendKeeps == SendInv /\ [Next]_vars => SendInv'
    <1> SUFFICES ASSUME SendInv, [Next]_vars PROVE SendInv'
        OBVIOUS
    <1>1. ASSUME UNCHANGED <<script, sender, outbound, accepted>> PROVE SendInv'
        <2>1. PICK part \in Seq(Byte) : Unfinished(part) /\ outbound = Pending \o part
            BY DEF SendInv
        <2>2. Unfinished(part)'
            BY <1>1, <2>1 DEF Unfinished, Encoded, Request
        <2>3. Pending' = Pending
            BY <1>1 DEF Pending
        <2>4. RequestsReadBack'
            BY <1>1 DEF SendInv, RequestsReadBack
        <2> QED BY <1>1, <2>1, <2>2, <2>3, <2>4 DEF SendInv
    <1>2. CASE readEvents \/ UNCHANGED vars
        BY <1>1, <1>2 DEF readEvents, ReadEnds, ReadLength, ReadData, DecodeCount, DecodeEvent,
           Deliver, vars
    <1>3. CASE SendTxWithPriorityRLP \/ PeerReads
        BY <1>3, WriteLengthKeeps, WriteDataKeeps, PeerReadsKeeps DEF SendTxWithPriorityRLP
    <1> QED BY <1>2, <1>3 DEF Next

(* The inductive invariant of SendTxWithPriorityRLP and the txpool.        *)
THEOREM SendInvariant == Spec => []SendInv
    <1> QED BY SendInitially, SendKeeps, PTL DEF Spec

(* Whatever is requested, of a transaction that is one item of RLP and     *)
(* with any priority and extra data: the txpool unpacks exactly that, in   *)
(* order, and takes no part of a failed write for a request.               *)
THEOREM RequestsAreReadBack == Spec => []RequestsReadBack
    <1>1. SendInv => RequestsReadBack
        BY DEF SendInv
    <1> QED BY <1>1, SendInvariant, PTL

(* Of all behaviours, whatever the widths and the messages: what TypeOK    *)
(* says of their types, the decoder's offset never past the end of its     *)
(* message.                                                                *)
THEOREM TypeCorrect == Spec => []TypeOK
    <1>1. ReadInv /\ SendInv => TypeOK
        <2> SUFFICES ASSUME ReadInv, SendInv PROVE TypeOK
            OBVIOUS
        <2>1. Byte = 0..(Base - 1)
            BY DEF Byte
        <2>2. script \in Scripts /\ inbound \in Seq(Byte)
            BY DEF ReadInv
        <2>3. /\ sender.at \in {"idle", "data", "failed"}
              /\ sender.next \in 1..(Len(script.requests) + 1)
            BY DEF SendInv
        <2>4. outbound \in Seq(Byte)
            <3>1. PICK part \in Seq(Byte) : outbound = Pending \o part
                BY DEF SendInv
            <3>2. Pending \in Seq(Byte)
                BY SentBefore
            <3> QED BY <3>1, <3>2, Concat
        <2>5. /\ reader.at \in {"length", "data", "vector", "event", "ended", "panicked"}
              /\ reader.need \in Nat /\ reader.left \in Nat /\ reader.data \in Seq(Byte)
              /\ reader.offset \in 0..Len(reader.data)
            <3> DEFINE m == Current
            <3>1. ASSUME NEW r, r.data = <<>>, r.offset = 0
                  PROVE r.data \in Seq(Byte) /\ r.offset \in 0..Len(r.data)
                <4>1. Len(<<>>) = 0
                    OBVIOUS
                <4>2. r.data \in Seq(Byte)
                    BY <3>1, EmptyBytes
                <4> QED BY <3>1, <4>1, <4>2
            <3>2. CASE reader = Between
                <4>1. /\ reader.at = "length" /\ reader.need = HeaderWidth /\ reader.left = 0
                      /\ reader.data = <<>> /\ reader.offset = 0
                    BY <3>2, Readers
                <4> QED BY <3>1, <4>1, Widths
            <3>3. CASE /\ frames <= Len(script.vectors)
                       /\ reader = AtData(Len(Payload(script, frames)))
                <4>1. frames \in 0..Len(script.vectors)
                    BY <2>2, <3>3, ScriptType DEF ReadInv
                <4>2. Len(Payload(script, frames)) \in Nat
                    BY <2>2, <4>1, PayloadType, LenProperties
                <4>3. /\ reader.at = "data" /\ reader.left = 0 /\ reader.data = <<>>
                      /\ reader.need = Len(Payload(script, frames)) /\ reader.offset = 0
                    BY <3>3, Readers
                <4> QED BY <3>1, <4>2, <4>3
            <3>4. CASE frames > 1 /\ reader = AtVector(EncodeVector(m))
                <4>1. EncodeVector(m) \in Seq(Byte) /\ Len(EncodeVector(m)) \in Nat
                    BY <3>4, CurrentType, VectorData, LenProperties
                <4> QED BY <3>4, <4>1, Readers
            <3>5. CASE frames > 1 /\ \E i \in 0..Len(m.events) : DecodedUpTo(m, i)
                <4>1. m \in Vector /\ VectorFits(m)
                    BY <3>5, CurrentType
                <4>2. EncodeVector(m) \in Seq(Byte) /\ Len(m.events) \in Nat
                    BY <4>1, VectorData, EncodingsType
                <4>3. PICK i \in 0..Len(m.events) : DecodedUpTo(m, i)
                    BY <3>5
                <4>4. /\ reader.at = "event" /\ reader.need = 0 /\ reader.data = EncodeVector(m)
                      /\ reader.offset = Begin(m, i) /\ reader.left = Len(m.events) - i
                      /\ Begin(m, i) \in 0..Len(EncodeVector(m))
                    BY <4>3 DEF DecodedUpTo, Decoding
                <4>5. Len(m.events) - i \in Nat
                    BY <4>2
                <4> QED BY <4>2, <4>4, <4>5
            <3>6. CASE reader = Reading("ended") \/ reader = Reading("panicked")
                <4>1. /\ reader.at \in {"ended", "panicked"} /\ reader.left = 0
                      /\ reader.data = <<>> /\ reader.need = 0 /\ reader.offset = 0
                    BY <3>6 DEF Reading
                <4> QED BY <3>1, <4>1
            <3> QED BY <3>2, <3>3, <3>4, <3>5, <3>6 DEF ReadInv, Standing, Current
        <2> QED BY <2>1, <2>2, <2>3, <2>4, <2>5 DEF TypeOK
    <1> QED BY <1>1, ReadInvariant, SendInvariant, PTL
=============================================================================
