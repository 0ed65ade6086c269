--------------------------- MODULE Access_proofs ---------------------------
(***************************************************************************)
(* Proofs about Access and the names it is built on.                          *)
(*                                                                          *)
(* First the names: users whose names have no character from 256 on have       *)
(* Services of different names.  The escaped characters are a prefix code: a    *)
(* name can be read back from the left, character by character.                *)
(*                                                                          *)
(* Then Access, for any number of requests, users, tokens and rotations.  The    *)
(* invariant follows a request: the token, the user and the workspace it has    *)
(* got so far are the ones its headers call for.                               *)
(***************************************************************************)
EXTENDS Access, SequenceTheorems, WellFoundedInduction, TLAPS

\* The names that can be read back; "%2x" of a larger character is longer.
Character == 0..255
Readable == Seq(Character)

\* The builder after each character of the input.
Builder(input) ==
    CHOOSE sb : sb = [i \in 0..Len(input) |->
                         IF i = 0 THEN <<>> ELSE sb[i-1] \o EscapeChar(input[i])]

----------------------------------------------------------------------------
\* A set of numbers has a least one: the base of the inductions below.
LEMMA LeastNumber ==
    ASSUME NEW T, T \subseteq Nat, T # {}
    PROVE  \E m \in T : \A n \in T : m =< n
<1>. DEFINE Less == {ss \in Nat \X Nat : ss[1] < ss[2]}
<1>1. IsWellFoundedOn(Less, Nat)
  BY NatLessThanWellFounded, Zenon DEF OpToRel
<1>. HIDE DEF Less
<1>2. PICK x \in T : \A y \in T : ~ (<<y, x>> \in Less)
  BY <1>1, WFMin
<1>3. \A y \in T : ~ (y < x)
  BY <1>2 DEF Less
<1>. QED BY <1>3

LEMMA EscapismIsBuilder ==
    ASSUME NEW input
    PROVE  escapism(input) = Builder(input)[Len(input)]
BY DEF escapism, Builder

LEMMA BuilderUnfolds ==
    ASSUME NEW input \in Readable
    PROVE  /\ Builder(input) = [i \in 0..Len(input) |-> IF i = 0 THEN <<>>
                                ELSE Builder(input)[i-1] \o EscapeChar(input[i])]
<1>. DEFINE Fits(f, n) == f = [i \in 0..n |-> IF i = 0 THEN <<>>
                                              ELSE f[i-1] \o EscapeChar(input[i])]
            T == {n \in Nat : ~ \E f : Fits(f, n)}
<1>1. T = {}
  <2>. SUFFICES ASSUME T # {} PROVE FALSE
    OBVIOUS
  <2>1. PICK m \in T : \A n \in T : m =< n
    <3>1. T \subseteq Nat
      OBVIOUS
    <3>. HIDE DEF T
    <3>. QED BY <3>1, LeastNumber
  <2>2. m \in Nat /\ m # 0
    <3>1. Fits([i \in 0..0 |-> <<>>], 0)
      OBVIOUS
    <3>. QED BY <3>1
  <2>3. PICK f : Fits(f, m-1)
    <3>1. m-1 \in Nat /\ m-1 \notin T
      <4>. HIDE DEF T
      <4>. QED BY <2>1, <2>2
    <3>. HIDE DEF Fits
    <3>. QED BY <3>1
  <2>. DEFINE g == [i \in 0..m |-> IF i =< m-1 THEN f[i] ELSE f[m-1] \o EscapeChar(input[m])]
  <2>4. \A i \in 0..m : g[i] = IF i = 0 THEN <<>> ELSE g[i-1] \o EscapeChar(input[i])
    BY <2>2, <2>3
  <2>5. Fits(g, m)
    BY <2>4
  <2>. QED BY <2>1, <2>5
<1>2. \E f : Fits(f, Len(input))
  <2>1. Len(input) \in Nat
    BY DEF Readable
  <2>. QED BY <1>1, <2>1
<1>. QED BY <1>2, Zenon DEF Builder

----------------------------------------------------------------------------
(* Characters.                                                               *)

HighDigit(c) == IF c \div 16 = 0 THEN Space ELSE HexDigit(c \div 16)

\* A safe character is written as itself, any other as a dash and two digits.
LEMMA EscapeReturns ==
    ASSUME NEW c \in Character
    PROVE  LET e == EscapeChar(c)
           IN  /\ e \in Seq(Nat) /\ Len(e) \in {1, 3}
               /\ c \in safe => Len(e) = 1 /\ e[1] = c
               /\ c \notin safe => /\ Len(e) = 3 /\ e[1] = Dash
                                   /\ e[2] = HighDigit(c) /\ e[3] = HexDigit(c % 16)
<1>1. c \in Nat /\ c \div 256 = 0 /\ (c \div 16) % 16 = c \div 16
      /\ c \div 16 \in 0..15 /\ c % 16 \in 0..15
  BY DEF Character
<1>2. \A d \in 0..15 : HexDigit(d) \in Nat
  BY DEF HexDigit, Letter
<1>. DEFINE high == HighDigit(c)
            low == HexDigit(c % 16)
<1>3. Hex(c) = <<high, low>>
  BY <1>1 DEF Hex, HighDigit
<1>4. high \in Nat /\ low \in Nat
  BY <1>1, <1>2 DEF HighDigit, Space
<1>. HIDE DEF high, low
<1>5. CASE c \in safe
  <2>1. EscapeChar(c) = <<c>>
    BY <1>5 DEF EscapeChar
  <2>. QED BY <1>1, <1>5, <2>1
<1>6. CASE c \notin safe
  <2>. DEFINE p == <<Dash>>
              q == <<high, low>>
              e == p \o q
  <2>1. /\ p \in Seq(Nat) /\ Len(p) = 1 /\ p[1] = Dash
        /\ q \in Seq(Nat) /\ Len(q) = 2 /\ q[1] = high /\ q[2] = low
    BY <1>4 DEF Dash
  <2>2. EscapeChar(c) = e
    BY <1>3, <1>6 DEF EscapeChar
  <2>. HIDE DEF p, q
  <2>3. /\ e \in Seq(Nat) /\ Len(e) = Len(p) + Len(q)
        /\ \A i \in 1..Len(p) + Len(q) : e[i] = IF i <= Len(p) THEN p[i] ELSE q[i - Len(p)]
    BY <2>1, ConcatProperties
  <2>. HIDE DEF e
  <2>4. Len(e) = 3 /\ e[1] = Dash /\ e[2] = high /\ e[3] = low
    BY <2>1, <2>3
  <2>. QED BY <1>6, <2>2, <2>3, <2>4 DEF high, low
<1>. QED BY <1>5, <1>6

\* No character is written as the beginning of another one.
LEMMA PrefixCode ==
    ASSUME NEW c \in Character, NEW d \in Character, NEW s,
           \A k \in 1..Len(EscapeChar(c)) : s[k] = EscapeChar(c)[k],
           \A k \in 1..Len(EscapeChar(d)) : s[k] = EscapeChar(d)[k]
    PROVE  c = d
<1>1. ASSUME NEW x \in Character, \A k \in 1..Len(EscapeChar(x)) : s[k] = EscapeChar(x)[k]
      PROVE  /\ x \in safe => s[1] = x
             /\ x \notin safe => s[1] = Dash /\ s[2] = HighDigit(x) /\ s[3] = HexDigit(x % 16)
  <2>. DEFINE e == EscapeChar(x)
  <2>1. /\ x \in safe => Len(e) = 1 /\ e[1] = x
        /\ x \notin safe => /\ Len(e) = 3 /\ e[1] = Dash
                            /\ e[2] = HighDigit(x) /\ e[3] = HexDigit(x % 16)
    BY EscapeReturns
  <2>2. \A k \in 1..Len(e) : s[k] = e[k]
    BY <1>1
  <2>. HIDE DEF e
  <2>. QED BY <2>1, <2>2
<1>2. /\ c \in safe => s[1] = c
      /\ c \notin safe => s[1] = Dash /\ s[2] = HighDigit(c) /\ s[3] = HexDigit(c % 16)
  BY <1>1
<1>3. /\ d \in safe => s[1] = d
      /\ d \notin safe => s[1] = Dash /\ s[2] = HighDigit(d) /\ s[3] = HexDigit(d % 16)
  BY <1>1
<1>4. Dash \notin safe
  BY DEF safe, Lower, Digits, Dash
<1>5. CASE c \notin safe /\ d \notin safe
  <2>1. HighDigit(c) = HighDigit(d) /\ HexDigit(c % 16) = HexDigit(d % 16)
    BY <1>2, <1>3, <1>5
  <2>2. \A x \in 0..15, y \in 0..15 : HexDigit(x) = HexDigit(y) => x = y
    BY DEF HexDigit, Letter
  <2>3. \A x \in 0..15 : HexDigit(x) # Space
    BY DEF HexDigit, Letter, Space
  <2>4. /\ c \in Nat /\ d \in Nat /\ c \div 16 \in 0..15 /\ c % 16 \in 0..15
        /\ d \div 16 \in 0..15 /\ d % 16 \in 0..15
    BY DEF Character
  <2>5. c % 16 = d % 16
    BY <2>1, <2>2, <2>4
  <2>6. c \div 16 = d \div 16
    BY <2>1, <2>2, <2>3, <2>4 DEF HighDigit
  <2>. QED BY <2>4, <2>5, <2>6
<1>. QED BY <1>2, <1>3, <1>4, <1>5

----------------------------------------------------------------------------
(* What the builder holds.                                                   *)

LEMMA Characters ==
    ASSUME NEW u \in Readable
    PROVE  Len(u) \in Nat /\ \A i \in 1..Len(u) : u[i] \in Character
BY DEF Readable

LEMMA BuilderStep ==
    ASSUME NEW u \in Readable
    PROVE  /\ Builder(u)[0] = <<>>
           /\ \A i \in 1..Len(u) : Builder(u)[i] = Builder(u)[i-1] \o EscapeChar(u[i])
<1>. DEFINE sb == Builder(u)
<1>1. sb = [i \in 0..Len(u) |-> IF i = 0 THEN <<>> ELSE sb[i-1] \o EscapeChar(u[i])]
  BY BuilderUnfolds
<1>. HIDE DEF sb
<1>2. sb[0] = <<>>
  <2>1. 0 \in 0..Len(u)
    BY Characters
  <2>. QED BY <1>1, <2>1, Zenon
<1>3. ASSUME NEW i \in 1..Len(u) PROVE sb[i] = sb[i-1] \o EscapeChar(u[i])
  <2>1. i \in 0..Len(u) /\ i # 0
    BY Characters
  <2>. QED BY <1>1, <2>1, Zenon
<1>. QED BY <1>2, <1>3 DEF sb

LEMMA BuilderType ==
    ASSUME NEW u \in Readable
    PROVE  \A i \in 0..Len(u) : Builder(u)[i] \in Seq(Nat)
<1>. DEFINE T == {i \in 0..Len(u) : Builder(u)[i] \notin Seq(Nat)}
<1>. SUFFICES ASSUME T # {} PROVE FALSE
  OBVIOUS
<1>1. PICK m \in T : \A n \in T : m =< n
  <2>1. T \subseteq Nat
    BY Characters
  <2>. HIDE DEF T
  <2>. QED BY <2>1, LeastNumber
<1>2. m \in 0..Len(u) /\ Builder(u)[m] \notin Seq(Nat)
  OBVIOUS
<1>3. m # 0
  <2>1. <<>> \in Seq(Nat)
    OBVIOUS
  <2>. QED BY <1>2, <2>1, BuilderStep, Zenon
<1>4. m \in 1..Len(u) /\ m-1 \in 0..Len(u) /\ ~(m =< m-1)
  BY <1>2, <1>3, Characters
<1>5. Builder(u)[m-1] \in Seq(Nat)
  BY <1>1, <1>4
<1>6. EscapeChar(u[m]) \in Seq(Nat)
  BY <1>4, Characters, EscapeReturns
<1>7. Builder(u)[m] = Builder(u)[m-1] \o EscapeChar(u[m])
  BY <1>4, BuilderStep
<1>8. Builder(u)[m-1] \o EscapeChar(u[m]) \in Seq(Nat)
  BY <1>5, <1>6, ConcatProperties
<1>. QED BY <1>2, <1>7, <1>8, Zenon

\* A character appends what it is written as.
LEMMA BuilderGrows ==
    ASSUME NEW u \in Readable, NEW i \in 1..Len(u)
    PROVE  LET s == Builder(u)[i-1]
               e == EscapeChar(u[i])
               c == Builder(u)[i]
           IN  /\ s \in Seq(Nat) /\ e \in Seq(Nat) /\ c \in Seq(Nat)
               /\ Len(s) \in Nat /\ Len(e) \in {1, 3} /\ Len(c) = Len(s) + Len(e)
               /\ \A p \in 1..Len(s) : c[p] = s[p]
               /\ \A k \in 1..Len(e) : c[Len(s) + k] = e[k]
<1>. DEFINE s == Builder(u)[i-1]
            e == EscapeChar(u[i])
            c == Builder(u)[i]
<1>1. u[i] \in Character /\ i-1 \in 0..Len(u) /\ i \in 0..Len(u)
  BY Characters
<1>2. s \in Seq(Nat) /\ c \in Seq(Nat) /\ e \in Seq(Nat) /\ Len(e) \in {1, 3}
  BY <1>1, BuilderType, EscapeReturns
<1>3. c = s \o e
  BY BuilderStep
<1>. HIDE DEF s, e, c
<1>4. /\ Len(s \o e) = Len(s) + Len(e)
      /\ \A p \in 1..Len(s) + Len(e) : (s \o e)[p] = IF p <= Len(s) THEN s[p] ELSE e[p - Len(s)]
  BY <1>2, ConcatProperties
<1>5. Len(s) \in Nat
  BY <1>2
<1>6. \A p \in 1..Len(c) : c[p] = IF p <= Len(s) THEN s[p] ELSE e[p - Len(s)]
  BY <1>3, <1>4
<1>7. Len(c) = Len(s) + Len(e)
  BY <1>3, <1>4
<1>8. ASSUME NEW p \in 1..Len(s) PROVE c[p] = s[p]
  <2>1. p \in 1..Len(c) /\ p <= Len(s)
    BY <1>2, <1>5, <1>7
  <2>. QED BY <1>6, <2>1
<1>9. ASSUME NEW k \in 1..Len(e) PROVE c[Len(s) + k] = e[k]
  <2>1. Len(s) + k \in 1..Len(c) /\ ~(Len(s) + k <= Len(s)) /\ (Len(s) + k) - Len(s) = k
    BY <1>2, <1>5, <1>7
  <2>. QED BY <1>6, <2>1
<1>. QED BY <1>2, <1>5, <1>7, <1>8, <1>9 DEF s, e, c

\* The builder only ever appends.
LEMMA BuilderAppends ==
    ASSUME NEW u \in Readable, NEW i \in 0..Len(u)
    PROVE  \A j \in i..Len(u) :
              /\ Len(Builder(u)[i]) =< Len(Builder(u)[j])
              /\ \A p \in 1..Len(Builder(u)[i]) : Builder(u)[j][p] = Builder(u)[i][p]
<1>. DEFINE Extends(j) == /\ Len(Builder(u)[i]) =< Len(Builder(u)[j])
                          /\ \A p \in 1..Len(Builder(u)[i]) : Builder(u)[j][p] = Builder(u)[i][p]
            T == {j \in i..Len(u) : ~Extends(j)}
<1>. SUFFICES ASSUME T # {} PROVE FALSE
  <2>. HIDE DEF Extends
  <2>1. T = {} => \A j \in i..Len(u) : Extends(j)
    OBVIOUS
  <2>. QED BY <2>1 DEF Extends
<1>. HIDE DEF Extends
<1>1. PICK m \in T : \A n \in T : m =< n
  <2>1. T \subseteq Nat
    BY Characters
  <2>. HIDE DEF T
  <2>. QED BY <2>1, LeastNumber
<1>2. m \in i..Len(u) /\ ~Extends(m)
  OBVIOUS
<1>3. Len(Builder(u)[i]) \in Nat
  BY BuilderType
<1>4. m # i
  BY <1>2, <1>3 DEF Extends
<1>5. m \in 1..Len(u) /\ m-1 \in i..Len(u) /\ ~(m =< m-1)
  BY <1>2, <1>4, Characters
<1>6. Extends(m-1)
  BY <1>1, <1>5
<1>. DEFINE a == Builder(u)[i]
            b == Builder(u)[m-1]
            e == EscapeChar(u[m])
            c == Builder(u)[m]
<1>7. /\ Len(b) \in Nat /\ Len(e) \in {1, 3} /\ Len(c) = Len(b) + Len(e)
      /\ \A p \in 1..Len(b) : c[p] = b[p]
  BY <1>5, BuilderGrows
<1>8. Len(a) =< Len(b) /\ \A p \in 1..Len(a) : b[p] = a[p]
  BY <1>6 DEF Extends
<1>9. Extends(m) <=> Len(a) =< Len(c) /\ \A p \in 1..Len(a) : c[p] = a[p]
  BY DEF Extends
<1>. HIDE DEF a, b, c, e
<1>10. Len(a) \in Nat
  BY <1>3 DEF a
<1>11. \A p \in 1..Len(a) : p \in 1..Len(b)
  BY <1>7, <1>8, <1>10
<1>. QED BY <1>2, <1>7, <1>8, <1>9, <1>10, <1>11

\* So what is written of a character stays where it is.
LEMMA CharacterStays ==
    ASSUME NEW u \in Readable, NEW i \in 1..Len(u)
    PROVE  LET at == Len(Builder(u)[i-1])
               e == EscapeChar(u[i])
               whole == escapism(u)
           IN  /\ at \in Nat /\ Len(e) \in {1, 3} /\ at + Len(e) =< Len(whole)
               /\ \A k \in 1..Len(e) : whole[at + k] = e[k]
<1>. DEFINE s == Builder(u)[i-1]
            e == EscapeChar(u[i])
            c == Builder(u)[i]
            w == Builder(u)[Len(u)]
<1>1. /\ Len(s) \in Nat /\ Len(e) \in {1, 3} /\ Len(c) = Len(s) + Len(e)
      /\ \A k \in 1..Len(e) : c[Len(s) + k] = e[k]
  BY BuilderGrows
<1>2. Len(c) =< Len(w) /\ \A p \in 1..Len(c) : w[p] = c[p]
  <2>1. i \in 0..Len(u) /\ Len(u) \in i..Len(u)
    BY Characters
  <2>. QED BY <2>1, BuilderAppends
<1>3. escapism(u) = w
  BY EscapismIsBuilder
<1>. HIDE DEF s, e, c, w
<1>4. \A k \in 1..Len(e) : Len(s) + k \in 1..Len(c)
  BY <1>1
<1>5. /\ Len(s) \in Nat /\ Len(e) \in {1, 3} /\ Len(s) + Len(e) =< Len(w)
      /\ \A k \in 1..Len(e) : w[Len(s) + k] = e[k]
  BY <1>1, <1>2, <1>4
<1>. QED BY <1>3, <1>5 DEF s, e, w

----------------------------------------------------------------------------
(* Names can be read back.                                                   *)

\* Up to the shorter of two inputs that are written alike, they are alike.
LEMMA SameCharacters ==
    ASSUME NEW u \in Readable, NEW v \in Readable, escapism(u) = escapism(v)
    PROVE  \A i \in 0..Len(u) : i =< Len(v) =>
              /\ Builder(u)[i] = Builder(v)[i]
              /\ i > 0 => u[i] = v[i]
<1>. DEFINE Alike(i) == Builder(u)[i] = Builder(v)[i] /\ (i > 0 => u[i] = v[i])
            T == {i \in 0..Len(u) : i =< Len(v) /\ ~Alike(i)}
<1>. SUFFICES ASSUME T # {} PROVE FALSE
  <2>. HIDE DEF Alike
  <2>1. T = {} => \A i \in 0..Len(u) : i =< Len(v) => Alike(i)
    OBVIOUS
  <2>. QED BY <2>1 DEF Alike
<1>. HIDE DEF Alike
<1>1. PICK m \in T : \A n \in T : m =< n
  <2>1. T \subseteq Nat
    BY Characters
  <2>. HIDE DEF T
  <2>. QED BY <2>1, LeastNumber
<1>2. m \in 0..Len(u) /\ m =< Len(v) /\ ~Alike(m)
  OBVIOUS
<1>3. m # 0
  <2>1. ~(0 > 0)
    OBVIOUS
  <2>. QED BY <1>2, <2>1, BuilderStep DEF Alike
<1>4. /\ m \in 1..Len(u) /\ m \in 1..Len(v)
      /\ m-1 \in 0..Len(u) /\ m-1 =< Len(v) /\ ~(m =< m-1)
  BY <1>2, <1>3, Characters
<1>5. Builder(u)[m-1] = Builder(v)[m-1]
  BY <1>1, <1>4 DEF Alike
<1>. DEFINE at == Len(Builder(u)[m-1])
            w == escapism(u)
            s == [k \in 1..3 |-> w[at + k]]
<1>6. /\ Len(EscapeChar(u[m])) \in {1, 3}
      /\ \A k \in 1..Len(EscapeChar(u[m])) : w[at + k] = EscapeChar(u[m])[k]
  BY <1>4, CharacterStays
<1>7. /\ Len(EscapeChar(v[m])) \in {1, 3}
      /\ \A k \in 1..Len(EscapeChar(v[m])) : w[at + k] = EscapeChar(v[m])[k]
  BY <1>4, <1>5, CharacterStays
<1>. HIDE DEF at, w
<1>8. /\ \A k \in 1..Len(EscapeChar(u[m])) : s[k] = EscapeChar(u[m])[k]
      /\ \A k \in 1..Len(EscapeChar(v[m])) : s[k] = EscapeChar(v[m])[k]
  <2>1. \A k \in 1..3 : s[k] = w[at + k]
    OBVIOUS
  <2>. HIDE DEF s
  <2>2. \A k \in 1..Len(EscapeChar(u[m])) : k \in 1..3
    BY <1>6
  <2>3. \A k \in 1..Len(EscapeChar(v[m])) : k \in 1..3
    BY <1>7
  <2>. QED BY <1>6, <1>7, <2>1, <2>2, <2>3
<1>. HIDE DEF s
<1>9. u[m] = v[m]
  <2>1. u[m] \in Character /\ v[m] \in Character
    BY <1>4, Characters
  <2>. QED BY <1>8, <2>1, PrefixCode
<1>10. Builder(u)[m] = Builder(v)[m]
  <2>1. /\ Builder(u)[m] = Builder(u)[m-1] \o EscapeChar(u[m])
        /\ Builder(v)[m] = Builder(v)[m-1] \o EscapeChar(v[m])
    BY <1>4, BuilderStep
  <2>. QED BY <1>5, <1>9, <2>1
<1>. QED BY <1>2, <1>9, <1>10 DEF Alike

LEMMA NotLonger ==
    ASSUME NEW u \in Readable, NEW v \in Readable, escapism(u) = escapism(v)
    PROVE  Len(v) =< Len(u)
<1>. SUFFICES ASSUME ~(Len(v) =< Len(u)) PROVE FALSE
  OBVIOUS
<1>. DEFINE n == Len(u)
<1>1. n \in 0..Len(u) /\ n =< Len(v) /\ n + 1 \in 1..Len(v) /\ (n + 1) - 1 = n
  BY Characters
<1>2. Builder(u)[n] = Builder(v)[n]
  BY <1>1, SameCharacters
<1>3. /\ Len(Builder(v)[(n + 1) - 1]) \in Nat /\ Len(EscapeChar(v[n + 1])) \in {1, 3}
      /\ Len(Builder(v)[(n + 1) - 1]) + Len(EscapeChar(v[n + 1])) =< Len(escapism(v))
  BY <1>1, CharacterStays
<1>4. escapism(v) = Builder(v)[n]
  BY <1>2, EscapismIsBuilder
<1>. DEFINE a == Len(Builder(v)[n])
            l == Len(EscapeChar(v[n + 1]))
<1>5. a \in Nat /\ l \in {1, 3} /\ a + l =< a
  BY <1>1, <1>3, <1>4
<1>. HIDE DEF a, l
<1>. QED BY <1>5

\* Inputs that are written alike are equal (workspace.go:20-31).
LEMMA EscapismInjective ==
    ASSUME NEW u \in Readable, NEW v \in Readable, escapism(u) = escapism(v)
    PROVE  u = v
<1>1. Len(u) = Len(v)
  BY NotLonger, Characters
<1>2. \A i \in 1..Len(u) : u[i] = v[i]
  <2>1. \A i \in 1..Len(u) : i \in 0..Len(u) /\ i =< Len(v) /\ i > 0
    BY <1>1, Characters
  <2>. QED BY <2>1, SameCharacters
<1>. QED BY <1>1, <1>2, SeqEqual DEF Readable

\* Two users whose names have no character from 256 on have Services of different names
\* (workspace.go:20-37).
THEOREM NamesApart ==
    ASSUME NEW u \in Readable, NEW v \in Readable, userToServiceName(u) = userToServiceName(v)
    PROVE  u = v
<1>. DEFINE head == <<Letter(7), Dash>>
            tail == <<Dash, Letter(18)>>
            a == escapism(u)
            b == escapism(v)
<1>1. head \in Seq(Nat) /\ tail \in Seq(Nat)
  BY DEF Dash, Letter
<1>2. a \in Seq(Nat) /\ b \in Seq(Nat)
  <2>1. Len(u) \in 0..Len(u) /\ Len(v) \in 0..Len(v)
    BY Characters
  <2>. QED BY <2>1, BuilderType, EscapismIsBuilder
<1>3. (head \o a) \o tail = (head \o b) \o tail
  BY DEF userToServiceName
<1>. HIDE DEF head, tail, a, b
<1>4. head \o a = head \o b
  <2>1. head \o a \in Seq(Nat) /\ head \o b \in Seq(Nat)
    BY <1>1, <1>2, ConcatProperties
  <2>. QED BY <1>1, <1>3, <2>1, ConcatSimplifications
<1>5. a = b
  BY <1>1, <1>2, <1>4, ConcatSimplifications
<1>. QED BY <1>5, EscapismInjective DEF a, b

----------------------------------------------------------------------------
\* The labels after arborist has named the user, and those that need the workspace.
Named == {"load", "bearerToken", "getJSON", "store", "proxy"}
Resolved == {"store", "proxy"}

\* The token is the one that was sent, ...
Asked(h) ==
    /\ h.token = tokenFromRequest(h.sent)
    /\ h.pc = "authorize" => h.headers = h.sent /\ h.token # None

\* ... its owner has been written to the headers, ...
Vouched(h) ==
    h.pc \in Named => /\ h.id \in Users /\ h.id = OwnerOf[h.token]
                      /\ h.headers = SetUpstreamHeaders(h.sent, h.id)

\* ... the workspace is the user's, ...
Found(h) == h.pc \in Resolved => h.upstream = userToServiceName(h.id)

\* ... and the service account token is at most one rotation old when it is used.
Fresh(h, now) ==
    /\ h.pc = "getJSON" => h.bearer =< now /\ now =< h.bearer + 1
    /\ h.status # "refused"

Good(h, now) == Asked(h) /\ Vouched(h) /\ Found(h) /\ Fresh(h, now)

\* Each entry of the cache is the Service of the user it is stored for.
OwnEntries == \A u \in Users : upstreamCache[u] \in {None, userToServiceName(u)}

Inv ==
    /\ TypeOK
    /\ OwnEntries
    /\ \A r \in Requests : request[r] # None => Good(request[r], rotations)

----------------------------------------------------------------------------
(* A handler's step keeps the invariant if what it becomes is good.           *)

LEMMA StepKeeps ==
    ASSUME AccessConstants, Inv, NEW r \in Requests, NEW h \in Locals \cup {None}, Become(r, h),
           h # None => Good(h, rotations),
           inCluster' = inCluster, rotations' = rotations,
           upstreamCache' = upstreamCache
    PROVE  Inv'
<1>1. \A q \in Requests : request'[q] = IF q = r THEN h ELSE request[q]
  BY DEF Become, Inv, TypeOK
<1>2. TypeOK'
  <2>1. request' \in [Requests -> Locals \cup {None}]
    BY DEF Become, Inv, TypeOK
  <2>. QED BY <2>1, Zenon DEF Inv, TypeOK, Names
<1>3. OwnEntries'
  BY DEF Inv, OwnEntries
<1>4. ASSUME NEW q \in Requests, request'[q] # None
      PROVE  Good(request[q], rotations)'
  <2>. PICK g : g = request'[q]
    OBVIOUS
  <2>1. Good(g, rotations)
    BY <1>1, <1>4 DEF Inv
  <2>. QED BY <2>1, Zenon DEF Good, Asked, Vouched, Found, Fresh
<1>. QED BY <1>2, <1>3, <1>4 DEF Inv

\* The same for a step that changes the user's entry of the cache.
LEMMA StoreKeeps ==
    ASSUME AccessConstants, Inv, NEW r \in Requests, NEW h \in Locals \cup {None}, Become(r, h),
           h # None => Good(h, rotations),
           inCluster' = inCluster, rotations' = rotations,
           NEW user \in Users, NEW name \in {None, userToServiceName(user)}, Stored(user, name)
    PROVE  Inv'
<1>1. \A q \in Requests : request'[q] = IF q = r THEN h ELSE request[q]
  BY DEF Become, Inv, TypeOK
<1>2. upstreamCache' \in [Users -> Names \cup {None}] /\ OwnEntries'
  BY DEF Stored, Inv, TypeOK, OwnEntries, Names
<1>3. TypeOK'
  <2>1. request' \in [Requests -> Locals \cup {None}]
    BY DEF Become, Inv, TypeOK
  <2>. QED BY <1>2, <2>1, Zenon DEF Inv, TypeOK, Names
<1>4. ASSUME NEW q \in Requests, request'[q] # None
      PROVE  Good(request[q], rotations)'
  <2>. PICK g : g = request'[q]
    OBVIOUS
  <2>1. Good(g, rotations)
    BY <1>1, <1>4 DEF Inv
  <2>. QED BY <2>1, Zenon DEF Good, Asked, Vouched, Found, Fresh
<1>. QED BY <1>2, <1>3, <1>4 DEF Inv

\* What a handler at a label is known to be.
LEMMA AtLabel ==
    ASSUME AccessConstants, Inv, NEW r \in Requests, NEW label, At(r, label)
    PROVE  /\ request[r] \in Locals /\ Good(request[r], rotations)
           /\ request[r].pc = label
BY DEF Inv, TypeOK, At

----------------------------------------------------------------------------
(* One lemma per action.                                                     *)

LEMMA TokenIsToken ==
    ASSUME AccessConstants, NEW headers \in Headers
    PROVE  tokenFromRequest(headers) \in Tokens \cup {None}
BY DEF tokenFromRequest, Headers

LEMMA Replies ==
    ASSUME NEW h \in Locals, NEW status \in Statuses
    PROVE  Reply(h, status) \in Locals
BY DEF Reply, Locals, Labels

LEMMA StartInv ==
    ASSUME AccessConstants, Inv, NEW r \in Requests, NEW headers \in Arrivals, Start(r, headers)
    PROVE  Inv'
<1>. DEFINE token == tokenFromRequest(headers)
            fresh == [pc |-> "authorize", headers |-> headers, token |-> token, id |-> None,
                      bearer |-> 0, upstream |-> None, status |-> "none", sent |-> headers]
            h == IF token = None THEN Reply(fresh, "unauthorized") ELSE fresh
<1>1. headers \in Headers /\ token \in Tokens \cup {None}
  BY TokenIsToken DEF AccessConstants
<1>. HIDE DEF token
<1>2. fresh \in Locals
  BY <1>1 DEF Locals, Labels, Statuses, AccessConstants
<1>3. Reply(fresh, "unauthorized") \in Locals
  <2>. HIDE DEF fresh
  <2>. QED BY <1>2, Replies DEF Statuses
<1>4. Good(h, rotations)
  <2>1. token = tokenFromRequest(headers)
    BY DEF token
  <2>. QED BY <2>1 DEF Good, Asked, Vouched, Found, Fresh, Reply, Named, Resolved
<1>5. h \in Locals
  BY <1>2, <1>3
<1>6. Become(r, h) /\ UNCHANGED <<inCluster, upstreamCache, rotations>>
  BY DEF Start, token
<1>. HIDE DEF h
<1>. QED BY <1>4, <1>5, <1>6, StepKeeps

LEMMA AuthorizeInv ==
    ASSUME AccessConstants, Inv, NEW r \in Requests, authorize(r)
    PROVE  Inv'
<1>. PICK h : h = request[r]
  OBVIOUS
<1>1. h \in Locals /\ Good(h, rotations) /\ h.pc = "authorize"
  BY AtLabel DEF authorize
<1>. DEFINE user == OwnerOf[h.token]
            allowed == [h EXCEPT !.pc = "load", !.id = user,
                                 !.headers = SetUpstreamHeaders(h.headers, user)]
<1>2. ASSUME user # None
      PROVE  allowed \in Locals /\ Good(allowed, rotations)
  <2>1. h.token \in Tokens /\ user \in Users
    BY <1>1, <1>2 DEF Good, Asked, Locals, AccessConstants
  <2>2. SetUpstreamHeaders(h.headers, user) \in Headers
    BY <1>1, <2>1 DEF Locals, Headers, SetUpstreamHeaders, StripCredentials
  <2>. HIDE DEF user
  <2>3. allowed \in Locals
    BY <1>1, <2>1, <2>2 DEF Locals, Labels
  <2>4. /\ allowed.pc = "load" /\ allowed.id = user /\ allowed.token = h.token
        /\ allowed.headers = SetUpstreamHeaders(h.headers, user)
        /\ allowed.sent = h.sent /\ allowed.status = h.status
    BY <1>1 DEF Locals
  <2>. HIDE DEF allowed
  <2>5. user = OwnerOf[h.token]
    BY DEF user
  <2>6. /\ h.token = tokenFromRequest(h.sent) /\ h.headers = h.sent /\ h.status # "refused"
    BY <1>1 DEF Good, Asked, Fresh
  <2>. QED BY <2>1, <2>3, <2>4, <2>5, <2>6 DEF Good, Asked, Vouched, Found, Fresh, Named, Resolved
<1>3. Reply(h, "forbidden") \in Locals /\ Good(Reply(h, "forbidden"), rotations)
  BY <1>1 DEF Locals, Labels, Statuses, Reply, Good, Asked, Vouched, Found, Fresh, Named, Resolved
<1>4. /\ \/ user # None /\ Become(r, allowed)
         \/ Become(r, Reply(h, "forbidden"))
      /\ UNCHANGED <<inCluster, upstreamCache, rotations>>
  BY DEF authorize
<1>. HIDE DEF user, allowed
<1>5. CASE user # None /\ Become(r, allowed)
  BY <1>2, <1>4, <1>5, StepKeeps
<1>6. CASE Become(r, Reply(h, "forbidden"))
  BY <1>3, <1>4, <1>6, StepKeeps
<1>. QED BY <1>4, <1>5, <1>6

LEMMA LoadInv ==
    ASSUME AccessConstants, Inv, NEW r \in Requests, Load(r)
    PROVE  Inv'
<1>. PICK h : h = request[r]
  OBVIOUS
<1>1. h \in Locals /\ Good(h, rotations) /\ h.pc = "load"
  BY AtLabel DEF Load
<1>. DEFINE name == userToServiceName(h.id)
            cached == upstreamCache[h.id]
            Next1(l, u) == Goto([h EXCEPT !.upstream = u], l)
<1>2. /\ h.id \in Users /\ h.id = OwnerOf[h.token] /\ h.token = tokenFromRequest(h.sent)
      /\ h.headers = SetUpstreamHeaders(h.sent, h.id) /\ h.status # "refused"
  BY <1>1 DEF Good, Asked, Vouched, Fresh, Named
<1>3. name \in Names /\ cached \in {None, name}
  BY <1>2 DEF Names, Inv, OwnEntries
<1>. HIDE DEF name, cached
<1>4. ASSUME NEW l \in Resolved
      PROVE  Next1(l, name) \in Locals /\ Good(Next1(l, name), rotations)
  <2>1. Next1(l, name) \in Locals
    BY <1>1, <1>3 DEF Locals, Labels, Goto, Resolved
  <2>2. /\ Next1(l, name).pc = l /\ Next1(l, name).id = h.id
        /\ Next1(l, name).upstream = name /\ Next1(l, name).token = h.token
        /\ Next1(l, name).headers = h.headers /\ Next1(l, name).sent = h.sent
        /\ Next1(l, name).status = h.status
    BY <1>1 DEF Locals, Goto
  <2>. HIDE DEF Next1
  <2>3. name = userToServiceName(h.id)
    BY DEF name
  <2>. QED BY <1>2, <2>1, <2>2, <2>3 DEF Good, Asked, Vouched, Found, Fresh, Resolved
<1>5. Goto(h, "bearerToken") \in Locals /\ Good(Goto(h, "bearerToken"), rotations)
  BY <1>1, <1>2 DEF Locals, Labels, Goto, Good, Asked, Vouched, Found, Fresh, Resolved
<1>6. Reply(h, "failed") \in Locals /\ Good(Reply(h, "failed"), rotations)
  BY <1>1, <1>2 DEF Locals, Labels, Statuses, Reply, Good, Asked, Vouched, Found, Fresh, Named, Resolved
<1>7. /\ \/ cached # None /\ Become(r, Next1("proxy", cached))
         \/ Become(r, Next1("store", name))
         \/ Become(r, Goto(h, "bearerToken"))
         \/ Become(r, Reply(h, "failed"))
      /\ UNCHANGED <<inCluster, upstreamCache, rotations>>
  BY Zenon DEF Load, name, cached
<1>. HIDE DEF Next1
<1>8. CASE cached # None /\ Become(r, Next1("proxy", cached))
  <2>1. cached = name
    BY <1>3, <1>8
  <2>. QED BY <1>4, <1>7, <1>8, <2>1, StepKeeps DEF Resolved
<1>9. CASE Become(r, Next1("store", name))
  BY <1>4, <1>7, <1>9, StepKeeps DEF Resolved
<1>10. CASE Become(r, Goto(h, "bearerToken"))
  BY <1>5, <1>7, <1>10, StepKeeps
<1>11. CASE Become(r, Reply(h, "failed"))
  BY <1>6, <1>7, <1>11, StepKeeps
<1>. QED BY <1>7, <1>8, <1>9, <1>10, <1>11

LEMMA BearerTokenInv ==
    ASSUME AccessConstants, Inv, NEW r \in Requests, bearerToken(r)
    PROVE  Inv'
<1>. PICK h : h = request[r]
  OBVIOUS
<1>1. h \in Locals /\ Good(h, rotations) /\ h.pc = "bearerToken"
  BY AtLabel DEF bearerToken
<1>. DEFINE g == Goto([h EXCEPT !.bearer = rotations], "getJSON")
<1>2. rotations \in 0..MaxRotations /\ MaxRotations \in Nat
  BY DEF Inv, TypeOK, AccessConstants
<1>3. g \in Locals
  BY <1>1, <1>2 DEF Locals, Labels, Goto
<1>4. Good(g, rotations)
  <2>1. /\ g.pc = "getJSON" /\ g.id = h.id /\ g.bearer = rotations /\ g.token = h.token
        /\ g.headers = h.headers /\ g.sent = h.sent /\ g.status = h.status
    BY <1>1 DEF Locals, Goto
  <2>. HIDE DEF g
  <2>. QED BY <1>1, <1>2, <2>1 DEF Good, Asked, Vouched, Found, Fresh, Named, Resolved
<1>5. Reply(h, "failed") \in Locals /\ Good(Reply(h, "failed"), rotations)
  BY <1>1 DEF Locals, Labels, Statuses, Reply, Good, Asked, Vouched, Found, Fresh, Named, Resolved
<1>6. /\ Become(r, g) \/ Become(r, Reply(h, "failed"))
      /\ UNCHANGED <<inCluster, upstreamCache, rotations>>
  BY DEF bearerToken
<1>. HIDE DEF g
<1>. QED BY <1>3, <1>4, <1>5, <1>6, StepKeeps

LEMMA GetJSONInv ==
    ASSUME AccessConstants, Inv, NEW r \in Requests, getJSON(r)
    PROVE  Inv'
<1>. PICK h : h = request[r]
  OBVIOUS
<1>1. h \in Locals /\ Good(h, rotations) /\ h.pc = "getJSON"
  BY AtLabel DEF getJSON
<1>. DEFINE name == userToServiceName(h.id)
            g == Goto([h EXCEPT !.upstream = name], "store")
<1>2. /\ h.id \in Users /\ h.id = OwnerOf[h.token] /\ h.token = tokenFromRequest(h.sent)
      /\ h.headers = SetUpstreamHeaders(h.sent, h.id) /\ h.status # "refused"
  BY <1>1 DEF Good, Asked, Vouched, Fresh, Named
<1>3. name \in Names
  BY <1>2 DEF Names
<1>4. ~Expired(h.bearer)
  <2>1. h.bearer \in Nat /\ rotations \in Nat /\ rotations =< h.bearer + 1
    BY <1>1 DEF Good, Fresh, Locals, Inv, TypeOK
  <2>. QED BY <2>1 DEF Expired
<1>5. g \in Locals
  <2>. HIDE DEF name
  <2>. QED BY <1>1, <1>3 DEF Locals, Labels, Goto
<1>6. Good(g, rotations)
  <2>1. /\ g.pc = "store" /\ g.id = h.id /\ g.upstream = name /\ g.token = h.token
        /\ g.headers = h.headers /\ g.sent = h.sent /\ g.status = h.status
    <3>. HIDE DEF name
    <3>. QED BY <1>1 DEF Locals, Goto
  <2>. HIDE DEF g
  <2>. QED BY <1>2, <2>1 DEF Good, Asked, Vouched, Found, Fresh, Resolved
<1>7. Reply(h, "failed") \in Locals /\ Good(Reply(h, "failed"), rotations)
  BY <1>1 DEF Locals, Labels, Statuses, Reply, Good, Asked, Vouched, Found, Fresh, Named, Resolved
<1>8. /\ Become(r, g) \/ Become(r, Reply(h, "failed"))
      /\ UNCHANGED <<inCluster, upstreamCache, rotations>>
  BY <1>4 DEF getJSON
<1>. HIDE DEF g
<1>. QED BY <1>5, <1>6, <1>7, <1>8, StepKeeps

LEMMA StoreInv ==
    ASSUME AccessConstants, Inv, NEW r \in Requests, Store(r)
    PROVE  Inv'
<1>. PICK h : h = request[r]
  OBVIOUS
<1>1. h \in Locals /\ Good(h, rotations) /\ h.pc = "store"
  BY AtLabel DEF Store
<1>2. h.id \in Users /\ h.upstream = userToServiceName(h.id)
  BY <1>1 DEF Good, Vouched, Found, Named, Resolved
<1>3. Goto(h, "proxy") \in Locals /\ Good(Goto(h, "proxy"), rotations)
  BY <1>1 DEF Locals, Labels, Goto, Good, Asked, Vouched, Found, Fresh, Named, Resolved
<1>4. /\ Stored(h.id, userToServiceName(h.id)) /\ Become(r, Goto(h, "proxy"))
      /\ UNCHANGED <<inCluster, rotations>>
  BY <1>2, Zenon DEF Store
<1>. QED BY <1>2, <1>3, <1>4, StoreKeeps

LEMMA ProxyHandlerInv ==
    ASSUME AccessConstants, Inv, NEW r \in Requests, ProxyHandler(r)
    PROVE  Inv'
<1>. PICK h : h = request[r]
  OBVIOUS
<1>1. h \in Locals /\ Good(h, rotations) /\ h.pc = "proxy"
  BY AtLabel DEF ProxyHandler
<1>2. h.id \in Users
  BY <1>1 DEF Good, Vouched, Named
<1>3. ASSUME NEW status \in {"ok", "failed"}
      PROVE  Reply(h, status) \in Locals /\ Good(Reply(h, status), rotations)
  BY <1>1 DEF Locals, Labels, Statuses, Reply, Good, Asked, Vouched, Found, Fresh, Named, Resolved
<1>4. /\ \/ Become(r, Reply(h, "ok")) /\ UNCHANGED upstreamCache
         \/ Become(r, Reply(h, "failed")) /\ Stored(h.id, None)
      /\ UNCHANGED <<inCluster, rotations>>
  BY Zenon DEF ProxyHandler
<1>5. CASE Become(r, Reply(h, "ok")) /\ UNCHANGED upstreamCache
  BY <1>3, <1>4, <1>5, StepKeeps
<1>6. CASE Become(r, Reply(h, "failed")) /\ Stored(h.id, None)
  BY <1>2, <1>3, <1>4, <1>6, StoreKeeps
<1>. QED BY <1>4, <1>5, <1>6

LEMMA FinishInv ==
    ASSUME AccessConstants, Inv, NEW r \in Requests, Finish(r)
    PROVE  Inv'
BY StepKeeps DEF Finish

\* The cache loses an entry; no request changes.
LEMMA ExpireInv ==
    ASSUME AccessConstants, Inv, NEW user \in Users, Expire(user)
    PROVE  Inv'
<1>1. upstreamCache' \in [Users -> Names \cup {None}] /\ OwnEntries'
  BY DEF Expire, Stored, Inv, TypeOK, OwnEntries
<1>2. TypeOK'
  BY <1>1, Zenon DEF Expire, Inv, TypeOK, Names
<1>3. ASSUME NEW q \in Requests, request'[q] # None
      PROVE  Good(request[q], rotations)'
  <2>1. request'[q] = request[q] /\ rotations' = rotations
    BY DEF Expire
  <2>2. Good(request[q], rotations)
    BY <1>3, <2>1 DEF Inv
  <2>. QED BY <2>1, <2>2 DEF Good, Asked, Vouched, Found, Fresh
<1>. QED BY <1>1, <1>2, <1>3 DEF Inv

\* No token in use is older than the rotation before: another one would be too late.
LEMMA RotateInv ==
    ASSUME AccessConstants, Inv, Rotate
    PROVE  Inv'
<1>1. rotations \in Nat /\ rotations' = rotations + 1 /\ rotations' =< MaxRotations
  BY DEF Rotate, Inv, TypeOK, AccessConstants
<1>2. TypeOK'
  <2>1. rotations' \in 0..MaxRotations
    BY <1>1 DEF AccessConstants
  <2>. QED BY <2>1, Zenon DEF Rotate, Inv, TypeOK, Names
<1>3. OwnEntries'
  BY DEF Rotate, Inv, OwnEntries
<1>4. ASSUME NEW q \in Requests, request'[q] # None
      PROVE  Good(request[q], rotations)'
  <2>. PICK h : h = request[q]
    OBVIOUS
  <2>1. request'[q] = h /\ h # None
    BY <1>4 DEF Rotate
  <2>2. h \in Locals /\ Good(h, rotations)
    BY <2>1 DEF Inv, TypeOK
  <2>3. h.pc = "getJSON" => ~(h.bearer < rotations)
    BY <2>1 DEF Rotate, At
  <2>4. h.bearer \in Nat
    BY <2>2 DEF Locals
  <2>5. Fresh(h, rotations')
    BY <1>1, <2>2, <2>3, <2>4 DEF Good, Fresh
  <2>6. Good(h, rotations')
    BY <2>2, <2>5 DEF Good
  <2>. QED BY <2>1, <2>6 DEF Good, Asked, Vouched, Found, Fresh
<1>. QED BY <1>2, <1>3, <1>4 DEF Inv

----------------------------------------------------------------------------
LEMMA InitInv == AccessConstants /\ Init => Inv
<1>. SUFFICES ASSUME AccessConstants, Init PROVE Inv
  OBVIOUS
<1>1. /\ upstreamCache \in [Users -> Names \cup {None}]
      /\ rotations \in 0..MaxRotations
      /\ request \in [Requests -> Locals \cup {None}]
  BY DEF Init, AccessConstants
<1>2. TypeOK
  BY <1>1, Zenon DEF Init, TypeOK
<1>. QED BY <1>2 DEF Init, Inv, OwnEntries

LEMMA NextInv ==
    ASSUME AccessConstants, Inv, [Next]_vars
    PROVE  Inv'
<1>1. ASSUME NEW r \in Requests, Decide(r)
      PROVE  Inv'
  BY <1>1, AuthorizeInv, LoadInv, BearerTokenInv, GetJSONInv, StoreInv DEF Decide
<1>2. CASE UNCHANGED vars
  <2>1. TypeOK' /\ OwnEntries'
    BY <1>2, Zenon DEF vars, Inv, TypeOK, OwnEntries, Names
  <2>2. ASSUME NEW q \in Requests, request'[q] # None
        PROVE  Good(request[q], rotations)'
    BY <1>2, <2>2 DEF vars, Inv, Good, Asked, Vouched, Found, Fresh
  <2>. QED BY <2>1, <2>2 DEF Inv
<1>. QED BY <1>1, <1>2, ProxyHandlerInv, FinishInv, StartInv, ExpireInv, RotateInv DEF Next

\* The invariant above holds in every state.
THEOREM InvAlways == Spec => []Inv
<1>1. Init => Inv
  BY AccessConstants, InitInv
<1>2. Inv /\ [Next]_vars => Inv'
  BY AccessConstants, NextInv
<1>. QED BY <1>1, <1>2, PTL DEF Spec

\* The types hold in every state.
THEOREM TypeCorrect == Spec => []TypeOK
<1>1. Inv => TypeOK
  BY DEF Inv
<1>. QED BY <1>1, InvAlways, PTL

\* The headers a workspace receives name the user arborist vouched for and carry no access
\* token, however many tokens the client sent and whatever user it named (identity.go:69-114).
THEOREM HeadersVouchedForHolds == Spec => []HeadersVouchedFor
<1>1. Inv => HeadersVouchedFor
  <2>. SUFFICES ASSUME Inv, NEW r \in Requests, At(r, "proxy")
                PROVE  LET h == request[r]
                       IN  /\ h.headers.remote = h.id
                           /\ h.id = OwnerOf[tokenFromRequest(h.sent)]
                           /\ tokenFromRequest(h.headers) = None
                           /\ h.sent.auth \notin Tokens => h.headers.auth = h.sent.auth
    BY DEF HeadersVouchedFor
  <2>. PICK h : h = request[r]
    OBVIOUS
  <2>1. h \in Locals /\ Good(h, rotations) /\ h.pc = "proxy"
    BY AccessConstants, AtLabel
  <2>2. /\ h.sent \in Headers /\ h.id = OwnerOf[tokenFromRequest(h.sent)]
        /\ h.headers = SetUpstreamHeaders(h.sent, h.id)
    BY <2>1 DEF Good, Asked, Vouched, Named, Locals
  <2>3. /\ h.headers.remote = h.id /\ h.headers.cookie = None
        /\ h.headers.auth = IF h.sent.auth \in Tokens THEN None ELSE h.sent.auth
    BY <2>2 DEF SetUpstreamHeaders, StripCredentials, Headers
  <2>4. tokenFromRequest(h.headers) = None
    BY <2>3 DEF tokenFromRequest
  <2>. QED BY <2>2, <2>3, <2>4
<1>. QED BY <1>1, InvAlways, PTL

\* Kubernetes never refuses a call for an expired token, however often it is rotated
\* (kubernetes.go:36-39).
THEOREM RotationPickedUpHolds == Spec => []RotationPickedUp
<1>1. Inv => RotationPickedUp
  BY DEF Inv, Good, Fresh, RotationPickedUp, At
<1>. QED BY <1>1, InvAlways, PTL

\* A request goes to the workspace of its user and of nobody else, if the names of users have
\* no character from 256 on (workspace.go:20-37, 53-73).
THEOREM OwnWorkspaceHolds ==
    ASSUME Users \subseteq Readable
    PROVE  Spec => []OwnWorkspace
<1>1. Inv => OwnWorkspace
  <2>. SUFFICES ASSUME Inv, NEW r \in Requests, At(r, "proxy")
                PROVE  {u \in Users : userToServiceName(u) = request[r].upstream}
                          = {request[r].id}
    BY DEF OwnWorkspace
  <2>. PICK h : h = request[r]
    OBVIOUS
  <2>1. h \in Locals /\ Good(h, rotations) /\ h.pc = "proxy"
    BY AccessConstants, AtLabel
  <2>2. h.id \in Users /\ h.upstream = userToServiceName(h.id)
    BY <2>1 DEF Good, Vouched, Found, Named, Resolved
  <2>3. \A u \in Users : userToServiceName(u) = userToServiceName(h.id) => u = h.id
    BY <2>2, NamesApart
  <2>. QED BY <2>2, <2>3
<1>. QED BY <1>1, InvAlways, PTL
=============================================================================
