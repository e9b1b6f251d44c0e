------------------------- MODULE ConnectingProofs -------------------------
(***************************************************************************)
(* What the remote peer knows of our pieces, whatever the numbers of       *)
(* pieces, threads and bytes (peer_network.py 241-329, 391-403, 497-500,   *)
(* 552-616, state.py 11-58, protocol.py, connection.py): the framer reads  *)
(* the messages that were sent, one after the other, and the bitfields     *)
(* and HAVEs among them tell the truth.                                    *)
(*                                                                         *)
(* The numbers and bits of the messages are recursive functions.  That     *)
(* they exist, and what they compute, is shown from the well-foundedness   *)
(* of <, by minimal counterexamples.                                       *)
(***************************************************************************)
EXTENDS Connecting, SequenceTheorems, WellFoundedInduction, TLAPS

-----------------------------------------------------------------------------
(* Recursive functions over the natural numbers. *)

\* Every set of naturals that is closed under successors is all of them.
LEMMA NatClosed ==
    ASSUME NEW T, 0 \in T, \A n \in Nat : n \in T => n + 1 \in T
    PROVE  \A n \in Nat : n \in T
<1> DEFINE S == Nat \ T
<1> SUFFICES ASSUME S # {} PROVE FALSE
  OBVIOUS
<1>1. \E x \in S : \A y \in S : ~(y < x)
  <2> DEFINE R == OpToRel(<, Nat)
  <2>1. IsWellFoundedOn(R, Nat)
    BY NatLessThanWellFounded
  <2>2. \A x, y \in Nat : y < x => <<y, x>> \in R
    BY DEF OpToRel
  <2> HIDE DEF R
  <2>3. S \subseteq Nat
    OBVIOUS
  <2>4. \E x \in S : \A y \in S : ~(<<y, x>> \in R)
    <3> HIDE DEF S
    <3> QED
      BY <2>1, <2>3, WFMin
  <2> QED
    BY <2>2, <2>4
<1>2. PICK x \in S : \A y \in S : ~(y < x)
  BY <1>1
<1>3. x - 1 \in Nat /\ x - 1 \notin S
  BY <1>2
<1> QED
  BY <1>2, <1>3

\* f begins with first and goes on with the table step.
Iterates(S, f, first, step) ==
    f \in [Nat -> S] /\ f[0] = first /\ \A k \in Nat : f[k + 1] = step[<<f[k], k + 1>>]

Table(S, step) == step \in [S \X Nat -> S]

\* A function that is determined from one argument to the next exists.
LEMMA StepsExist ==
    ASSUME NEW S, NEW first \in S, NEW step, Table(S, step)
    PROVE  \E f : Iterates(S, f, first, step)
<1> USE DEF Table
<1> DEFINE Part(n) == { g \in [0 .. n -> S] :
                g[0] = first /\ \A k \in 0 .. n - 1 : g[k + 1] = step[<<g[k], k + 1>>] }
           T == { n \in Nat : Part(n) # {} }
           U == { k \in Nat : \A m, n \in Nat : k <= m /\ k <= n =>
                      \A g \in Part(m), h \in Part(n) : g[k] = h[k] }
<1>1. \A n \in Nat : n \in T
  <2>1. 0 \in T
    <3>1. [k \in 0 .. 0 |-> first] \in Part(0)
      OBVIOUS
    <3> QED
      BY <3>1
  <2>2. ASSUME NEW n \in Nat, n \in T
        PROVE  n + 1 \in T
    <3>1. PICK g \in Part(n) : TRUE
      BY <2>2
    <3>2. g[n] \in S /\ <<g[n], n + 1>> \in S \X Nat
      OBVIOUS
    <3> DEFINE h == [k \in 0 .. n + 1 |-> IF k = n + 1 THEN step[<<g[n], n + 1>>] ELSE g[k]]
    <3>3. h \in [0 .. n + 1 -> S]
      BY <3>2
    <3>4. h[0] = first
      OBVIOUS
    <3>5. ASSUME NEW k \in 0 .. n
          PROVE  h[k + 1] = step[<<h[k], k + 1>>]
      <4>1. CASE k = n
        <5>1. h[k] = g[n] /\ h[k + 1] = step[<<g[n], n + 1>>]
          BY <4>1
        <5> HIDE DEF h
        <5> QED
          BY <4>1, <5>1
      <4>2. CASE k # n
        <5>1. k \in 0 .. n - 1
          BY <4>2
        <5> QED
          BY <5>1
      <4> QED
        BY <4>1, <4>2
    <3>6. h \in Part(n + 1)
      <4> HIDE DEF h
      <4>1. 0 .. (n + 1) - 1 = 0 .. n
        OBVIOUS
      <4> QED
        BY <3>3, <3>4, <3>5, <4>1
    <3> HIDE DEF h, Part
    <3> QED
      BY <3>6
  <2> HIDE DEF T
  <2> QED
    BY <2>1, <2>2, NatClosed
<1>2. \A k \in Nat : k \in U
  <2>1. 0 \in U
    OBVIOUS
  <2>2. ASSUME NEW k \in Nat, k \in U
        PROVE  k + 1 \in U
    <3>1. ASSUME NEW m \in Nat, NEW n \in Nat, k + 1 <= m, k + 1 <= n,
                 NEW g \in Part(m), NEW h \in Part(n)
          PROVE  g[k + 1] = h[k + 1]
      <4>1. g[k] = h[k]
        <5> HIDE DEF Part
        <5> QED
          BY <2>2, <3>1
      <4>2. k \in 0 .. m - 1 /\ k \in 0 .. n - 1
        BY <3>1
      <4> QED
        BY <4>1, <4>2
    <3> HIDE DEF Part
    <3> QED
      BY <3>1
  <2> HIDE DEF U
  <2> QED
    BY <2>1, <2>2, NatClosed
<1> DEFINE G(n) == CHOOSE g \in Part(n) : TRUE
           f == [n \in Nat |-> G(n)[n]]
<1>3. \A n \in Nat : G(n) \in Part(n)
  <2> HIDE DEF Part
  <2> QED
    BY <1>1
<1>4. \A n \in Nat : f[n] = G(n)[n]
  OBVIOUS
<1>5. ASSUME NEW n \in Nat
      PROVE  f[n] \in S
  <2> HIDE DEF G, f
  <2> QED
    BY <1>3, <1>4
<1>6. f[0] = first
  <2> HIDE DEF G, f
  <2> QED
    BY <1>3, <1>4
<1>7. ASSUME NEW k \in Nat
      PROVE  f[k + 1] = step[<<f[k], k + 1>>]
  <2> HIDE DEF G, f
  <2>1. G(k + 1) \in Part(k + 1) /\ G(k) \in Part(k)
    BY <1>3
  <2>2. G(k + 1)[k + 1] = step[<<G(k + 1)[k], k + 1>>]
    BY <2>1
  <2>3. G(k + 1)[k] = G(k)[k]
    <3> HIDE DEF Part
    <3> QED
      BY <2>1, <1>2
  <2> QED
    BY <1>4, <2>2, <2>3
<1>8. f \in [Nat -> S]
  BY <1>5
<1> HIDE DEF f
<1> QED
  BY <1>6, <1>7, <1>8 DEF Iterates

\* The powers of b.
LEMMA PowersExist ==
    ASSUME NEW b \in Nat \ {0}
    PROVE  \E f : f = [k \in Nat |-> IF k = 0 THEN 1 ELSE b * f[k - 1]]
<1> DEFINE step == [s \in Nat \X Nat |-> b * s[1]]
<1>1. Table(Nat, step) /\ 1 \in Nat
  BY DEF Table
<1>2. PICK f : Iterates(Nat, f, 1, step)
  <2> HIDE DEF step
  <2> QED
    BY <1>1, StepsExist, Zenon
<1>3. f \in [Nat -> Nat] /\ f[0] = 1 /\ \A k \in Nat : f[k + 1] = b * f[k]
  <2>1. f \in [Nat -> Nat] /\ f[0] = 1 /\ \A k \in Nat : f[k + 1] = step[<<f[k], k + 1>>]
    <3> HIDE DEF step
    <3> QED
      BY <1>2 DEF Iterates
  <2>2. \A k \in Nat : step[<<f[k], k + 1>>] = b * f[k]
    BY <2>1
  <2> HIDE DEF step
  <2> QED
    BY <2>1, <2>2
<1>4. \A k \in Nat : f[k] = IF k = 0 THEN 1 ELSE b * f[k - 1]
  <2>1. \A k \in Nat \ {0} : k - 1 \in Nat /\ (k - 1) + 1 = k
    OBVIOUS
  <2> QED
    BY <1>3, <2>1
<1> QED
  BY <1>3, <1>4

\* The powers of b, as the function computes them.
LEMMA PowersFacts ==
    ASSUME NEW b \in Nat \ {0}, NEW f, f = [k \in Nat |-> IF k = 0 THEN 1 ELSE b * f[k - 1]]
    PROVE  /\ f[0] = 1
           /\ \A k \in Nat : f[k + 1] = b * f[k] /\ f[k] \in Nat \ {0}
<1> DEFINE g == [k \in Nat |-> IF k = 0 THEN 1 ELSE b * f[k - 1]]
<1>1. g[0] = 1 /\ \A k \in Nat : g[k + 1] = b * f[k]
  OBVIOUS
<1>2. f = g
  OBVIOUS
<1>3. f[0] = 1 /\ \A k \in Nat : f[k + 1] = b * f[k]
  <2> HIDE DEF g
  <2> QED
    BY <1>1, <1>2
<1> HIDE DEF g
<1> DEFINE T == { k \in Nat : f[k] \in Nat \ {0} }
<1>4. \A k \in Nat : k \in T
  <2>1. 0 \in T
    BY <1>3
  <2>2. ASSUME NEW k \in Nat, k \in T
        PROVE  k + 1 \in T
    BY <1>3, <2>2
  <2> HIDE DEF T
  <2> QED
    BY <2>1, <2>2, NatClosed
<1> QED
  BY <1>3, <1>4

LEMMA Places ==
    /\ Place[0] = 1
    /\ \A k \in Nat : Place[k + 1] = Base * Place[k] /\ Place[k] \in Nat \ {0}
<1>1. Base \in Nat \ {0}
  BY FramerAssumption DEF BitfieldType
<1>2. Place = [k \in Nat |-> IF k = 0 THEN 1 ELSE Base * Place[k - 1]]
  BY <1>1, PowersExist, Zenon DEF Place
<1> QED
  BY <1>1, <1>2, PowersFacts, Zenon

LEMMA Bits ==
    /\ Bit[0] = 1
    /\ \A k \in Nat : Bit[k + 1] = 2 * Bit[k] /\ Bit[k] \in Nat \ {0}
<1>1. 2 \in Nat \ {0}
  OBVIOUS
<1>2. Bit = [k \in Nat |-> IF k = 0 THEN 1 ELSE 2 * Bit[k - 1]]
  BY <1>1, PowersExist, Zenon DEF Bit
<1> QED
  BY <1>1, <1>2, PowersFacts, Zenon

-----------------------------------------------------------------------------
(* Quotients and remainders. *)

\* Quotient and remainder.
LEMMA Division ==
    ASSUME NEW n \in Nat, NEW m \in Nat \ {0}
    PROVE  /\ n \div m \in Nat /\ n % m \in 0 .. m - 1
           /\ n = (n \div m) * m + (n % m)
<1>1. n \div m \in Nat /\ n % m \in 0 .. m - 1
  OBVIOUS
<1>2. n % m = n - m * (n \div m)
  OBVIOUS
<1> DEFINE q == n \div m
           r == n % m
<1> HIDE DEF q, r
<1>3. m * q \in Nat /\ m * q = q * m
  BY <1>1 DEF q
<1>4. n = q * m + r
  BY <1>1, <1>2, <1>3 DEF q, r
<1> QED
  BY <1>1, <1>4, Zenon DEF q, r

LEMMA DivisionIs ==
    ASSUME NEW q \in Nat, NEW m \in Nat \ {0}, NEW r \in 0 .. m - 1,
           NEW n, n = q * m + r
    PROVE  n \div m = q /\ n % m = r
<1>1. (q * m + r) \div m = q /\ (q * m + r) % m = r
  OBVIOUS
<1> QED
  BY <1>1

\* Shifting right twice.
LEMMA DivisionTwice ==
    ASSUME NEW n \in Nat, NEW m \in Nat \ {0}, NEW k \in Nat \ {0},
           NEW p, p = m * k
    PROVE  p \in Nat \ {0} /\ (n \div m) \div k = n \div p
<1>1. m * k \in Nat \ {0}
  OBVIOUS
<1>2. (n \div m) \div k = n \div (m * k)
  BY <1>1
<1> QED
  BY <1>1, <1>2

-----------------------------------------------------------------------------
(* Packed numbers. *)

\* unpack is the last of the values it goes through.
LEMMA Unpacks ==
    ASSUME NEW s \in Seq(Nat)
    PROVE  \E v \in [0 .. Len(s) -> Nat] :
              /\ v[0] = 0
              /\ \A k \in 1 .. Len(s) : v[k] = v[k - 1] * Base + s[k]
              /\ Unpack(s) = v[Len(s)]
<1> DEFINE digit(k) == IF k \in 1 .. Len(s) THEN s[k] ELSE 0
           step == [x \in Nat \X Nat |-> x[1] * Base + digit(x[2])]
<1>0. Base \in Nat /\ Len(s) \in Nat /\ \A k \in 1 .. Len(s) : s[k] \in Nat
  BY FramerAssumption
<1>1. Table(Nat, step) /\ 0 \in Nat
  <2>1. \A x \in Nat \X Nat : x[1] * Base + digit(x[2]) \in Nat
    <3>1. \A k : digit(k) \in Nat
      BY <1>0
    <3> HIDE DEF digit
    <3>2. \A m, e \in Nat : m * Base + e \in Nat
      BY <1>0
    <3>3. \A x \in Nat \X Nat : x[1] \in Nat
      OBVIOUS
    <3> QED
      BY <3>1, <3>2, <3>3, Zenon
  <2> QED
    BY <2>1 DEF Table
<1>2. PICK g : Iterates(Nat, g, 0, step)
  <2> HIDE DEF step
  <2> QED
    BY <1>1, StepsExist, Zenon
<1>3. g \in [Nat -> Nat] /\ g[0] = 0
  <2> HIDE DEF step
  <2> QED
    BY <1>2 DEF Iterates
<1>4. \A k \in Nat : g[k + 1] = g[k] * Base + digit(k + 1)
  <2>1. \A k \in Nat : g[k + 1] = step[<<g[k], k + 1>>]
    <3> HIDE DEF step
    <3> QED
      BY <1>2 DEF Iterates
  <2>2. \A k \in Nat : step[<<g[k], k + 1>>] = g[k] * Base + digit(k + 1)
    <3> HIDE DEF digit
    <3>1. \A k \in Nat : <<g[k], k + 1>> \in Nat \X Nat
      <4>1. ASSUME NEW k \in Nat PROVE g[k] \in Nat /\ k + 1 \in Nat
        BY <1>3
      <4> QED
        BY <4>1
    <3>2. \A x \in Nat \X Nat : step[x] = x[1] * Base + digit(x[2])
      OBVIOUS
    <3> HIDE DEF step
    <3>3. \A k \in Nat : step[<<g[k], k + 1>>] =
              <<g[k], k + 1>>[1] * Base + digit(<<g[k], k + 1>>[2])
      BY <3>1, <3>2
    <3> QED
      BY <3>3
  <2> HIDE DEF step
  <2> QED
    BY <2>1, <2>2
<1> HIDE DEF step
<1> DEFINE f == [k \in 0 .. Len(s) |-> g[k]]
<1>5. f = [k \in 0 .. Len(s) |-> IF k = 0 THEN 0 ELSE f[k - 1] * Base + s[k]]
  <2>1. ASSUME NEW k \in 1 .. Len(s)
        PROVE  g[k] = g[k - 1] * Base + s[k]
    <3>1. k - 1 \in Nat /\ (k - 1) + 1 = k
      BY <1>0
    <3>2. g[k] = g[k - 1] * Base + digit(k)
      <4> HIDE DEF digit
      <4> QED
        BY <1>4, <3>1
    <3> QED
      BY <3>2
  <2>2. \A k \in 1 .. Len(s) : k - 1 \in 0 .. Len(s) /\ f[k - 1] = g[k - 1]
    BY <1>0
  <2>3. \A k \in 0 .. Len(s) : k # 0 => k \in 1 .. Len(s)
    BY <1>0
  <2>4. \A k \in 0 .. Len(s) : g[k] = IF k = 0 THEN 0 ELSE f[k - 1] * Base + s[k]
    <3> HIDE DEF f
    <3> QED
      BY <1>3, <2>1, <2>2, <2>3
  <2> QED
    BY <2>4
<1> HIDE DEF f
<1>6. PICK v : /\ v = [k \in 0 .. Len(s) |-> IF k = 0 THEN 0 ELSE v[k - 1] * Base + s[k]]
               /\ Unpack(s) = v[Len(s)]
  BY <1>5, Zenon DEF Unpack
<1> DEFINE w == [k \in 0 .. Len(s) |-> IF k = 0 THEN 0 ELSE v[k - 1] * Base + s[k]]
<1>7. w[0] = 0 /\ DOMAIN w = 0 .. Len(s) /\ \A k \in 1 .. Len(s) : w[k] = v[k - 1] * Base + s[k]
  BY <1>0
<1>8. w = v
  BY <1>6
<1> HIDE DEF w
<1>9. v[0] = 0 /\ \A k \in 1 .. Len(s) : v[k] = v[k - 1] * Base + s[k]
  BY <1>7, <1>8
<1> DEFINE T == { k \in Nat : k <= Len(s) => v[k] \in Nat }
<1>10. \A k \in Nat : k \in T
  <2>1. 0 \in T
    BY <1>9
  <2>2. ASSUME NEW k \in Nat, k \in T
        PROVE  k + 1 \in T
    <3>1. SUFFICES ASSUME k + 1 <= Len(s) PROVE v[k + 1] \in Nat
      OBVIOUS
    <3>2. v[k] \in Nat /\ k + 1 \in 1 .. Len(s) /\ (k + 1) - 1 = k
      BY <1>0, <2>2, <3>1
    <3>3. v[k + 1] = v[k] * Base + s[k + 1]
      BY <1>9, <3>2
    <3>4. s[k + 1] \in Nat
      BY <1>0, <3>2
    <3>5. \A m, e \in Nat : m * Base + e \in Nat
      BY <1>0
    <3> QED
      BY <3>2, <3>3, <3>4, <3>5
  <2> HIDE DEF T
  <2> QED
    BY <2>1, <2>2, NatClosed
<1>11. v \in [0 .. Len(s) -> Nat]
  <2>1. \A k \in 0 .. Len(s) : v[k] \in Nat
    BY <1>0, <1>10
  <2>2. v = [k \in 0 .. Len(s) |-> v[k]]
    BY <1>6, Zenon
  <2> QED
    BY <2>1, <2>2
<1> QED
  BY <1>6, <1>9, <1>11

\* What pack makes is Width bytes.
LEMMA PackType ==
    ASSUME NEW n \in Nat
    PROVE  /\ Pack(n) \in Seq(0 .. Base - 1) /\ Len(Pack(n)) = Width
           /\ Pack(n) \in Seq(Nat)
           /\ \A k \in 1 .. Width : Pack(n)[k] = (n \div Place[Width - k]) % Base
<1>1. Base \in Nat \ {0} /\ Width \in Nat \ {0}
  BY FramerAssumption DEF BitfieldType
<1>2. \A k \in 1 .. Width : (n \div Place[Width - k]) % Base \in 0 .. Base - 1
  <2>1. \A k \in 1 .. Width : Place[Width - k] \in Nat \ {0}
    BY <1>1, Places
  <2> QED
    BY <1>1, <2>1, Division
<1>3. Pack(n) \in [1 .. Width -> 0 .. Base - 1]
  BY <1>2 DEF Pack
<1>4. Pack(n) \in Seq(0 .. Base - 1) /\ Len(Pack(n)) = Width
  BY <1>1, <1>3
<1>5. 0 .. Base - 1 \subseteq Nat
  BY <1>1
<1> QED
  BY <1>4, <1>5, SeqMonotonic DEF Pack

\* struct.unpack reads what struct.pack wrote, if it was a number that pack takes
\* (protocol.py 25-26, 65).
THEOREM UnpackPack ==
    ASSUME NEW n, Fits(n)
    PROVE  Unpack(Pack(n)) = n
<1>1. n \in Nat /\ n < Place[Width] /\ Base \in Nat \ {0} /\ Width \in Nat \ {0}
  BY FramerAssumption DEF Fits, BitfieldType
<1> DEFINE s == Pack(n)
<1>2. s \in Seq(Nat) /\ Len(s) = Width
  BY <1>1, PackType
<1>3. \A k \in 1 .. Width : s[k] = (n \div Place[Width - k]) % Base
  BY <1>1, PackType
<1> HIDE DEF s
<1>4. PICK v \in [0 .. Width -> Nat] :
          /\ v[0] = 0
          /\ \A k \in 1 .. Width : v[k] = v[k - 1] * Base + s[k]
          /\ Unpack(s) = v[Width]
  BY <1>2, Unpacks
<1> DEFINE T == { k \in Nat : k <= Width => v[k] = n \div Place[Width - k] }
<1>5. \A k \in Nat : k \in T
  <2>1. 0 \in T
    <3>1. Place[Width] \in Nat \ {0} /\ Width - 0 = Width
      BY <1>1, Places
    <3> DEFINE m == Place[Width]
    <3> HIDE DEF m
    <3>2. m \in Nat \ {0} /\ n \in 0 .. m - 1
      BY <1>1, <3>1 DEF m
    <3>3. n \div m = 0
      BY <1>1, <3>2
    <3> USE DEF m
    <3> QED
      BY <1>4, <3>1, <3>3
  <2>2. ASSUME NEW k \in Nat, k \in T
        PROVE  k + 1 \in T
    <3> SUFFICES ASSUME k + 1 <= Width
                 PROVE  v[k + 1] = n \div Place[Width - (k + 1)]
      OBVIOUS
    <3> DEFINE j == Width - (k + 1)
               q == n \div Place[j]
    <3>1. j \in Nat /\ Width - k = j + 1 /\ k + 1 \in 1 .. Width /\ (k + 1) - 1 = k /\ k <= Width
      BY <1>1
    <3>2. Place[j] \in Nat \ {0} /\ Place[j + 1] = Base * Place[j]
      BY <3>1, Places
    <3>3. v[k] = n \div Place[j + 1]
      BY <2>2, <3>1
    <3>4. s[k + 1] = q % Base
      BY <1>3, <3>1
    <3>5. Base * Place[j] = Place[j] * Base
      BY <1>1, <3>2
    <3> HIDE DEF j
    <3>6. q \in Nat /\ q \div Base = n \div Place[j + 1]
      <4>1. q \in Nat
        BY <1>1, <3>2, Division
      <4>2. Place[j + 1] = Place[j] * Base
        BY <3>2, <3>5
      <4>3. (n \div Place[j]) \div Base = n \div Place[j + 1]
        BY <1>1, <3>2, <4>2, DivisionTwice
      <4> QED
        BY <4>1, <4>3
    <3>7. v[k + 1] = v[k] * Base + s[k + 1]
      BY <1>4, <3>1
    <3> HIDE DEF q
    <3>8. q = (q \div Base) * Base + (q % Base)
      BY <1>1, <3>6, Division
    <3>9. v[k + 1] = (q \div Base) * Base + (q % Base)
      <4>1. v[k] = q \div Base
        BY <3>3, <3>6
      <4> QED
        BY <3>4, <3>7, <4>1, Zenon
    <3> QED
      BY <3>8, <3>9, Zenon DEF q, j
  <2> HIDE DEF T
  <2> QED
    BY <2>1, <2>2, NatClosed
<1>6. v[Width] = n \div Place[0]
  <2>1. Width \in T /\ Width - Width = 0 /\ Width <= Width
    BY <1>1, <1>5
  <2> QED
    BY <2>1
<1>7. n \div 1 = n
  BY <1>1
<1> QED
  BY <1>4, <1>6, <1>7, Places DEF s

-----------------------------------------------------------------------------
(* The bits of a byte. *)

\* Shifting left twice.
LEMMA BitSum ==
    ASSUME NEW j \in Nat
    PROVE  \A k \in Nat : Bit[j + k] = Bit[j] * Bit[k]
<1> DEFINE T == { k \in Nat : Bit[j + k] = Bit[j] * Bit[k] }
<1>1. 0 \in T
  BY Bits
<1>2. ASSUME NEW k \in Nat, k \in T
      PROVE  k + 1 \in T
  <2>1. Bit[j + k] = Bit[j] * Bit[k] /\ j + k \in Nat /\ j + (k + 1) = (j + k) + 1
    BY <1>2
  <2>2. Bit[j + (k + 1)] = 2 * Bit[j + k] /\ Bit[k + 1] = 2 * Bit[k]
    BY <2>1, Bits
  <2>3. \A x, y \in Nat : 2 * (x * y) = x * (2 * y)
    OBVIOUS
  <2>4. Bit[j] \in Nat /\ Bit[k] \in Nat
    BY Bits
  <2>5. 2 * (Bit[j] * Bit[k]) = Bit[j] * (2 * Bit[k])
    BY <2>3, <2>4
  <2>6. Bit[j + (k + 1)] = Bit[j] * Bit[k + 1]
    BY <2>1, <2>2, <2>5
  <2> QED
    BY <2>6
<1>3. \A k \in Nat : k \in T
  <2> HIDE DEF T
  <2> QED
    BY <1>1, <1>2, NatClosed
<1> QED
  BY <1>3

Flag(byte, k) == (byte \div Bit[k]) % 2 = 1

\* A byte is less than 1 << w when nothing is left of it w bits on.
LEMMA Narrow ==
    ASSUME NEW n \in Nat, NEW m \in Nat \ {0}
    PROVE  n < m <=> n \div m = 0
  OBVIOUS

\* What setting the clear bit m does to the rest of the byte.
LEMMA AddingBit ==
    ASSUME NEW n \in Nat, NEW m \in Nat \ {0}, (n \div m) % 2 # 1
    PROVE  /\ (n + m) \div m = (n \div m) + 1
           /\ ((n \div m) + 1) % 2 = 1
           /\ (n + m) \div (2 * m) = n \div (2 * m)
<1> DEFINE a == n \div m
           r == n % m
           h == a \div 2
<1>1. a \in Nat /\ r \in 0 .. m - 1 /\ n = a * m + r
  BY Division
<1>2. a % 2 # 1
  OBVIOUS
<1> HIDE DEF a, r
<1>3. h \in Nat /\ a = 2 * h /\ (a + 1) % 2 = 1
  BY <1>1, <1>2
<1> HIDE DEF h
<1>4. n + m = (a + 1) * m + r
  <2>1. a * m \in Nat /\ (a + 1) * m = a * m + m
    BY <1>1
  <2> QED
    BY <1>1, <2>1
<1>5. (n + m) \div m = a + 1
  <2> DEFINE b == a + 1
             up == n + m
  <2>1. b \in Nat /\ up = b * m + r
    BY <1>1, <1>4
  <2> HIDE DEF b, up
  <2>2. up \div m = b
    BY <1>1, <2>1, DivisionIs
  <2> QED
    BY <2>2 DEF b, up
<1>6. 2 * m \in Nat \ {0} /\ r \in 0 .. 2 * m - 1 /\ r + m \in 0 .. 2 * m - 1
  BY <1>1
<1>7. n = h * (2 * m) + r /\ n + m = h * (2 * m) + (r + m)
  <2>1. a * m = h * (2 * m) /\ h * (2 * m) \in Nat
    BY <1>3
  <2> QED
    BY <1>1, <2>1
<1>8. n \div (2 * m) = h /\ (n + m) \div (2 * m) = h
  BY <1>3, <1>6, <1>7, DivisionIs
<1> QED
  BY <1>3, <1>5, <1>8 DEF a

\* Setting one clear bit of a byte.
LEMMA SettingFlag ==
    ASSUME NEW w \in Nat, NEW byte \in 0 .. Bit[w] - 1, NEW k \in 0 .. w - 1, ~Flag(byte, k)
    PROVE  /\ byte + Bit[k] \in 0 .. Bit[w] - 1
           /\ \A j \in 0 .. w - 1 : Flag(byte + Bit[k], j) <=> Flag(byte, j) \/ j = k
<1> DEFINE m == Bit[k]
           up == byte + m
<1>1. /\ m \in Nat \ {0} /\ byte \in Nat /\ up \in Nat /\ Bit[w] \in Nat \ {0}
      /\ k \in Nat /\ Bit[k + 1] = 2 * m
  BY Bits
<1>2. /\ up \div m = (byte \div m) + 1
      /\ ((byte \div m) + 1) % 2 = 1
      /\ up \div (2 * m) = byte \div (2 * m)
  BY <1>1, AddingBit DEF Flag
<1>3. ASSUME NEW j \in Nat, j > k
      PROVE  up \div Bit[j] = byte \div Bit[j]
  <2> DEFINE c == j - (k + 1)
             mm == 2 * m
  <2>1. c \in Nat /\ j = (k + 1) + c /\ k + 1 \in Nat
    BY <1>1, <1>3
  <2>2. Bit[j] = Bit[k + 1] * Bit[c] /\ Bit[c] \in Nat \ {0}
    <3> HIDE DEF c
    <3> QED
      BY <2>1, BitSum, Bits
  <2>3. mm \in Nat \ {0} /\ Bit[j] = mm * Bit[c]
    BY <1>1, <2>2
  <2>4. up \div mm = byte \div mm
    BY <1>2
  <2> HIDE DEF c, m, mm, up
  <2>5. /\ (up \div mm) \div Bit[c] = up \div Bit[j]
        /\ (byte \div mm) \div Bit[c] = byte \div Bit[j]
    BY <1>1, <2>2, <2>3, DivisionTwice
  <2> QED
    BY <2>4, <2>5
<1>4. ASSUME NEW j \in Nat, j < k
      PROVE  Flag(up, j) <=> Flag(byte, j)
  <2> DEFINE c == k - (j + 1)
             h == Bit[j]
  <2>1. c \in Nat /\ k = (j + 1) + c /\ j + 1 \in Nat
    BY <1>1, <1>4
  <2>2. m = Bit[j + 1] * Bit[c] /\ Bit[c] \in Nat \ {0} /\ h \in Nat \ {0} /\ Bit[j + 1] = 2 * h
    <3> HIDE DEF c
    <3> QED
      BY <1>4, <2>1, BitSum, Bits
  <2>3. PICK e \in Nat : m = (2 * e) * h
    <3>1. (2 * h) * Bit[c] = (2 * Bit[c]) * h
      BY <2>2
    <3> QED
      BY <2>2, <3>1
  <2> HIDE DEF c, m, h
  <2> DEFINE a == byte \div h
             r == byte % h
  <2>4. a \in Nat /\ r \in 0 .. h - 1 /\ byte = a * h + r
    BY <1>1, <2>2, Division
  <2> HIDE DEF a, r
  <2>5. up = (a + 2 * e) * h + r
    <3>1. a * h \in Nat /\ (2 * e) * h \in Nat /\ (a + 2 * e) * h = a * h + (2 * e) * h
      BY <2>2, <2>4
    <3> QED
      BY <2>3, <2>4, <3>1
  <2>6. up \div h = a + 2 * e
    <3> DEFINE b == a + 2 * e
    <3>1. b \in Nat /\ up = b * h + r
      BY <2>4, <2>5
    <3> HIDE DEF b
    <3>2. up \div h = b
      BY <2>2, <2>4, <3>1, DivisionIs
    <3> QED
      BY <3>2 DEF b
  <2>7. (a + 2 * e) % 2 = a % 2
    BY <2>4
  <2> HIDE DEF up
  <2> QED
    BY <2>6, <2>7 DEF Flag, a, h
<1>5. up < Bit[w]
  <2>1. w \in Nat /\ w > k
    BY <1>1
  <2>2. byte \div Bit[w] = 0
    BY <1>1, Narrow
  <2> HIDE DEF up
  <2> QED
    BY <1>1, <1>3, <2>1, <2>2, Narrow
<1>6. ASSUME NEW j \in 0 .. w - 1
      PROVE  Flag(up, j) <=> Flag(byte, j) \/ j = k
  <2>1. CASE j = k
    BY <1>2, <2>1 DEF Flag
  <2>2. CASE j < k
    <3> HIDE DEF up
    <3> QED
      BY <1>4, <2>2
  <2>3. CASE j > k
    <3> HIDE DEF up
    <3>1. up \div Bit[j] = byte \div Bit[j]
      BY <1>3, <2>3
    <3> QED
      BY <2>3, <3>1 DEF Flag
  <2> QED
    BY <1>1, <2>1, <2>2, <2>3
<1> QED
  BY <1>1, <1>5, <1>6

\* What clearing the last s bits does to the byte.
LEMMA ClearingFlags ==
    ASSUME NEW w \in Nat, NEW byte \in 0 .. Bit[w] - 1, NEW s \in Nat
    PROVE  /\ byte - (byte % Bit[s]) \in 0 .. Bit[w] - 1
           /\ \A j \in Nat : s <= j => (Flag(byte - (byte % Bit[s]), j) <=> Flag(byte, j))
<1> DEFINE m == Bit[s]
           a == byte \div m
           r == byte % m
           down == byte - r
<1>1. m \in Nat \ {0} /\ byte \in Nat
  BY Bits
<1>2. a \in Nat /\ r \in 0 .. m - 1 /\ byte = a * m + r
  BY <1>1, Division
<1> HIDE DEF m, a, r
<1>3. a * m \in Nat /\ down = a * m
  BY <1>1, <1>2
<1> HIDE DEF down
<1>4. down \div m = a /\ down \in Nat /\ down <= byte
  <2>1. 0 \in 0 .. m - 1 /\ down = a * m + 0
    BY <1>1, <1>3
  <2>2. down \div m = a
    BY <1>1, <1>2, <2>1, DivisionIs
  <2> QED
    BY <1>1, <1>2, <1>3, <2>2
<1>5. ASSUME NEW j \in Nat, s <= j
      PROVE  Flag(down, j) <=> Flag(byte, j)
  <2>1. j - s \in Nat /\ j = s + (j - s)
    BY <1>5
  <2> DEFINE c == Bit[j - s]
  <2>2. Bit[j] = m * c /\ c \in Nat \ {0}
    <3>1. Bit[s + (j - s)] = Bit[s] * Bit[j - s]
      BY <2>1, BitSum
    <3> QED
      BY <2>1, <3>1, Bits DEF m
  <2> HIDE DEF c
  <2>3. (down \div m) \div c = down \div Bit[j] /\ (byte \div m) \div c = byte \div Bit[j]
    <3> DEFINE p == Bit[j]
    <3>1. p = m * c
      BY <2>2
    <3> HIDE DEF p
    <3>2. (down \div m) \div c = down \div p
      <4>1. m \in Nat \ {0}
        BY <1>1
      <4>2. c \in Nat \ {0}
        BY <2>2
      <4>3. down \in Nat
        BY <1>4
      <4>4. p = m * c
        BY <3>1
      <4> QED
        BY <4>1, <4>2, <4>3, <4>4, DivisionTwice
    <3>3. (byte \div m) \div c = byte \div p
      <4>1. m \in Nat \ {0}
        BY <1>1
      <4>2. c \in Nat \ {0}
        BY <2>2
      <4>3. byte \in Nat
        BY <1>1
      <4>4. p = m * c
        BY <3>1
      <4> QED
        BY <4>1, <4>2, <4>3, <4>4, DivisionTwice
    <3> QED
      BY <3>2, <3>3 DEF p
  <2>4. down \div Bit[j] = byte \div Bit[j]
    BY <1>4, <2>2, <2>3 DEF a
  <2> QED
    BY <2>4 DEF Flag
<1>6. down \in 0 .. Bit[w] - 1
  BY <1>1, <1>4, Bits
<1> QED
  BY <1>5, <1>6 DEF down, r, m

-----------------------------------------------------------------------------
(* Bitfields. *)

\* The sizes of a bitfield: every piece has a byte.
LEMMA Sizes ==
    /\ ByteBits \in Nat \ {0} /\ NumPieces \in Nat \ {0} /\ NumBytes \in Nat \ {0}
    /\ Byte = 0 .. Base - 1 /\ Byte \subseteq Nat /\ 0 \in Byte
    /\ \A i \in Indices : i \in Nat /\ ByteIndex(i) \in 1 .. NumBytes
<1> DEFINE N == NumPieces + ByteBits - 1
           r == N % ByteBits
<1>1. ByteBits \in Nat \ {0} /\ NumPieces \in Nat \ {0} /\ N \in Nat
  BY BitfieldAssumption
<1>2. NumBytes \in Nat /\ r \in 0 .. ByteBits - 1 /\ N = NumBytes * ByteBits + r
  <2> HIDE DEF N
  <2>1. N \div ByteBits \in Nat /\ r \in 0 .. ByteBits - 1 /\ N = (N \div ByteBits) * ByteBits + r
    BY <1>1, Division
  <2> QED
    BY <2>1 DEF NumBytes, N
<1> HIDE DEF N, r
<1>3. NumBytes # 0
  BY <1>1, <1>2 DEF N
<1>4. Byte = 0 .. Base - 1 /\ Byte \subseteq Nat /\ 0 \in Byte
  <2>1. Bit[ByteBits] \in Nat \ {0}
    BY <1>1, Bits
  <2> QED
    BY <2>1, ConnectingAssumption DEF Byte
<1>5. ASSUME NEW i \in Indices
      PROVE  i \in Nat /\ ByteIndex(i) \in 1 .. NumBytes
  <2> DEFINE q == i \div ByteBits
             e == i % ByteBits
  <2>1. i \in Nat /\ i < NumPieces
    BY <1>1 DEF Indices
  <2>2. q \in Nat /\ e \in 0 .. ByteBits - 1 /\ i = q * ByteBits + e
    BY <1>1, <2>1, Division
  <2> HIDE DEF q, e
  <2>3. q < NumBytes
    <3> SUFFICES ASSUME NumBytes <= q PROVE FALSE
      BY <1>2, <2>2
    <3> DEFINE a == NumBytes * ByteBits
               b == q * ByteBits
    <3>1. a \in Nat /\ b \in Nat /\ a <= b
      BY <1>1, <1>2, <2>2
    <3>2. N = a + r /\ i = b + e
      BY <1>2, <2>2
    <3> HIDE DEF a, b
    <3> QED
      BY <1>1, <1>2, <2>1, <2>2, <3>1, <3>2 DEF N
  <2> QED
    BY <2>1, <2>2, <2>3, <1>2 DEF ByteIndex, q
<1> QED
  BY <1>1, <1>2, <1>3, <1>4, <1>5

\* Where the bit of a piece is: no two pieces share one, and no piece is in
\* the spare bits.
Offset(i) == ByteBits - 1 - (i % ByteBits)

Spare == NumBytes * ByteBits - NumPieces

LEMMA Offsets ==
    /\ \A i \in Indices : Offset(i) \in 0 .. ByteBits - 1
    /\ \A i, j \in Indices : ByteIndex(i) = ByteIndex(j) /\ Offset(i) = Offset(j) => i = j
    /\ Spare \in Nat
    /\ \A i \in Indices : ByteIndex(i) = NumBytes => Spare <= Offset(i)
<1>1. ASSUME NEW i \in Indices
      PROVE  /\ i % ByteBits \in 0 .. ByteBits - 1
             /\ i = (ByteIndex(i) - 1) * ByteBits + (i % ByteBits)
  <2> DEFINE q == i \div ByteBits
  <2>1. q \in Nat /\ i % ByteBits \in 0 .. ByteBits - 1 /\ i = q * ByteBits + (i % ByteBits)
    BY Sizes, Division
  <2>2. ByteIndex(i) - 1 = q
    <3>1. ByteIndex(i) = q + 1
      BY DEF ByteIndex
    <3> HIDE DEF q
    <3> QED
      BY <2>1, <3>1
  <2> HIDE DEF q
  <2> QED
    BY <2>1, <2>2
<1>2. ASSUME NEW i \in Indices
      PROVE  Offset(i) \in 0 .. ByteBits - 1 /\ (i % ByteBits) = ByteBits - 1 - Offset(i)
  <2> DEFINE e == i % ByteBits
  <2>1. e \in 0 .. ByteBits - 1 /\ ByteBits \in Nat
    BY <1>1, <1>2, Sizes
  <2>2. Offset(i) = ByteBits - 1 - e
    BY DEF Offset
  <2>3. Offset(i) \in 0 .. ByteBits - 1 /\ e = ByteBits - 1 - Offset(i)
    <3> HIDE DEF e
    <3> QED
      BY <2>1, <2>2
  <2> QED
    BY <2>3
<1>3. ASSUME NEW i \in Indices, NEW j \in Indices,
             ByteIndex(i) = ByteIndex(j), Offset(i) = Offset(j)
      PROVE  i = j
  <2>1. i % ByteBits = j % ByteBits
    BY <1>2, <1>3
  <2> QED
    BY <1>1, <1>3, <2>1
<1> DEFINE a == NumBytes * ByteBits
           N == NumPieces + ByteBits - 1
           r == N % ByteBits
<1>4. a \in Nat
  BY Sizes
<1>5. r \in 0 .. ByteBits - 1 /\ N = a + r
  <2>1. N \in Nat
    BY Sizes
  <2> HIDE DEF N
  <2>2. r \in 0 .. ByteBits - 1 /\ N = (N \div ByteBits) * ByteBits + r
    BY <2>1, Sizes, Division
  <2> QED
    BY <2>2 DEF NumBytes, N
<1> HIDE DEF a, r
<1>6. Spare = a - NumPieces
  BY DEF Spare, a
<1>7. Spare \in Nat
  BY <1>4, <1>5, <1>6, Sizes
<1>8. ASSUME NEW i \in Indices, ByteIndex(i) = NumBytes
      PROVE  Spare <= Offset(i)
  <2>1. (NumBytes - 1) * ByteBits = a - ByteBits
    BY Sizes DEF a
  <2>2. i = (a - ByteBits) + (i % ByteBits)
    BY <1>1, <1>8, <2>1
  <2>3. i < NumPieces /\ i \in Nat
    BY Sizes DEF Indices
  <2> QED
    BY <1>1, <1>2, <1>4, <1>6, <2>2, <2>3, Sizes
<1> QED
  BY <1>2, <1>3, <1>7, <1>8

LEMMA HasPiece ==
    ASSUME NEW data, NEW i
    PROVE  has_piece(data, i) <=> i \in Indices /\ Flag(data[ByteIndex(i)], Offset(i))
  BY DEF has_piece, Flag, Mask, Offset

\* Marking a piece marks no other (Bitfield.set_piece, has_piece, state.py 24-40).
THEOREM SetPiece ==
    ASSUME NEW data \in Data, NEW i
    PROVE  /\ set_piece(data, i) \in Data
           /\ \A j \in Indices : has_piece(set_piece(data, i), j) <=> has_piece(data, j) \/ j = i
<1>1. CASE i \notin Indices \/ has_piece(data, i)
  BY <1>1 DEF set_piece
<1>2. CASE i \in Indices /\ ~has_piece(data, i)
  <2> DEFINE n == ByteIndex(i)
             byte == data[n]
             k == Offset(i)
             next == byte + Bit[k]
  <2>1. n \in 1 .. NumBytes /\ byte \in 0 .. Bit[ByteBits] - 1 /\ k \in 0 .. ByteBits - 1
    BY <1>2, Sizes, Offsets DEF Data, Byte
  <2>2. ~Flag(byte, k) /\ ByteBits \in Nat
    BY <1>2, HasPiece, Sizes
  <2>3. set_piece(data, i) = [data EXCEPT ![n] = next]
    BY <1>2 DEF set_piece, Mask, Offset
  <2> HIDE DEF byte, k
  <2>4. /\ next \in 0 .. Bit[ByteBits] - 1
        /\ \A j \in 0 .. ByteBits - 1 : Flag(next, j) <=> Flag(byte, j) \/ j = k
    BY <2>1, <2>2, SettingFlag
  <2> HIDE DEF n, next
  <2>5. set_piece(data, i) \in Data
    BY <2>1, <2>3, <2>4 DEF Data, Byte
  <2>6. ASSUME NEW j \in Indices
        PROVE  has_piece(set_piece(data, i), j) <=> has_piece(data, j) \/ j = i
    <3>1. ByteIndex(j) \in 1 .. NumBytes /\ Offset(j) \in 0 .. ByteBits - 1
      BY Sizes, Offsets
    <3>2. CASE ByteIndex(j) = n
      <4>1. set_piece(data, i)[ByteIndex(j)] = next /\ data[ByteIndex(j)] = byte
        BY <2>1, <2>3, <3>2 DEF Data, byte
      <4>2. Offset(j) = k <=> j = i
        BY <1>2, <3>2, Offsets DEF n, k
      <4> QED
        BY <2>4, <3>1, <4>1, <4>2, HasPiece
    <3>3. CASE ByteIndex(j) # n
      <4>1. set_piece(data, i)[ByteIndex(j)] = data[ByteIndex(j)]
        BY <2>3, <3>1, <3>3 DEF Data
      <4>2. j # i
        BY <3>3 DEF n
      <4> QED
        BY <4>1, <4>2, HasPiece
    <3> QED
      BY <3>2, <3>3
  <2> QED
    BY <2>5, <2>6
<1> QED
  BY <1>1, <1>2

\* A bitfield that was sent is read as it was: clearing the spare bits leaves the
\* others alone (Bitfield.from_bytes, state.py 45-62).
THEOREM FromBytes ==
    ASSUME NEW data \in Data, NEW bytes \in Seq(Byte)
    PROVE  /\ from_bytes(data, bytes) \in Data
           /\ bytes \in Data => \A j \in Indices :
                 has_piece(from_bytes(data, bytes), j) <=> has_piece(bytes, j)
<1>1. bytes \in Data <=> Len(bytes) = NumBytes
  <2>1. bytes \in [1 .. Len(bytes) -> Byte] /\ Len(bytes) \in Nat /\ DOMAIN bytes = 1 .. Len(bytes)
    OBVIOUS
  <2>2. ASSUME bytes \in Data PROVE Len(bytes) = NumBytes
    <3>1. 1 .. Len(bytes) = 1 .. NumBytes
      BY <2>1, <2>2 DEF Data
    <3>2. NumBytes \in Nat \ {0} /\ Len(bytes) \in Nat
      BY <2>1, Sizes
    <3>3. NumBytes \in 1 .. Len(bytes)
      BY <3>1, <3>2
    <3>4. Len(bytes) = 0 \/ Len(bytes) \in 1 .. NumBytes
      BY <3>1, <3>2
    <3> QED
      BY <3>2, <3>3, <3>4
  <2> QED
    BY <2>1, <2>2 DEF Data
<1>2. CASE Len(bytes) # NumBytes
  BY <1>1, <1>2 DEF from_bytes
<1>3. CASE Len(bytes) = NumBytes
  <2> DEFINE byte == bytes[NumBytes]
             next == byte - (byte % Bit[Spare])
  <2>1. bytes \in Data /\ NumBytes \in 1 .. NumBytes /\ ByteBits \in Nat
    BY <1>1, <1>3, Sizes
  <2>2. from_bytes(data, bytes) = [bytes EXCEPT ![NumBytes] = next]
    BY <1>3 DEF from_bytes, ClearTrailingBits, Spare
  <2>3. byte \in 0 .. Bit[ByteBits] - 1 /\ Spare \in Nat
    BY <2>1, Offsets DEF Data, Byte
  <2> HIDE DEF byte
  <2>4. /\ next \in 0 .. Bit[ByteBits] - 1
        /\ \A j \in Nat : Spare <= j => (Flag(next, j) <=> Flag(byte, j))
    BY <2>1, <2>3, ClearingFlags
  <2> HIDE DEF next
  <2>5. from_bytes(data, bytes) \in Data
    BY <2>1, <2>2, <2>4 DEF Data, Byte
  <2>6. ASSUME NEW j \in Indices
        PROVE  has_piece(from_bytes(data, bytes), j) <=> has_piece(bytes, j)
    <3>1. ByteIndex(j) \in 1 .. NumBytes /\ Offset(j) \in Nat
      BY Sizes, Offsets
    <3>2. CASE ByteIndex(j) = NumBytes
      <4>1. from_bytes(data, bytes)[ByteIndex(j)] = next /\ bytes[ByteIndex(j)] = byte
        BY <2>1, <2>2, <3>2 DEF Data, byte
      <4>2. Spare <= Offset(j)
        BY <3>2, Offsets
      <4> QED
        BY <2>4, <3>1, <4>1, <4>2, HasPiece
    <3>3. CASE ByteIndex(j) # NumBytes
      <4>1. from_bytes(data, bytes)[ByteIndex(j)] = bytes[ByteIndex(j)]
        BY <2>1, <2>2, <3>1, <3>3 DEF Data
      <4> QED
        BY <4>1, HasPiece
    <3> QED
      BY <3>2, <3>3
  <2> QED
    BY <2>5, <2>6
<1> QED
  BY <1>2, <1>3

\* The bitfield of a seeder is one.
LEMMA AllPiecesType == NoPieces \in Data /\ AllPieces \in Data
<1>1. NoPieces \in Data
  BY Sizes DEF NoPieces, Data
<1> DEFINE step == [x \in Data \X Nat |-> set_piece(x[1], x[2] - 1)]
<1>2. Table(Data, step)
  <2>1. \A x \in Data \X Nat : set_piece(x[1], x[2] - 1) \in Data
    BY SetPiece
  <2> QED
    BY <2>1 DEF Table
<1>3. PICK g : Iterates(Data, g, NoPieces, step)
  <2> HIDE DEF step
  <2> QED
    BY <1>1, <1>2, StepsExist, Zenon
<1>4. /\ g \in [Nat -> Data] /\ g[0] = NoPieces
      /\ \A k \in Nat : g[k + 1] = step[<<g[k], k + 1>>]
  <2> HIDE DEF step
  <2> QED
    BY <1>3 DEF Iterates
<1>5. \A k \in Nat : g[k + 1] = set_piece(g[k], k)
  <2>1. \A x \in Data \X Nat : step[x] = set_piece(x[1], x[2] - 1)
    OBVIOUS
  <2> HIDE DEF step
  <2>2. ASSUME NEW k \in Nat
        PROVE  g[k + 1] = set_piece(g[k], k)
    <3> DEFINE x == <<g[k], k + 1>>
    <3>1. x \in Data \X Nat /\ x[1] = g[k] /\ x[2] - 1 = k
      BY <1>4
    <3>2. g[k + 1] = step[x]
      BY <1>4
    <3> HIDE DEF x
    <3> QED
      BY <2>1, <3>1, <3>2
  <2> QED
    BY <2>2
<1> HIDE DEF step
<1> DEFINE f == [n \in 0 .. NumPieces |-> g[n]]
<1>6. f = [n \in 0 .. NumPieces |-> IF n = 0 THEN NoPieces ELSE set_piece(f[n - 1], n - 1)]
  <2>1. ASSUME NEW n \in 0 .. NumPieces
        PROVE  g[n] = IF n = 0 THEN NoPieces ELSE set_piece(f[n - 1], n - 1)
    <3>1. CASE n = 0
      BY <1>4, <3>1
    <3>2. CASE n # 0
      <4>1. n - 1 \in Nat /\ (n - 1) + 1 = n /\ n - 1 \in 0 .. NumPieces
        BY <3>2, Sizes
      <4>2. g[n] = set_piece(g[n - 1], n - 1)
        BY <1>5, <4>1
      <4>3. f[n - 1] = g[n - 1]
        BY <4>1
      <4> HIDE DEF f
      <4> QED
        BY <3>2, <4>2, <4>3
    <3> QED
      BY <3>1, <3>2
  <2> QED
    BY <2>1
<1> HIDE DEF f
<1> DEFINE h == [n \in 0 .. NumPieces |-> IF n = 0 THEN NoPieces ELSE set_piece(Filled[n - 1], n - 1)]
<1>7. Filled = h
  BY <1>6, Zenon DEF Filled
<1>8. h[0] = NoPieces /\ \A n \in 1 .. NumPieces : h[n] = set_piece(Filled[n - 1], n - 1)
  <2>1. 0 \in 0 .. NumPieces /\ \A n \in 1 .. NumPieces : n \in 0 .. NumPieces /\ n # 0
    BY Sizes
  <2>2. h[0] = NoPieces
    BY <2>1, Zenon
  <2>3. ASSUME NEW n \in 1 .. NumPieces
        PROVE  h[n] = set_piece(Filled[n - 1], n - 1)
    <3>1. n \in 0 .. NumPieces /\ n # 0
      BY <2>1
    <3> QED
      BY <3>1, Zenon
  <2> QED
    BY <2>2, <2>3
<1> HIDE DEF h
<1>9. Filled[0] = NoPieces /\ \A n \in 1 .. NumPieces : Filled[n] = set_piece(Filled[n - 1], n - 1)
  BY <1>7, <1>8
<1> DEFINE T == { n \in Nat : n <= NumPieces => Filled[n] \in Data }
<1>10. \A n \in Nat : n \in T
  <2>1. 0 \in T
    BY <1>1, <1>9
  <2>2. ASSUME NEW n \in Nat, n \in T
        PROVE  n + 1 \in T
    <3> SUFFICES ASSUME n + 1 <= NumPieces PROVE Filled[n + 1] \in Data
      OBVIOUS
    <3>1. n + 1 \in 1 .. NumPieces /\ (n + 1) - 1 = n /\ Filled[n] \in Data
      BY <2>2, Sizes
    <3>2. Filled[n + 1] = set_piece(Filled[n], n)
      BY <1>9, <3>1
    <3> QED
      BY <3>1, <3>2, SetPiece
  <2> HIDE DEF T
  <2> QED
    BY <2>1, <2>2, NatClosed
<1>11. AllPieces \in Data
  BY <1>10, Sizes DEF AllPieces
<1> QED
  BY <1>1, <1>11

-----------------------------------------------------------------------------
(* What is put on the wire, and what the framer makes of it. *)

Framers == [buffer : Seq(Byte), handshake_done : BOOLEAN]

\* Two sequences of bytes do not differ where both have an element.
Agree(s, t) == \A k \in 1 .. Len(s) : k <= Len(t) => s[k] = t[k]

\* The lengths and types that the protocol is made of.
LEMMA Numbers ==
    /\ Width \in Nat \ {0} /\ Padding \in Nat /\ Base \in Nat \ {0}
    /\ Byte = 0 .. Base - 1 /\ Byte \subseteq Nat /\ 0 \in Byte
    /\ HaveType \in Byte /\ BitfieldType \in Byte /\ HaveType # BitfieldType
    /\ Header \in Seq(Byte) /\ Len(Header) \in Nat /\ HandshakeLen \in Nat
    /\ HandshakeLen = Len(Header) + Padding + Width /\ 1 + 2 * Width <= HandshakeLen
<1>1. Width \in Nat \ {0} /\ Padding \in Nat /\ Base \in Nat \ {0} /\ BitfieldType < Base
      /\ Header \in Seq(0 .. Base - 1)
  BY FramerAssumption DEF BitfieldType
<1>2. Len(Header) \in Nat /\ HandshakeLen = Len(Header) + Padding + Width
  BY <1>1, LenProperties, Zenon DEF HandshakeLen
<1>3. Byte = 0 .. Base - 1 /\ Byte \subseteq Nat /\ 0 \in Byte
  BY Sizes
<1>4. HaveType \in Byte /\ BitfieldType \in Byte /\ HaveType # BitfieldType
  BY <1>1, <1>3 DEF HaveType, BitfieldType
<1> QED
  BY <1>1, <1>2, <1>3, <1>4, ConnectingAssumption, SMTT(30)

LEMMA Packed ==
    ASSUME NEW n \in Nat
    PROVE  Pack(n) \in Seq(Byte) /\ Len(Pack(n)) = Width
  BY PackType, Numbers

\* Which bytes a handshake has where.
LEMMA HandshakeBytes ==
    ASSUME NEW b, b = create_handshake(MyId)
    PROVE  /\ b \in Seq(Byte) /\ Len(b) = HandshakeLen
           /\ \A k \in 1 .. Len(Header) : b[k] = Header[k]
           /\ \A k \in 1 .. Width : b[HandshakeLen - Width + k] = Pack(MyId)[k]
<1> DEFINE zeros == [n \in 1 .. Padding |-> 0]
           packed == Pack(MyId)
           front == Header \o zeros
<1>1. zeros \in Seq(Byte) /\ Len(zeros) = Padding
  <2>1. zeros \in [1 .. Padding -> Byte]
    BY Numbers
  <2> QED
    BY <2>1, Numbers
<1>2. packed \in Seq(Byte) /\ Len(packed) = Width
  <2>1. MyId \in Nat
    BY ConnectingAssumption DEF Fits
  <2> QED
    BY <2>1, Packed
<1>3. b = front \o packed
  BY DEF create_handshake
<1> HIDE DEF zeros, packed
<1>4. /\ front \in Seq(Byte) /\ Len(front) = Len(Header) + Padding
      /\ \A k \in 1 .. Len(Header) + Padding :
            front[k] = IF k <= Len(Header) THEN Header[k] ELSE zeros[k - Len(Header)]
  <2>1. Header \in Seq(Byte)
    BY Numbers
  <2> QED
    BY <1>1, <2>1, ConcatProperties
<1> HIDE DEF front
<1> DEFINE c == front \o packed
<1>5. /\ c \in Seq(Byte) /\ Len(c) = Len(front) + Len(packed)
      /\ \A k \in 1 .. Len(front) + Len(packed) :
            c[k] = IF k <= Len(front) THEN front[k] ELSE packed[k - Len(front)]
  BY <1>2, <1>4, ConcatProperties
<1> HIDE DEF c
<1>6. b = c
  BY <1>3 DEF c
<1>7. Len(c) = HandshakeLen
  BY <1>2, <1>4, <1>5, Numbers
<1>8. ASSUME NEW k \in 1 .. Len(Header)
      PROVE  c[k] = Header[k]
  <2>1. k \in 1 .. Len(front) + Len(packed) /\ k <= Len(front) /\ k \in 1 .. Len(Header) + Padding
        /\ k <= Len(Header)
    <3>1. Len(Header) \in Nat /\ Padding \in Nat /\ Width \in Nat
      BY Numbers
    <3> QED
      BY <1>2, <1>4, <3>1
  <2> QED
    BY <1>4, <1>5, <2>1
<1>9. ASSUME NEW k \in 1 .. Width
      PROVE  c[HandshakeLen - Width + k] = packed[k]
  <2> DEFINE j == HandshakeLen - Width + k
  <2>1. j \in 1 .. Len(front) + Len(packed) /\ ~(j <= Len(front)) /\ j - Len(front) = k
    BY <1>2, <1>4, Numbers
  <2> HIDE DEF j
  <2>2. c[j] = packed[k]
    BY <1>5, <2>1
  <2> QED
    BY <2>2 DEF j
<1> QED
  BY <1>5, <1>6, <1>7, <1>8, <1>9 DEF packed

\* Its length, its type and its payload.
Frames(b, v, payload) ==
    /\ b \in Seq(Byte) /\ Len(b) = Width + 1 + Len(payload)
    /\ \A k \in 1 .. Width : b[k] = Pack(1 + Len(payload))[k]
    /\ b[Width + 1] = v
    /\ \A k \in 1 .. Len(payload) : b[Width + 1 + k] = payload[k]

\* Which bytes a message has where.
LEMMA MessageBytes ==
    ASSUME NEW v \in Byte, NEW payload \in Seq(Byte)
    PROVE  Frames(create_message(v, payload), v, payload)
<1> DEFINE size == Pack(1 + Len(payload))
           front == size \o <<v>>
<1>0. Len(payload) \in Nat /\ Width \in Nat \ {0} /\ <<v>> \in Seq(Byte) /\ Len(<<v>>) = 1
  BY Numbers
<1>1. size \in Seq(Byte) /\ Len(size) = Width
  BY <1>0, Packed
<1>2. create_message(v, payload) = front \o payload
  BY DEF create_message
<1> HIDE DEF size
<1>3. /\ front \in Seq(Byte) /\ Len(front) = Width + 1
      /\ \A k \in 1 .. Width + 1 : front[k] = IF k <= Width THEN size[k] ELSE <<v>>[k - Width]
  BY <1>0, <1>1, ConcatProperties
<1> HIDE DEF front
<1> DEFINE c == front \o payload
<1>4. /\ c \in Seq(Byte) /\ Len(c) = Len(front) + Len(payload)
      /\ \A k \in 1 .. Len(front) + Len(payload) :
            c[k] = IF k <= Len(front) THEN front[k] ELSE payload[k - Len(front)]
  BY <1>0, <1>3, ConcatProperties
<1> HIDE DEF c
<1>5. create_message(v, payload) = c
  BY <1>2 DEF c
<1>6. ASSUME NEW k \in 1 .. Width
      PROVE  c[k] = size[k]
  <2>1. k \in 1 .. Len(front) + Len(payload) /\ k <= Len(front) /\ k \in 1 .. Width + 1 /\ k <= Width
    BY <1>0, <1>3
  <2> QED
    BY <1>3, <1>4, <2>1
<1>7. c[Width + 1] = v
  <2>1. Width + 1 \in 1 .. Len(front) + Len(payload) /\ Width + 1 <= Len(front)
        /\ Width + 1 \in 1 .. Width + 1 /\ ~(Width + 1 <= Width) /\ (Width + 1) - Width = 1
    BY <1>0, <1>3
  <2>2. c[Width + 1] = front[Width + 1]
    BY <1>4, <2>1
  <2>3. front[Width + 1] = <<v>>[1]
    BY <1>3, <2>1
  <2> QED
    BY <2>2, <2>3
<1>8. ASSUME NEW k \in 1 .. Len(payload)
      PROVE  c[Width + 1 + k] = payload[k]
  <2> DEFINE j == Width + 1 + k
  <2>1. j \in 1 .. Len(front) + Len(payload) /\ ~(j <= Len(front)) /\ j - Len(front) = k
    BY <1>0, <1>3
  <2> HIDE DEF j
  <2>2. c[j] = payload[k]
    BY <1>4, <2>1
  <2> QED
    BY <2>2 DEF j
<1>9. Len(c) = Width + 1 + Len(payload)
  BY <1>3, <1>4
<1>10. Frames(c, v, payload)
  BY <1>4, <1>6, <1>7, <1>8, <1>9 DEF size, Frames
<1> QED
  BY <1>5, <1>10

\* A part of a sequence, compared element by element.
LEMMA PartIs ==
    ASSUME NEW s \in Seq(Byte), NEW from \in Nat, NEW t \in Seq(Byte),
           from + Len(t) <= Len(s), \A k \in 1 .. Len(t) : s[from + k] = t[k]
    PROVE  SubSeq(s, from + 1, from + Len(t)) = t
<1>1. Len(t) \in Nat /\ Len(s) \in Nat
  OBVIOUS
<1> DEFINE u == SubSeq(s, from + 1, from + Len(t))
           n == from + Len(t)
<1>2. /\ u \in Seq(Byte)
      /\ Len(u) = (IF from + 1 <= n THEN n - (from + 1) + 1 ELSE 0)
      /\ \A k \in 1 .. n - (from + 1) + 1 : u[k] = s[from + 1 + k - 1]
  <2>1. from + 1 \in Int /\ n \in Int
    BY <1>1
  <2>2. \A k \in from + 1 .. n : s[k] \in Byte
    BY <1>1
  <2> HIDE DEF n
  <2>3. u = SubSeq(s, from + 1, n)
    BY DEF n
  <2> HIDE DEF u
  <2> QED
    BY <2>1, <2>2, <2>3, SubSeqProperties
<1> HIDE DEF u
<1>3. Len(u) = Len(t)
  BY <1>1, <1>2
<1>4. ASSUME NEW k \in 1 .. Len(t)
      PROVE  u[k] = t[k]
  <2>1. k \in 1 .. n - (from + 1) + 1 /\ from + 1 + k - 1 = from + k
    BY <1>1
  <2> QED
    BY <1>2, <2>1
<1>5. u = t
  BY <1>2, <1>3, <1>4, SeqEqual
<1> QED
  BY <1>5 DEF u

\* A buffer that begins with a message: that message, or nothing yet.
LEMMA ParsingMessages ==
    ASSUME NEW f \in Framers, NEW v \in Byte, NEW payload \in Seq(Byte), Fits(1 + Len(payload)),
           NEW b, b = create_message(v, payload), Agree(f.buffer, b)
    PROVE  /\ Len(f.buffer) < Len(b) => ParseMessage(f) = Nothing(f)
           /\ Len(f.buffer) >= Len(b) =>
                 ParseMessage(f) = Parsed("message", v, payload, Drop(f, Len(b)))
<1> DEFINE s == f.buffer
           size == Pack(1 + Len(payload))
           msg_len == Unpack(SubSeq(s, 1, Width))
<1>1. s \in Seq(Byte) /\ Len(s) \in Nat /\ Len(payload) \in Nat /\ Width \in Nat \ {0}
  BY Numbers DEF Framers
<1>2. size \in Seq(Byte) /\ Len(size) = Width
  BY <1>1, Packed
<1>3. Unpack(size) = 1 + Len(payload)
  BY UnpackPack
<1>4. /\ b \in Seq(Byte) /\ Len(b) = Width + 1 + Len(payload)
      /\ \A k \in 1 .. Width : b[k] = size[k]
      /\ b[Width + 1] = v
      /\ \A k \in 1 .. Len(payload) : b[Width + 1 + k] = payload[k]
  <2>1. Frames(b, v, payload)
    BY MessageBytes
  <2> QED
    BY <2>1, Zenon DEF Frames
<1>5. \A k \in 1 .. Len(s) : k <= Len(b) => s[k] = b[k]
  BY DEF Agree
<1>6. CASE Len(s) < Width
  <2>1. Len(s) < Len(b)
    BY <1>1, <1>4, <1>6
  <2>2. ParseMessage(f) = Nothing(f)
    BY <1>6 DEF ParseMessage
  <2> HIDE DEF s
  <2> QED
    BY <1>1, <1>4, <2>1, <2>2 DEF s
<1>7. CASE ~(Len(s) < Width)
  <2> HIDE DEF s, size
  <2>1. SubSeq(s, 1, Width) = size
    <3>1. 0 + Len(size) <= Len(s) /\ 0 \in Nat
      BY <1>1, <1>2, <1>7
    <3>2. \A k \in 1 .. Len(size) : s[0 + k] = size[k]
      <4> SUFFICES ASSUME NEW k \in 1 .. Len(size) PROVE s[0 + k] = size[k]
        OBVIOUS
      <4>1. k \in 1 .. Len(s) /\ k <= Len(b) /\ k \in 1 .. Width /\ 0 + k = k
        BY <1>1, <1>2, <1>4, <1>7
      <4> QED
        BY <1>4, <1>5, <4>1
    <3>3. SubSeq(s, 0 + 1, 0 + Len(size)) = size
      BY <1>1, <1>2, <3>1, <3>2, PartIs
    <3>4. 0 + 1 = 1 /\ 0 + Len(size) = Width
      BY <1>1, <1>2
    <3> QED
      BY <3>3, <3>4
  <2>2. msg_len = 1 + Len(payload)
    BY <1>3, <2>1
  <2> HIDE DEF msg_len
  <2>3. CASE Len(s) < Len(b)
    <3>1. Len(s) < Width + msg_len
      BY <1>1, <1>4, <2>2, <2>3
    <3>2. ParseMessage(f) = Nothing(f)
      BY <3>1 DEF ParseMessage, msg_len, s
    <3> QED
      BY <1>1, <1>4, <2>3, <3>2 DEF s
  <2>4. CASE Len(s) >= Len(b)
    <3>1. ~(Len(s) < Width \/ Len(s) < Width + msg_len) /\ msg_len # 0 /\ Width + msg_len = Len(b)
      BY <1>1, <1>4, <1>7, <2>2, <2>4
    <3>2. s[Width + 1] = v
      BY <1>1, <1>4, <1>5, <2>4
    <3>3. SubSeq(s, Width + 2, Width + msg_len) = payload
      <4> DEFINE from == Width + 1
      <4>1. from \in Nat /\ from + Len(payload) <= Len(s) /\ from + 1 = Width + 2
            /\ from + Len(payload) = Width + msg_len
        BY <1>1, <1>4, <2>2, <2>4
      <4>2. \A k \in 1 .. Len(payload) : s[from + k] = payload[k]
        <5> SUFFICES ASSUME NEW k \in 1 .. Len(payload) PROVE s[from + k] = payload[k]
          OBVIOUS
        <5>1. from + k \in 1 .. Len(s) /\ from + k <= Len(b)
          BY <1>1, <1>4, <2>4
        <5> QED
          BY <1>4, <1>5, <5>1
      <4> HIDE DEF from
      <4>3. SubSeq(s, from + 1, from + Len(payload)) = payload
        BY <1>1, <4>1, <4>2, PartIs
      <4> QED
        BY <4>1, <4>3
    <3>4. ParseMessage(f) =
            Parsed("message", s[Width + 1], SubSeq(s, Width + 2, Width + msg_len),
                   Drop(f, Width + msg_len))
      BY <3>1 DEF ParseMessage, msg_len, s
    <3> QED
      BY <1>1, <1>4, <2>4, <3>1, <3>2, <3>3, <3>4 DEF s
  <2> QED
    BY <1>1, <1>4, <2>3, <2>4
<1> QED
  BY <1>6, <1>7

\* A buffer that begins with the handshake: the handshake, or nothing yet.
LEMMA ParsingHandshake ==
    ASSUME NEW f \in Framers, NEW b, b = create_handshake(MyId), Agree(f.buffer, b)
    PROVE  /\ Len(f.buffer) < Len(b) => ParseHandshake(f) = Nothing(f)
           /\ Len(f.buffer) >= Len(b) =>
                 ParseHandshake(f) = Parsed("handshake", MyId, <<>>,
                                            [Drop(f, Len(b)) EXCEPT !.handshake_done = TRUE])
<1> DEFINE s == f.buffer
           id == SubSeq(s, HandshakeLen - Width + 1, HandshakeLen)
<1>1. s \in Seq(Byte) /\ Len(s) \in Nat /\ Width \in Nat \ {0} /\ HandshakeLen \in Nat
      /\ MyId \in Nat /\ Header \in Seq(Byte) /\ Len(Header) \in Nat
      /\ Len(Header) <= HandshakeLen /\ HandshakeLen - Width \in Nat
  <2>1. s \in Seq(Byte) /\ Len(s) \in Nat
    BY DEF Framers
  <2>2. MyId \in Nat
    BY ConnectingAssumption DEF Fits
  <2> HIDE DEF s
  <2> QED
    BY <2>1, <2>2, Numbers
<1>2. /\ b \in Seq(Byte) /\ Len(b) = HandshakeLen
      /\ \A k \in 1 .. Len(Header) : b[k] = Header[k]
      /\ \A k \in 1 .. Width : b[HandshakeLen - Width + k] = Pack(MyId)[k]
  BY HandshakeBytes
<1>3. \A k \in 1 .. Len(s) : k <= Len(b) => s[k] = b[k]
  BY DEF Agree
<1>4. CASE Len(s) < Len(b)
  <2>1. Len(s) < HandshakeLen
    BY <1>2, <1>4
  <2>2. ParseHandshake(f) = Nothing(f)
    BY <2>1 DEF ParseHandshake
  <2> HIDE DEF s
  <2> QED
    BY <1>1, <1>2, <1>4, <2>2 DEF s
<1>5. CASE Len(s) >= Len(b)
  <2> HIDE DEF s
  <2>1. IsPrefix(Header, s)
    <3>1. 0 + Len(Header) <= Len(s) /\ 0 \in Nat
      BY <1>1, <1>2, <1>5
    <3>2. \A k \in 1 .. Len(Header) : s[0 + k] = Header[k]
      <4> SUFFICES ASSUME NEW k \in 1 .. Len(Header) PROVE s[0 + k] = Header[k]
        OBVIOUS
      <4>1. k \in 1 .. Len(s) /\ k <= Len(b) /\ 0 + k = k
        BY <1>1, <1>2, <1>5
      <4> QED
        BY <1>2, <1>3, <4>1
    <3>3. SubSeq(s, 0 + 1, 0 + Len(Header)) = Header
      BY <1>1, <3>1, <3>2, PartIs
    <3>4. SubSeq(Header, 1, Len(Header)) = Header
      BY <1>1, SubSeqFull
    <3>5. 0 + 1 = 1 /\ 0 + Len(Header) = Len(Header) /\ Len(Header) <= Len(s)
      BY <1>1, <3>1
    <3>6. SubSeq(s, 1, Len(Header)) = Header
      BY <3>3, <3>5
    <3> QED
      BY <3>4, <3>5, <3>6 DEF IsPrefix
  <2>2. id = Pack(MyId)
    <3> DEFINE from == HandshakeLen - Width
               packed == Pack(MyId)
    <3>1. packed \in Seq(Byte) /\ Len(packed) = Width
      BY <1>1, Packed
    <3> HIDE DEF packed
    <3>2. from \in Nat /\ from + Len(packed) <= Len(s) /\ from + Len(packed) = HandshakeLen
      BY <1>1, <1>2, <1>5, <3>1
    <3>3. \A k \in 1 .. Len(packed) : s[from + k] = packed[k]
      <4> SUFFICES ASSUME NEW k \in 1 .. Len(packed) PROVE s[from + k] = packed[k]
        OBVIOUS
      <4>1. from + k \in 1 .. Len(s) /\ from + k <= Len(b) /\ k \in 1 .. Width
        BY <1>1, <1>2, <1>5, <3>1
      <4> QED
        BY <1>2, <1>3, <4>1 DEF packed
    <3> HIDE DEF from
    <3>4. SubSeq(s, from + 1, from + Len(packed)) = packed
      BY <1>1, <3>1, <3>2, <3>3, PartIs
    <3> QED
      BY <3>2, <3>4 DEF from, packed
  <2>3. Unpack(id) = MyId
    <3>1. Unpack(Pack(MyId)) = MyId
      BY ConnectingAssumption, UnpackPack
    <3> QED
      BY <2>2, <3>1
  <2> HIDE DEF id
  <2>4. ~(Len(s) < HandshakeLen)
    BY <1>1, <1>2, <1>5
  <2>5. ParseHandshake(f) = Parsed("handshake", Unpack(id), <<>>,
                [Drop(f, HandshakeLen) EXCEPT !.handshake_done = TRUE])
    BY <2>1, <2>4, Zenon DEF ParseHandshake, id, s
  <2> QED
    BY <1>1, <1>2, <1>5, <2>3, <2>5 DEF s
<1> QED
  BY <1>1, <1>2, <1>4, <1>5

\* The framer that waits for a handshake takes nothing else for one.
LEMMA ParsingEarlyHave ==
    ASSUME NEW f \in Framers, NEW i \in Indices, Agree(f.buffer, create_message(HaveType, Pack(i)))
    PROVE  \/ ParseHandshake(f).kind = "none" /\ Len(f.buffer) < HandshakeLen
           \/ /\ ParseHandshake(f).kind = "error" /\ Len(f.buffer) >= HandshakeLen
              /\ ParseHandshake(f).framer = Drop(f, HandshakeLen)
<1> DEFINE s == f.buffer
           payload == Pack(i)
           b == create_message(HaveType, payload)
<1>1. s \in Seq(Byte) /\ Len(s) \in Nat /\ Width \in Nat \ {0} /\ HandshakeLen \in Nat
      /\ i \in Nat /\ Header \in Seq(Byte) /\ Len(Header) \in Nat
      /\ 1 + 2 * Width <= HandshakeLen /\ HaveType \in Byte
  BY Numbers, Sizes DEF Framers
<1>2. payload \in Seq(Byte) /\ Len(payload) = Width
  BY <1>1, Packed
<1>3. Agree(s, b)
  OBVIOUS
<1> HIDE DEF s, payload
<1>4. /\ Len(b) = Width + 1 + Len(payload)
      /\ \A k \in 1 .. Width : b[k] = Pack(1 + Len(payload))[k]
  <2>1. Frames(b, HaveType, payload)
    BY <1>1, <1>2, MessageBytes
  <2> QED
    BY <2>1, Zenon DEF Frames
<1>5. CASE Len(s) < HandshakeLen
  BY <1>5 DEF ParseHandshake, Nothing, Parsed, s
<1>6. CASE ~(Len(s) < HandshakeLen)
  <2>1. ~IsPrefix(Header, s)
    <3> SUFFICES ASSUME IsPrefix(Header, s) PROVE FALSE
      OBVIOUS
    <3>1. PICK k \in 1 .. Width : k <= Len(Header) /\ Header[k] # Pack(1 + Width)[k]
      BY ConnectingAssumption
    <3>2. b[k] = Pack(1 + Width)[k]
      BY <1>2, <1>4
    <3>3. s[k] = b[k]
      <4>1. k \in 1 .. Len(s) /\ k <= Len(b)
        BY <1>1, <1>2, <1>4, <1>6
      <4> QED
        BY <1>3, <4>1 DEF Agree
    <3>4. Header[k] = s[k]
      <4>1. /\ Len(Header) <= Len(s)
            /\ SubSeq(Header, 1, Len(Header)) = SubSeq(s, 1, Len(Header))
        BY DEF IsPrefix
      <4>2. k \in 1 .. Len(Header)
        BY <1>1, <3>1
      <4>3. SubSeq(Header, 1, Len(Header))[k] = Header[k]
        BY <1>1, <4>2
      <4>4. SubSeq(s, 1, Len(Header))[k] = s[k]
        BY <1>1, <4>1, <4>2
      <4> QED
        BY <4>1, <4>3, <4>4
    <3> QED
      BY <3>1, <3>2, <3>3, <3>4
  <2>2. ParseHandshake(f) = Parsed("error", 0, <<>>, Drop(f, HandshakeLen))
    BY <1>6, <2>1, Zenon DEF ParseHandshake, s
  <2> QED
    BY <1>1, <1>6, <2>2 DEF Parsed, s
<1> QED
  BY <1>5, <1>6

-----------------------------------------------------------------------------
(* The three kinds of messages of this peer. *)

Messages == [value : Nat, payload : Seq(Byte)]

Handshake == Message(MyId, <<>>)

Have(i) == Message(HaveType, Pack(i))

IsBitfield(m) == m.value = BitfieldType /\ m.payload \in Data

Sendable ==
    { m \in Messages : m = Handshake \/ IsBitfield(m) \/ \E i \in Indices : m = Have(i) }

\* What the bytes of a message are.
Encoded(m) ==
    IF m = Handshake THEN create_handshake(m.value) ELSE create_message(m.value, m.payload)

Mentions(m, i) == m = Have(i) \/ (IsBitfield(m) /\ has_piece(m.payload, i))

Lacks(m, i) == IsBitfield(m) /\ ~has_piece(m.payload, i)

\* A HAVE names one piece, and is no other message.
LEMMA HaveIs ==
    ASSUME NEW i \in Indices
    PROVE  /\ Have(i) \in Sendable /\ Have(i) # Handshake /\ ~IsBitfield(Have(i))
           /\ Have(i).value = HaveType /\ Have(i).payload = Pack(i)
           /\ Pack(i) \in Seq(Byte) /\ Len(Pack(i)) = Width /\ Unpack(Pack(i)) = i
           /\ \A j \in Indices : Have(i) = Have(j) => i = j
<1>1. \A j \in Indices : j \in Nat /\ Pack(j) \in Seq(Byte) /\ Len(Pack(j)) = Width
                         /\ Unpack(Pack(j)) = j
  BY Sizes, Packed, UnpackPack, ConnectingAssumption
<1>2. \A j : Have(j).value = HaveType /\ Have(j).payload = Pack(j)
  BY DEF Have, Message
<1>3. Handshake.payload = <<>> /\ Len(Pack(i)) # 0
  BY <1>1, Numbers DEF Handshake, Message
<1>4. Have(i) # Handshake
  BY <1>2, <1>3
<1>5. HaveType \in Nat /\ HaveType # BitfieldType
  BY DEF HaveType, BitfieldType
<1>6. Have(i) \in Messages
  BY <1>1, <1>5 DEF Messages, Have, Message
<1>7. \A j \in Indices : Have(i) = Have(j) => i = j
  BY <1>1, <1>2
<1> QED
  BY <1>1, <1>2, <1>4, <1>5, <1>6, <1>7 DEF Sendable, IsBitfield

LEMMA BitfieldIs ==
    ASSUME NEW x \in Data
    PROVE  /\ Message(BitfieldType, x) \in Sendable /\ IsBitfield(Message(BitfieldType, x))
           /\ Message(BitfieldType, x).payload = x
           /\ x \in Seq(Byte) /\ Len(x) = NumBytes
<1>1. x \in Seq(Byte) /\ Len(x) = NumBytes /\ BitfieldType \in Nat
  <2>1. NumBytes \in Nat /\ x \in [1 .. NumBytes -> Byte]
    BY Sizes DEF Data
  <2>2. x \in Seq(Byte) /\ Len(x) = NumBytes
    BY <2>1
  <2> QED
    BY <2>2 DEF BitfieldType
<1> QED
  BY <1>1 DEF Sendable, Messages, Message, IsBitfield

LEMMA HandshakeIs ==
    /\ Handshake \in Sendable /\ ~IsBitfield(Handshake)
    /\ Handshake.value = MyId /\ Handshake.payload = <<>>
    /\ \A m \in Sendable : m.payload = <<>> <=> m = Handshake
<1>1. Handshake.value = MyId /\ Handshake.payload = <<>> /\ MyId \in Nat
  BY ConnectingAssumption DEF Handshake, Message, Fits
<1>2. Handshake \in Messages
  BY <1>1 DEF Messages, Handshake, Message
<1>3. \A m : IsBitfield(m) => m.payload # <<>>
  <2>1. \A x \in Data : Len(x) = NumBytes
    BY BitfieldIs
  <2>2. \A x \in Data : x # <<>>
    BY <2>1, Sizes, EmptySeq
  <2> QED
    BY <2>2 DEF IsBitfield
<1>4. \A i \in Indices : Have(i).payload # <<>>
  <2>1. \A i \in Indices : Have(i).payload = Pack(i) /\ Len(Pack(i)) # 0
    BY HaveIs, Numbers
  <2> QED
    BY <2>1
<1> QED
  BY <1>1, <1>2, <1>3, <1>4 DEF Sendable

\* There are three kinds of messages, and all have some bytes.
LEMMA SendableIs ==
    ASSUME NEW m \in Sendable
    PROVE  /\ m = Handshake \/ IsBitfield(m) \/ \E i \in Indices : m = Have(i)
           /\ m \in Messages /\ m = Message(m.value, m.payload)
           /\ Encoded(m) \in Seq(Byte) /\ Len(Encoded(m)) \in Nat \ {0} /\ Encoded(m) # <<>>
           /\ m = Handshake =>
                 Encoded(m) = create_handshake(MyId) /\ Len(Encoded(m)) = HandshakeLen
           /\ m # Handshake =>
                 /\ m.value \in Byte /\ m.payload \in Seq(Byte) /\ Fits(1 + Len(m.payload))
                 /\ Encoded(m) = create_message(m.value, m.payload)
                 /\ Len(Encoded(m)) = Width + 1 + Len(m.payload)
<1>1. /\ m = Handshake \/ IsBitfield(m) \/ \E i \in Indices : m = Have(i)
      /\ m \in Messages /\ m = Message(m.value, m.payload)
  BY DEF Sendable, Messages, Message
<1>2. CASE m = Handshake
  <2>1. Encoded(m) = create_handshake(MyId)
    BY <1>2, HandshakeIs DEF Encoded
  <2>2. Encoded(m) \in Seq(Byte) /\ Len(Encoded(m)) = HandshakeLen
    BY <2>1, HandshakeBytes
  <2>3. Len(Encoded(m)) \in Nat \ {0}
    BY <2>2, Numbers
  <2> QED
    BY <1>1, <1>2, <2>1, <2>2, <2>3, EmptySeq
<1>3. CASE m # Handshake
  <2>1. m.value \in Byte /\ m.payload \in Seq(Byte) /\ Fits(1 + Len(m.payload))
    <3>1. CASE IsBitfield(m)
      <4>1. m.value = BitfieldType /\ m.payload \in Seq(Byte) /\ Len(m.payload) = NumBytes
        BY <3>1, BitfieldIs DEF IsBitfield
      <4> QED
        BY <4>1, Numbers, ConnectingAssumption
    <3>2. CASE \E i \in Indices : m = Have(i)
      <4>1. m.value = HaveType /\ m.payload \in Seq(Byte) /\ Len(m.payload) = Width
        BY <3>2, HaveIs
      <4> QED
        BY <4>1, Numbers, ConnectingAssumption
    <3> QED
      BY <1>1, <1>3, <3>1, <3>2
  <2>2. Encoded(m) = create_message(m.value, m.payload)
    BY <1>3 DEF Encoded
  <2>3. Frames(Encoded(m), m.value, m.payload)
    BY <2>1, <2>2, MessageBytes
  <2>4. Encoded(m) \in Seq(Byte) /\ Len(Encoded(m)) = Width + 1 + Len(m.payload)
    BY <2>3 DEF Frames
  <2>5. Len(Encoded(m)) \in Nat \ {0}
    <3>1. Len(m.payload) \in Nat /\ Width \in Nat \ {0}
      BY <2>1, Numbers, LenProperties
    <3> DEFINE l == Len(Encoded(m))
               p == Len(m.payload)
    <3>2. l = Width + 1 + p /\ p \in Nat /\ Width \in Nat \ {0}
      BY <2>4, <3>1
    <3> HIDE DEF l, p
    <3>3. l \in Nat \ {0}
      BY <3>2
    <3> QED
      BY <3>3 DEF l
  <2> QED
    BY <1>1, <1>3, <2>1, <2>2, <2>4, <2>5, EmptySeq
<1> QED
  BY <1>2, <1>3

\* What each kind says of a piece.
LEMMA MentionsOne ==
    ASSUME NEW i \in Indices
    PROVE  /\ ~Mentions(Handshake, i) /\ ~Lacks(Handshake, i)
           /\ \A j \in Indices : (Mentions(Have(j), i) <=> j = i) /\ ~Lacks(Have(j), i)
           /\ \A m : IsBitfield(m) =>
                 (Mentions(m, i) <=> has_piece(m.payload, i)) /\ (Lacks(m, i) <=> ~has_piece(m.payload, i))
<1>1. ~IsBitfield(Handshake) /\ Handshake # Have(i)
  BY HandshakeIs, HaveIs
<1>2. \A j \in Indices : ~IsBitfield(Have(j)) /\ (Have(j) = Have(i) <=> j = i)
  BY HaveIs
<1>3. \A m : IsBitfield(m) => m # Have(i)
  BY HaveIs
<1> QED
  BY <1>1, <1>2, <1>3 DEF Mentions, Lacks

-----------------------------------------------------------------------------
(* Sequences of bytes. *)

\* A chunk that is sent, and the rest of the bytes.
LEMMA RejoinedAfter ==
    ASSUME NEW s \in Seq(Byte), NEW t \in Seq(Byte), NEW n \in 1 .. Len(t)
    PROVE  /\ s \o t = (s \o SubSeq(t, 1, n)) \o SubSeq(t, n + 1, Len(t))
           /\ SubSeq(t, 1, n) \in Seq(Byte) /\ SubSeq(t, n + 1, Len(t)) \in Seq(Byte)
           /\ n = Len(t) => SubSeq(t, n + 1, Len(t)) = <<>>
           /\ n # Len(t) => SubSeq(t, n + 1, Len(t)) # <<>>
<1> DEFINE u == SubSeq(t, 1, n)
           v == SubSeq(t, n + 1, Len(t))
<1>1. Len(t) \in Nat /\ \A k \in 1 .. Len(t) : t[k] \in Byte
  OBVIOUS
<1>2. u \in Seq(Byte)
  <2>1. 1 \in Int /\ n \in Int /\ \A k \in 1 .. n : t[k] \in Byte
    BY <1>1
  <2> QED
    BY <2>1, SubSeqProperties
<1>3. v \in Seq(Byte) /\ Len(v) = IF n + 1 <= Len(t) THEN Len(t) - (n + 1) + 1 ELSE 0
  <2>1. n + 1 \in Int /\ Len(t) \in Int /\ \A k \in n + 1 .. Len(t) : t[k] \in Byte
    BY <1>1
  <2> QED
    BY <2>1, SubSeqProperties
<1>4. u \o v = t
  <2>1. 1 \in 1 .. Len(t) + 1 /\ n \in 1 - 1 .. Len(t) /\ Len(t) \in n .. Len(t)
    BY <1>1
  <2>2. SubSeq(t, 1, n) \o SubSeq(t, n + 1, Len(t)) = SubSeq(t, 1, Len(t))
    BY <2>1, ConcatAdjacentSubSeq
  <2>3. SubSeq(t, 1, Len(t)) = t
    BY SubSeqFull
  <2> QED
    BY <2>2, <2>3
<1>5. (n = Len(t) => v = <<>>) /\ (n # Len(t) => v # <<>>)
  <2> HIDE DEF v
  <2>1. n = Len(t) => Len(v) = 0
    BY <1>1, <1>3
  <2>2. n # Len(t) => Len(v) # 0
    BY <1>1, <1>3
  <2> QED
    BY <1>3, <2>1, <2>2, EmptySeq
<1> HIDE DEF u, v
<1>6. (s \o u) \o v = s \o t
  <2>1. u \in Seq(Byte) /\ v \in Seq(Byte)
    BY <1>2, <1>3
  <2>2. (s \o u) \o v = s \o (u \o v)
    BY <2>1, ConcatAssociative, SMTT(30)
  <2> QED
    BY <1>4, <2>2
<1> QED
  BY <1>2, <1>3, <1>5, <1>6 DEF u, v

\* Dropping the front of a buffer, whatever follows it.
LEMMA DroppedFirst ==
    ASSUME NEW s \in Seq(Byte), NEW t \in Seq(Byte), NEW n \in 0 .. Len(s)
    PROVE  /\ SubSeq(s, n + 1, Len(s)) \in Seq(Byte)
           /\ SubSeq(s, n + 1, Len(s)) \o t = SubSeq(s \o t, n + 1, Len(s \o t))
<1> DEFINE u == SubSeq(s, n + 1, Len(s))
           w == s \o t
           v == SubSeq(w, n + 1, Len(w))
           z == u \o t
<1>1. Len(s) \in Nat /\ Len(t) \in Nat
  OBVIOUS
<1>2. /\ u \in Seq(Byte) /\ Len(u) = Len(s) - n
      /\ \A k \in 1 .. Len(s) - n : u[k] = s[n + k]
  <2>1. n + 1 \in Int /\ Len(s) \in Int /\ \A k \in n + 1 .. Len(s) : s[k] \in Byte
    BY <1>1
  <2>2. /\ u \in Seq(Byte) /\ Len(u) = (IF n + 1 <= Len(s) THEN Len(s) - (n + 1) + 1 ELSE 0)
        /\ \A k \in 1 .. Len(s) - (n + 1) + 1 : u[k] = s[n + 1 + k - 1]
    BY <2>1, SubSeqProperties
  <2> HIDE DEF u
  <2>3. Len(s) - (n + 1) + 1 = Len(s) - n /\ Len(u) = Len(s) - n
    BY <1>1, <2>2
  <2>4. ASSUME NEW k \in 1 .. Len(s) - n PROVE u[k] = s[n + k]
    <3>1. n + 1 + k - 1 = n + k /\ k \in 1 .. Len(s) - (n + 1) + 1
      BY <1>1
    <3> QED
      BY <2>2, <3>1
  <2> QED
    BY <2>2, <2>3, <2>4
<1>3. /\ w \in Seq(Byte) /\ Len(w) = Len(s) + Len(t)
      /\ \A k \in 1 .. Len(s) + Len(t) : w[k] = IF k <= Len(s) THEN s[k] ELSE t[k - Len(s)]
  BY ConcatProperties
<1> HIDE DEF u, w
<1>4. /\ v \in Seq(Byte) /\ Len(v) = Len(w) - n
      /\ \A k \in 1 .. Len(w) - n : v[k] = w[n + k]
  <2>1. n + 1 \in Int /\ Len(w) \in Int /\ \A k \in n + 1 .. Len(w) : w[k] \in Byte
    BY <1>1, <1>3
  <2>2. /\ v \in Seq(Byte) /\ Len(v) = (IF n + 1 <= Len(w) THEN Len(w) - (n + 1) + 1 ELSE 0)
        /\ \A k \in 1 .. Len(w) - (n + 1) + 1 : v[k] = w[n + 1 + k - 1]
    BY <2>1, SubSeqProperties
  <2> HIDE DEF v
  <2>3. Len(w) - (n + 1) + 1 = Len(w) - n /\ Len(v) = Len(w) - n
    BY <1>1, <1>3, <2>2
  <2>4. ASSUME NEW k \in 1 .. Len(w) - n PROVE v[k] = w[n + k]
    <3>1. n + 1 + k - 1 = n + k /\ k \in 1 .. Len(w) - (n + 1) + 1
      BY <1>1, <1>3
    <3> QED
      BY <2>2, <3>1
  <2> QED
    BY <2>2, <2>3, <2>4
<1>5. /\ z \in Seq(Byte) /\ Len(z) = Len(u) + Len(t)
      /\ \A k \in 1 .. Len(u) + Len(t) : z[k] = IF k <= Len(u) THEN u[k] ELSE t[k - Len(u)]
  BY <1>2, ConcatProperties
<1> HIDE DEF v, z
<1>6. Len(z) = Len(v)
  BY <1>1, <1>2, <1>3, <1>4, <1>5
<1>7. ASSUME NEW k \in 1 .. Len(z)
      PROVE  z[k] = v[k]
  <2>1. k \in 1 .. Len(u) + Len(t) /\ k \in 1 .. Len(w) - n /\ n + k \in 1 .. Len(s) + Len(t)
    BY <1>1, <1>2, <1>3, <1>5
  <2>2. v[k] = w[n + k]
    BY <1>4, <2>1
  <2>3. CASE k <= Len(u)
    <3>1. n + k <= Len(s) /\ k \in 1 .. Len(s) - n
      BY <1>1, <1>2, <2>1, <2>3
    <3> QED
      BY <1>2, <1>3, <1>5, <2>1, <2>2, <2>3, <3>1
  <2>4. CASE ~(k <= Len(u))
    <3>1. ~(n + k <= Len(s)) /\ (n + k) - Len(s) = k - Len(u)
      BY <1>1, <1>2, <2>1, <2>4
    <3> QED
      BY <1>3, <1>5, <2>1, <2>2, <2>4, <3>1
  <2> QED
    BY <2>3, <2>4
<1>8. z = v
  BY <1>4, <1>5, <1>6, <1>7, SeqEqual
<1> QED
  BY <1>2, <1>8 DEF u, v, w, z

-----------------------------------------------------------------------------
(* Messages one after the other. *)

\* The bytes are those of the messages after the first ones; message k ends
\* at cut[k].
Cuts(bytes, from, msgs, cut) ==
    /\ cut \in [from .. Len(msgs) -> Nat]
    /\ cut[from] = 0 /\ cut[Len(msgs)] = Len(bytes)
    /\ \A k \in from + 1 .. Len(msgs) :
          /\ cut[k - 1] + Len(Encoded(msgs[k])) = cut[k]
          /\ cut[k] <= Len(bytes)
          /\ \A j \in 1 .. Len(Encoded(msgs[k])) : bytes[cut[k - 1] + j] = Encoded(msgs[k])[j]

Framed(bytes, from, msgs) == \E cut : Cuts(bytes, from, msgs, cut)

\* If every message was read, no byte is left.
LEMMA FramedNone ==
    ASSUME NEW msgs, NEW bytes \in Seq(Byte), Framed(bytes, Len(msgs), msgs)
    PROVE  bytes = <<>>
<1>1. Len(bytes) = 0
  BY DEF Framed, Cuts
<1> QED
  BY <1>1, EmptySeq

LEMMA FramedStart == Framed(<<>>, 0, <<>>)
<1> DEFINE cut == [k \in 0 .. 0 |-> 0]
<1>1. Len(<<>>) = 0
  OBVIOUS
<1>2. Cuts(<<>>, 0, <<>>, cut)
  BY <1>1 DEF Cuts
<1> QED
  BY <1>2 DEF Framed

\* No message is longer than all.
LEMMA FramedLen ==
    ASSUME NEW msgs \in Seq(Sendable), NEW bytes \in Seq(Byte), NEW from \in 0 .. Len(msgs),
           Framed(bytes, from, msgs), NEW k \in from + 1 .. Len(msgs)
    PROVE  Len(Encoded(msgs[k])) <= Len(bytes)
<1>1. PICK cut : Cuts(bytes, from, msgs, cut)
  BY DEF Framed
<1>2. Len(msgs) \in Nat /\ Len(bytes) \in Nat
  OBVIOUS
<1>3. k \in Nat /\ k - 1 \in from .. Len(msgs) /\ k \in 1 .. Len(msgs)
  BY <1>2
<1> DEFINE n == Len(Encoded(msgs[k]))
<1>4. n \in Nat
  <2>1. msgs[k] \in Sendable
    BY <1>3
  <2> QED
    BY <2>1, SendableIs
<1> HIDE DEF n
<1>5. cut[k - 1] \in Nat /\ cut[k - 1] + n = cut[k] /\ cut[k] <= Len(bytes)
  BY <1>1, <1>3 DEF Cuts, n
<1> QED
  BY <1>2, <1>4, <1>5 DEF n

\* The bytes begin with the first message, and go on with the others.
LEMMA FramedFirst ==
    ASSUME NEW msgs \in Seq(Sendable), NEW bytes \in Seq(Byte), NEW from \in 0 .. Len(msgs) - 1,
           Framed(bytes, from, msgs), NEW b, b = Encoded(msgs[from + 1])
    PROVE  /\ Len(b) <= Len(bytes)
           /\ \A j \in 1 .. Len(b) : bytes[j] = b[j]
           /\ Framed(SubSeq(bytes, Len(b) + 1, Len(bytes)), from + 1, msgs)
<1>1. PICK cut : Cuts(bytes, from, msgs, cut)
  BY DEF Framed
<1> DEFINE N == Len(msgs)
           n == Len(b)
           rest == SubSeq(bytes, n + 1, Len(bytes))
<1>2. N \in Nat /\ from \in Nat /\ from + 1 \in 1 .. N /\ from + 1 \in from + 1 .. N
      /\ (from + 1) - 1 = from /\ Len(bytes) \in Nat
  OBVIOUS
<1>3. n \in Nat
  <2>1. msgs[from + 1] \in Sendable
    BY <1>2
  <2> QED
    BY <2>1, SendableIs
<1>4. cut[from + 1] = n /\ n <= Len(bytes) /\ \A j \in 1 .. n : bytes[j] = b[j]
  <2>1. /\ cut[from] + n = cut[from + 1] /\ cut[from + 1] <= Len(bytes) /\ cut[from] = 0
        /\ \A j \in 1 .. n : bytes[cut[from] + j] = b[j]
    BY <1>1, <1>2 DEF Cuts
  <2> HIDE DEF n
  <2>2. cut[from + 1] = n /\ \A j \in 1 .. n : 0 + j = j
    BY <1>3, <2>1
  <2> QED
    BY <2>1, <2>2
<1> HIDE DEF N, n
<1>5. \A k \in from + 1 .. N : cut[k] \in Nat /\ n <= cut[k] /\ cut[k] <= Len(bytes)
  <2> DEFINE T == { d \in Nat : from + 1 + d <= N =>
                        n <= cut[from + 1 + d] /\ cut[from + 1 + d] <= Len(bytes) }
  <2>1. 0 \in T
    BY <1>2, <1>3, <1>4
  <2>2. ASSUME NEW d \in Nat, d \in T
        PROVE  d + 1 \in T
    <3> DEFINE k == from + 1 + (d + 1)
    <3> SUFFICES ASSUME k <= N PROVE n <= cut[k] /\ cut[k] <= Len(bytes)
      OBVIOUS
    <3>1. k \in from + 1 .. N /\ k - 1 = from + 1 + d /\ k - 1 <= N /\ k \in 1 .. N
          /\ k - 1 \in from .. N /\ k \in from .. N
      BY <1>2
    <3> DEFINE l == Len(Encoded(msgs[k]))
    <3>2. l \in Nat
      <4>1. msgs[k] \in Sendable
        BY <3>1 DEF N
      <4> QED
        BY <4>1, SendableIs
    <3>3. n <= cut[k - 1]
      BY <2>2, <3>1
    <3> HIDE DEF k, l
    <3>4. cut[k - 1] + l = cut[k] /\ cut[k - 1] \in Nat /\ cut[k] <= Len(bytes)
      BY <1>1, <3>1 DEF Cuts, N, l
    <3> QED
      BY <1>3, <3>2, <3>3, <3>4
  <2> HIDE DEF T
  <2>3. \A d \in Nat : d \in T
    BY <2>1, <2>2, NatClosed
  <2> SUFFICES ASSUME NEW k \in from + 1 .. N
               PROVE  cut[k] \in Nat /\ n <= cut[k] /\ cut[k] <= Len(bytes)
    OBVIOUS
  <2>4. k - (from + 1) \in Nat /\ from + 1 + (k - (from + 1)) = k /\ k <= N /\ k \in from .. N
    BY <1>2
  <2>5. k - (from + 1) \in T
    BY <2>3, <2>4
  <2>6. cut[k] \in Nat
    BY <1>1, <2>4 DEF Cuts, N
  <2> QED
    BY <2>4, <2>5, <2>6 DEF T
<1>6. /\ rest \in Seq(Byte) /\ Len(rest) = Len(bytes) - n
      /\ \A j \in 1 .. Len(bytes) - n : rest[j] = bytes[n + j]
  <2>1. n + 1 \in Int /\ Len(bytes) \in Int /\ \A k \in n + 1 .. Len(bytes) : bytes[k] \in Byte
    BY <1>2, <1>3
  <2>2. /\ rest \in Seq(Byte)
        /\ Len(rest) = (IF n + 1 <= Len(bytes) THEN Len(bytes) - (n + 1) + 1 ELSE 0)
        /\ \A k \in 1 .. Len(bytes) - (n + 1) + 1 : rest[k] = bytes[n + 1 + k - 1]
    BY <2>1, SubSeqProperties
  <2> HIDE DEF rest
  <2>3. Len(bytes) - (n + 1) + 1 = Len(bytes) - n /\ Len(rest) = Len(bytes) - n
    BY <1>2, <1>3, <1>4, <2>2
  <2>4. ASSUME NEW k \in 1 .. Len(bytes) - n PROVE rest[k] = bytes[n + k]
    <3>1. n + 1 + k - 1 = n + k /\ k \in 1 .. Len(bytes) - (n + 1) + 1
      BY <1>2, <1>3
    <3> QED
      BY <2>2, <3>1
  <2> QED
    BY <2>2, <2>3, <2>4
<1> HIDE DEF rest
<1> DEFINE next == [k \in from + 1 .. N |-> cut[k] - n]
<1>7. next \in [from + 1 .. N -> Nat] /\ \A k \in from + 1 .. N : next[k] = cut[k] - n
  BY <1>3, <1>5
<1> HIDE DEF next
<1>8. next[from + 1] = 0 /\ next[N] = Len(rest)
  <2>1. N \in from + 1 .. N /\ cut[N] = Len(bytes)
    BY <1>1, <1>2 DEF Cuts, N
  <2>2. next[from + 1] = n - n /\ next[N] = Len(bytes) - n
    BY <1>2, <1>4, <1>7, <2>1
  <2> QED
    BY <1>3, <1>6, <2>2
<1>9. ASSUME NEW k \in (from + 1) + 1 .. N
      PROVE  /\ next[k - 1] + Len(Encoded(msgs[k])) = next[k]
             /\ next[k] <= Len(rest)
             /\ \A j \in 1 .. Len(Encoded(msgs[k])) :
                   rest[next[k - 1] + j] = Encoded(msgs[k])[j]
  <2> DEFINE e == Encoded(msgs[k])
             l == Len(e)
  <2>1. k \in from + 1 .. N /\ k - 1 \in from + 1 .. N /\ k \in 1 .. N
    BY <1>2
  <2>2. l \in Nat
    <3>1. msgs[k] \in Sendable
      BY <2>1 DEF N
    <3> QED
      BY <3>1, SendableIs
  <2>3. /\ cut[k - 1] + l = cut[k]
        /\ \A j \in 1 .. l : bytes[cut[k - 1] + j] = e[j]
    BY <1>1, <2>1 DEF Cuts, N
  <2> HIDE DEF e, l
  <2>4. /\ cut[k - 1] \in Nat /\ n <= cut[k - 1] /\ next[k - 1] = cut[k - 1] - n
        /\ cut[k] \in Nat /\ cut[k] <= Len(bytes) /\ next[k] = cut[k] - n
    BY <1>5, <1>7, <2>1
  <2> DEFINE a == cut[k - 1]
             c == cut[k]
  <2>7. a \in Nat /\ n <= a /\ c \in Nat /\ a + l = c /\ next[k - 1] = a - n /\ next[k] = c - n
        /\ c <= Len(bytes)
    BY <2>3, <2>4
  <2> HIDE DEF a, c
  <2>5. next[k - 1] + l = next[k] /\ next[k] <= Len(rest)
    <3>1. Len(rest) = Len(bytes) - n
      BY <1>6
    <3> QED
      BY <1>2, <1>3, <2>2, <2>7, <3>1
  <2>6. ASSUME NEW j \in 1 .. l
        PROVE  rest[next[k - 1] + j] = e[j]
    <3>1. next[k - 1] + j \in 1 .. Len(bytes) - n /\ n + (next[k - 1] + j) = a + j
      BY <1>2, <1>3, <2>2, <2>7
    <3>2. bytes[a + j] = e[j]
      BY <2>3 DEF a
    <3> QED
      BY <1>6, <3>1, <3>2
  <2> QED
    BY <2>5, <2>6 DEF l, e
<1>10. Framed(rest, from + 1, msgs)
  <2>1. Cuts(rest, from + 1, msgs, next)
    BY <1>7, <1>8, <1>9 DEF Cuts, N
  <2> QED
    BY <2>1 DEF Framed
<1> QED
  BY <1>4, <1>10 DEF n, rest

\* A message that is appended, with its bytes.
LEMMA FramedAppend ==
    ASSUME NEW msgs \in Seq(Sendable), NEW bytes \in Seq(Byte), NEW from \in 0 .. Len(msgs),
           Framed(bytes, from, msgs), NEW m \in Sendable
    PROVE  Framed(bytes \o Encoded(m), from, Append(msgs, m))
<1>1. PICK cut : Cuts(bytes, from, msgs, cut)
  BY DEF Framed
<1> DEFINE N == Len(msgs)
           b == Encoded(m)
           more == bytes \o b
           all == Append(msgs, m)
<1>2. N \in Nat /\ Len(bytes) \in Nat /\ b \in Seq(Byte) /\ Len(b) \in Nat
  BY SendableIs
<1>3. /\ more \in Seq(Byte) /\ Len(more) = Len(bytes) + Len(b)
      /\ \A k \in 1 .. Len(bytes) + Len(b) :
            more[k] = IF k <= Len(bytes) THEN bytes[k] ELSE b[k - Len(bytes)]
  <2> HIDE DEF b
  <2> QED
    BY <1>2, ConcatProperties
<1>4. Len(all) = N + 1 /\ all[N + 1] = m /\ \A k \in 1 .. N : all[k] = msgs[k]
  BY AppendProperties
<1> HIDE DEF more, all
<1>5. /\ \A k \in from .. N : cut[k] \in Nat
      /\ cut[from] = 0 /\ cut[N] = Len(bytes)
      /\ \A k \in from + 1 .. N :
            /\ cut[k - 1] + Len(Encoded(msgs[k])) = cut[k]
            /\ cut[k] <= Len(bytes)
            /\ \A j \in 1 .. Len(Encoded(msgs[k])) :
                  bytes[cut[k - 1] + j] = Encoded(msgs[k])[j]
  BY <1>1 DEF Cuts
<1> HIDE DEF N, b
<1> DEFINE next == [k \in from .. N + 1 |-> IF k = N + 1 THEN Len(bytes) + Len(b) ELSE cut[k]]
<1>6. /\ \A k \in from .. N : next[k] = cut[k] /\ k \in from .. N + 1
      /\ next[N + 1] = Len(bytes) + Len(b)
      /\ next \in [from .. N + 1 -> Nat]
  <2>1. \A k \in from .. N : k # N + 1 /\ k \in from .. N + 1
    BY <1>2
  <2>2. N + 1 \in from .. N + 1 /\ from \in from .. N /\ N \in from .. N
    BY <1>2 DEF N
  <2>3. \A k \in from .. N + 1 : k # N + 1 => k \in from .. N
    BY <1>2
  <2>4. Len(bytes) + Len(b) \in Nat
    BY <1>2
  <2> QED
    BY <1>5, <2>1, <2>2, <2>3, <2>4
<1> HIDE DEF next
<1>7. ASSUME NEW k \in from + 1 .. N + 1
      PROVE  /\ next[k - 1] + Len(Encoded(all[k])) = next[k]
             /\ next[k] <= Len(more)
             /\ \A j \in 1 .. Len(Encoded(all[k])) :
                   more[next[k - 1] + j] = Encoded(all[k])[j]
  <2>1. CASE k = N + 1
    <3>1. all[k] = m /\ Encoded(all[k]) = b /\ k - 1 = N /\ N \in from .. N
      BY <1>2, <1>4, <2>1 DEF b, N
    <3>2. next[k - 1] = Len(bytes) /\ next[k] = Len(bytes) + Len(b)
      BY <1>5, <1>6, <2>1, <3>1
    <3>3. ASSUME NEW j \in 1 .. Len(b)
          PROVE  more[Len(bytes) + j] = b[j]
      <4> DEFINE i == Len(bytes) + j
      <4>1. i \in 1 .. Len(bytes) + Len(b) /\ ~(i <= Len(bytes)) /\ i - Len(bytes) = j
        BY <1>2
      <4> HIDE DEF i
      <4>2. more[i] = b[j]
        BY <1>3, <4>1
      <4> QED
        BY <4>2 DEF i
    <3>4. next[k] <= Len(more)
      BY <1>2, <1>3, <3>2
    <3> QED
      BY <3>1, <3>2, <3>3, <3>4
  <2>2. CASE k # N + 1
    <3> DEFINE e == Encoded(msgs[k])
               l == Len(e)
    <3>1. k \in from + 1 .. N /\ k \in 1 .. N /\ k \in from .. N /\ k - 1 \in from .. N
      BY <1>2, <2>2
    <3>2. all[k] = msgs[k] /\ Encoded(all[k]) = e
      BY <1>4, <3>1
    <3>3. l \in Nat
      <4>1. msgs[k] \in Sendable
        BY <3>1 DEF N
      <4> QED
        BY <4>1, SendableIs
    <3>4. next[k - 1] = cut[k - 1] /\ next[k] = cut[k] /\ cut[k - 1] \in Nat
      BY <1>5, <1>6, <3>1
    <3>5. /\ cut[k - 1] + l = cut[k] /\ cut[k] <= Len(bytes)
          /\ \A j \in 1 .. l : bytes[cut[k - 1] + j] = e[j]
      BY <1>5, <3>1
    <3> HIDE DEF e, l
    <3>6. ASSUME NEW j \in 1 .. l
          PROVE  more[next[k - 1] + j] = e[j]
      <4> DEFINE i == cut[k - 1] + j
      <4>1. i \in 1 .. Len(bytes) + Len(b) /\ i <= Len(bytes)
        BY <1>2, <3>3, <3>4, <3>5, SMTT(30)
      <4>2. bytes[i] = e[j]
        BY <3>5
      <4> HIDE DEF i
      <4>3. more[i] = e[j]
        BY <1>3, <4>1, <4>2
      <4> QED
        BY <3>4, <4>3 DEF i
    <3>7. next[k] <= Len(more)
      BY <1>2, <1>3, <3>3, <3>4, <3>5
    <3> QED
      BY <3>2, <3>4, <3>5, <3>6, <3>7 DEF l
  <2> QED
    BY <2>1, <2>2
<1>8. next[from] = 0 /\ next[N + 1] = Len(more)
  <2>1. from \in from .. N
    BY <1>2 DEF N
  <2> QED
    BY <1>3, <1>5, <1>6, <2>1
<1>9. Cuts(more, from, all, next)
  BY <1>4, <1>6, <1>7, <1>8 DEF Cuts
<1> QED
  BY <1>9 DEF Framed, more, all, b

-----------------------------------------------------------------------------
(* The inductive invariant. *)

Steps == {"wait", "register", "broadcast", "count", "snapshot", "send", "done"}

ThreadStates == [pc : Steps, piece : Indices, message : Messages, bytes : Seq(Byte)]

Typing ==
    /\ outgoing \in BOOLEAN
    /\ key \in {"none", "temporary", "id"}
    /\ my_bitfield \in Data
    /\ thread \in [Threads -> ThreadStates]
    /\ lock \in Threads \cup {"nobody"}
    /\ stream \in Seq(Byte)
    /\ sent \in Seq(Sendable)
    /\ framer \in Framers
    /\ got \in Seq(Sendable)
    /\ view \in Data
    /\ open \in BOOLEAN

\* Where the threads are.
Control ==
    /\ thread["connector"].pc \in {"register", "send", "done"}
    /\ thread["receiver"].pc \in {"wait", "count", "snapshot", "send", "done"}
    /\ \A d \in Downloader : thread[d].pc \in {"wait", "broadcast", "send", "done"}
    /\ At("connector", "register") <=> key = "none"
    /\ outgoing => key # "temporary"
    /\ ~At("receiver", "wait") => At("connector", "done") /\ key = "id"
    /\ key = "id" /\ ~outgoing => ~At("receiver", "wait")
    /\ \A d \in Downloader : At(d, "send") => key = "id"
    /\ lock # "nobody" => At(lock, "send")

\* What the threads are about to send.
Speech ==
    /\ \A t \in Threads : At(t, "send") =>
          /\ thread[t].message \in Sendable
          /\ thread[t].bytes # <<>>
          /\ lock # t => thread[t].bytes = Encoded(thread[t].message)
          /\ \A i \in Indices : Mentions(thread[t].message, i) => has_piece(my_bitfield, i)
    /\ At("connector", "send") => thread["connector"].message = Handshake
    /\ At("receiver", "send") => IsBitfield(thread["receiver"].message)
    /\ \A d \in Downloader :
          /\ ~At(d, "wait") => has_piece(my_bitfield, thread[d].piece)
          /\ At(d, "send") => thread[d].message = Have(thread[d].piece)

\* What was sent does not name a piece that we have not got.
Kinds ==
    \A k \in 1 .. Len(sent), i \in Indices : Mentions(sent[k], i) => has_piece(my_bitfield, i)

\* Nobody sends what was sent already.
Once ==
    /\ \A k \in 1 .. Len(sent) : sent[k] = Handshake => At("connector", "done")
    /\ \A k \in 1 .. Len(sent) : IsBitfield(sent[k]) => At("receiver", "done")
    /\ \A k \in 1 .. Len(sent), d \in Downloader :
          sent[k] = Have(thread[d].piece) => thread[d].pc \in {"wait", "done"}
    /\ \A d, e \in Downloader :
          ~At(d, "wait") /\ ~At(e, "wait") /\ thread[d].piece = thread[e].piece => d = e

\* There is one handshake, one bitfield and one HAVE of a piece.
Single ==
    \A k, l \in 1 .. Len(sent) :
        /\ sent[k] = Handshake /\ sent[l] = Handshake => k = l
        /\ IsBitfield(sent[k]) /\ IsBitfield(sent[l]) => k = l
        /\ \A i \in Indices : sent[k] = Have(i) /\ sent[l] = Have(i) => k = l

\* What was sent and what is being sent.
Due == IF lock = "nobody" THEN sent ELSE Append(sent, thread[lock].message)

\* The bytes that are not parsed, and those that the owner of the lock has left.
Line ==
    (framer.buffer \o stream) \o (IF lock = "nobody" THEN <<>> ELSE thread[lock].bytes)

\* A HAVE comes before the handshake only on connections that we opened, and
\* the bitfield never.
First ==
    /\ open /\ At("connector", "done") => \E k \in 1 .. Len(sent) : sent[k] = Handshake
    /\ \A i \in Indices : Due # <<>> /\ Due[1] = Have(i) => outgoing
    /\ Due # <<>> => ~IsBitfield(Due[1])

\* The remote peer has read the first messages, and finds the others in the
\* bytes that are left.
Reading ==
    /\ Len(got) <= Len(sent)
    /\ \A k \in 1 .. Len(got) : got[k] = sent[k]
    /\ framer.handshake_done <=> got # <<>>
    /\ got # <<>> => sent[1] = Handshake
    /\ open => Framed(Line, Len(got), Due)

\* What it holds of our bitfield is what it read last of each piece.
Follows ==
    \A i \in Indices :
        has_piece(view, i) <=>
            \E k \in 1 .. Len(got) :
                Mentions(got[k], i) /\ \A l \in k + 1 .. Len(got) : ~Lacks(got[l], i)

Announced(i) ==
    \/ thread["receiver"].pc \in {"wait", "count", "snapshot"}
    \/ At("receiver", "send") /\ Mentions(thread["receiver"].message, i)
    \/ \E d \in Downloader : thread[d].pc \in {"broadcast", "send"} /\ thread[d].piece = i
    \/ \E k \in 1 .. Len(sent) : Mentions(sent[k], i)

\* A piece that we have was announced, or will be.
Announces == open => \A i \in Indices : has_piece(my_bitfield, i) => Announced(i)

ByEarlyHave == ~open => outgoing /\ sent # <<>> /\ \E i \in Indices : sent[1] = Have(i)

Setup ==
    /\ Typing /\ Control /\ Speech /\ Kinds /\ Once /\ Single
    /\ First /\ Reading /\ Follows /\ Announces /\ ByEarlyHave

-----------------------------------------------------------------------------
(* One thread moves. *)

LEMMA ThreadsAre ==
    /\ "connector" \in Threads /\ "receiver" \in Threads /\ Downloader \subseteq Threads
    /\ "nobody" \notin Threads /\ "connector" \notin Downloader /\ "receiver" \notin Downloader
    /\ \A t \in Threads : t = "connector" \/ t = "receiver" \/ t \in Downloader
  BY ConnectingAssumption DEF Threads

Others(t) == \A u \in Threads : u # t => thread'[u] = thread[u]

LEMMA GoesIs ==
    ASSUME Typing, NEW t \in Threads, NEW pc \in Steps, Goes(t, pc)
    PROVE  /\ thread' \in [Threads -> ThreadStates]
           /\ thread'[t].pc = pc /\ thread'[t].piece = thread[t].piece
           /\ thread'[t].message = thread[t].message /\ thread'[t].bytes = thread[t].bytes
           /\ Others(t)
<1>1. thread \in [Threads -> ThreadStates] /\ thread' = [thread EXCEPT ![t].pc = pc]
  BY DEF Typing, Goes
<1> QED
  BY <1>1 DEF ThreadStates, Others

LEMMA SendsIs ==
    ASSUME Typing, NEW t \in Threads, NEW m \in Messages, NEW bytes \in Seq(Byte),
           Sends(t, m, bytes)
    PROVE  /\ thread' \in [Threads -> ThreadStates]
           /\ thread'[t].pc = "send" /\ thread'[t].piece = thread[t].piece
           /\ thread'[t].message = m /\ thread'[t].bytes = bytes
           /\ Others(t)
<1>1. thread \in [Threads -> ThreadStates]
      /\ thread' = [thread EXCEPT ![t].pc = "send", ![t].message = m, ![t].bytes = bytes]
  BY DEF Typing, Sends
<1>2. "send" \in Steps
  BY DEF Steps
<1> QED
  BY <1>1, <1>2 DEF ThreadStates, Others

\* A step on which no message goes out and the remote peer does nothing.
Quiet(t) ==
    /\ UNCHANGED <<outgoing, lock, stream, sent, remote>>
    /\ lock # t /\ Others(t)
    /\ At("connector", "done")' <=> At("connector", "done")

\* What a step without sending and reading leaves true.
LEMMA QuietKeeps ==
    ASSUME Setup, NEW t \in Threads, Quiet(t)
    PROVE  Single' /\ First' /\ Reading' /\ Follows' /\ ByEarlyHave'
<1>1. lock' = lock /\ sent' = sent /\ stream' = stream /\ framer' = framer /\ got' = got
      /\ view' = view /\ open' = open /\ outgoing' = outgoing
  BY DEF Quiet, remote
<1>2. lock # "nobody" => thread'[lock] = thread[lock]
  BY DEF Setup, Typing, Quiet, Others
<1>3. Due' = Due
  BY <1>1, <1>2 DEF Due
<1>4. Line' = Line
  BY <1>1, <1>2 DEF Line
<1>5. Single'
  BY <1>1 DEF Setup, Single
<1>6. First'
  BY <1>1, <1>3 DEF Setup, First, Quiet
<1>7. Reading'
  BY <1>1, <1>3, <1>4 DEF Setup, Reading
<1>8. Follows'
  BY <1>1 DEF Setup, Follows
<1>9. ByEarlyHave'
  BY <1>1 DEF Setup, ByEarlyHave
<1> QED
  BY <1>5, <1>6, <1>7, <1>8, <1>9

LEMMA Registers ==
    ASSUME Setup, Register
    PROVE  Setup'
<1> DEFINE c == "connector"
<1>1. /\ At(c, "register")
      /\ key' = IF outgoing THEN "id" ELSE "temporary"
      /\ Sends(c, Handshake, create_handshake(MyId))
      /\ outgoing' = outgoing /\ my_bitfield' = my_bitfield /\ lock' = lock /\ stream' = stream
      /\ sent' = sent /\ UNCHANGED remote
  BY DEF Register, Handshake
<1>2. Handshake \in Sendable /\ Handshake \in Messages /\ create_handshake(MyId) = Encoded(Handshake)
      /\ Encoded(Handshake) \in Seq(Byte) /\ Encoded(Handshake) # <<>>
  BY HandshakeIs, SendableIs
<1>3. /\ thread' \in [Threads -> ThreadStates]
      /\ thread'[c].pc = "send" /\ thread'[c].piece = thread[c].piece
      /\ thread'[c].message = Handshake /\ thread'[c].bytes = Encoded(Handshake)
      /\ Others(c)
  BY <1>1, <1>2, SendsIs, ThreadsAre DEF Setup
<1>4. thread'["receiver"] = thread["receiver"] /\ \A d \in Downloader : thread'[d] = thread[d]
  BY <1>3, ThreadsAre DEF Others
<1>5. key = "none" /\ lock # c
  BY <1>1 DEF Setup, Control, At
<1>6. Quiet(c)
  BY <1>1, <1>3, <1>5 DEF Quiet, At
<1>7. Single' /\ First' /\ Reading' /\ Follows' /\ ByEarlyHave'
  BY <1>6, QuietKeeps, ThreadsAre
<1>8. Typing'
  BY <1>1, <1>3 DEF Setup, Typing, remote
<1>9. Control'
  <2>1. lock' # "nobody" => At(lock, "send")'
    BY <1>1, <1>3, <1>5 DEF Setup, Typing, Control, At, Others
  <2> QED
    BY <1>1, <1>3, <1>4, <1>5, <2>1 DEF Setup, Control, At
<1>10. Speech'
  <2>1. \A i \in Indices : ~Mentions(Handshake, i)
    BY MentionsOne
  <2>2. \A t \in Threads : t # c => thread'[t] = thread[t]
    BY <1>3 DEF Others
  <2> QED
    BY <1>1, <1>2, <1>3, <1>4, <1>5, <2>1, <2>2, ThreadsAre DEF Setup, Speech, At
<1>11. Kinds'
  BY <1>1 DEF Setup, Kinds
<1>12. Once'
  BY <1>1, <1>3, <1>4 DEF Setup, Once, At
<1>13. Announces'
  BY <1>1, <1>4 DEF Setup, Announces, Announced, At, remote
<1> QED
  BY <1>7, <1>8, <1>9, <1>10, <1>11, <1>12, <1>13 DEF Setup

\* The handshake is in, or the pieces are counted.
LEMMA ReceiverGoes ==
    ASSUME Setup, NEW pc \in {"count", "snapshot", "done"}, Goes("receiver", pc),
           ~At("receiver", "send"), ~At("receiver", "done"), At("connector", "done"), key' = "id",
           pc = "done" => \A i \in Indices : ~has_piece(my_bitfield, i),
           UNCHANGED <<outgoing, my_bitfield, lock, stream, sent, remote>>
    PROVE  Setup'
<1> DEFINE r == "receiver"
<1>1. outgoing' = outgoing /\ my_bitfield' = my_bitfield /\ lock' = lock /\ stream' = stream
      /\ sent' = sent /\ UNCHANGED remote
  OBVIOUS
<1>2. /\ thread' \in [Threads -> ThreadStates]
      /\ thread'[r].pc = pc /\ thread'[r].piece = thread[r].piece
      /\ thread'[r].message = thread[r].message /\ thread'[r].bytes = thread[r].bytes
      /\ Others(r)
  BY GoesIs, ThreadsAre DEF Setup, Steps
<1>3. thread'["connector"] = thread["connector"] /\ \A d \in Downloader : thread'[d] = thread[d]
  BY <1>2, ThreadsAre DEF Others
<1>4. lock # r /\ key # "none"
  BY DEF Setup, Control, At
<1>5. Quiet(r)
  BY <1>1, <1>2, <1>3, <1>4 DEF Quiet, At
<1>6. Single' /\ First' /\ Reading' /\ Follows' /\ ByEarlyHave'
  BY <1>5, QuietKeeps, ThreadsAre
<1>7. Typing'
  BY <1>1, <1>2 DEF Setup, Typing, remote
<1>8. Control'
  <2>1. lock' # "nobody" => At(lock, "send")'
    BY <1>1, <1>2, <1>4 DEF Setup, Typing, Control, At, Others
  <2> QED
    BY <1>1, <1>2, <1>3, <1>4, <2>1 DEF Setup, Control, At
<1>9. Speech'
  <2>1. \A t \in Threads : t # r => thread'[t] = thread[t]
    BY <1>2 DEF Others
  <2> QED
    BY <1>1, <1>2, <1>3, <2>1, ThreadsAre DEF Setup, Speech, At
<1>10. Kinds'
  BY <1>1 DEF Setup, Kinds
<1>11. Once'
  <2>1. thread[r].pc # "done" \/ thread'[r].pc = "done"
    BY DEF At
  <2> QED
    BY <1>1, <1>2, <1>3, <2>1 DEF Setup, Once, At
<1>12. Announces'
  BY <1>1, <1>2, <1>3 DEF Setup, Announces, Announced, At, remote
<1> QED
  BY <1>6, <1>7, <1>8, <1>9, <1>10, <1>11, <1>12 DEF Setup

LEMMA ReceivesHandshake ==
    ASSUME Setup, ReceiveHandshake
    PROVE  Setup'
<1>1. /\ At("receiver", "wait") /\ At("connector", "done")
      /\ key' = "id" /\ Goes("receiver", "count")
      /\ UNCHANGED <<outgoing, my_bitfield, lock, stream, sent, remote>>
  BY DEF ReceiveHandshake
<1> QED
  BY <1>1, ReceiverGoes DEF At

LEMMA Counts ==
    ASSUME Setup, CountPieces
    PROVE  Setup'
<1>1. /\ At("receiver", "count")
      /\ Goes("receiver", IF Pieces(my_bitfield) = {} THEN "done" ELSE "snapshot")
      /\ UNCHANGED <<key, outgoing, my_bitfield, lock, stream, sent, remote>>
  BY DEF CountPieces, local
<1>2. At("connector", "done") /\ key = "id"
  BY <1>1 DEF Setup, Control, At
<1>3. CASE Pieces(my_bitfield) = {}
  <2>1. Goes("receiver", "done") /\ \A i \in Indices : ~has_piece(my_bitfield, i)
    BY <1>1, <1>3 DEF Pieces
  <2> QED
    BY <1>1, <1>2, <2>1, ReceiverGoes DEF At
<1>4. CASE Pieces(my_bitfield) # {}
  <2>1. Goes("receiver", "snapshot")
    BY <1>1, <1>4
  <2> QED
    BY <1>1, <1>2, <2>1, ReceiverGoes DEF At
<1> QED
  BY <1>3, <1>4

LEMMA TakesSnapshot ==
    ASSUME Setup, TakeSnapshot
    PROVE  Setup'
<1> DEFINE r == "receiver"
           m == Message(BitfieldType, my_bitfield)
<1>1. /\ At(r, "snapshot")
      /\ Sends(r, m, create_message(BitfieldType, my_bitfield))
      /\ outgoing' = outgoing /\ key' = key /\ my_bitfield' = my_bitfield /\ lock' = lock
      /\ stream' = stream /\ sent' = sent /\ UNCHANGED remote
  BY DEF TakeSnapshot, local
<1>2. /\ m \in Sendable /\ m \in Messages /\ IsBitfield(m) /\ m.payload = my_bitfield
      /\ Encoded(m) = create_message(BitfieldType, my_bitfield)
      /\ Encoded(m) \in Seq(Byte) /\ Encoded(m) # <<>>
  <2>1. my_bitfield \in Data
    BY DEF Setup, Typing
  <2>2. m \in Sendable /\ IsBitfield(m) /\ m.payload = my_bitfield /\ m.value = BitfieldType
    BY <2>1, BitfieldIs DEF Message
  <2>3. m # Handshake
    BY <2>2, HandshakeIs
  <2> HIDE DEF m
  <2> QED
    BY <2>2, <2>3, SendableIs
<1>3. \A i \in Indices : Mentions(m, i) <=> has_piece(my_bitfield, i)
  <2> HIDE DEF m
  <2> QED
    BY <1>2, MentionsOne
<1> HIDE DEF m
<1>4. /\ thread' \in [Threads -> ThreadStates]
      /\ thread'[r].pc = "send" /\ thread'[r].piece = thread[r].piece
      /\ thread'[r].message = m /\ thread'[r].bytes = Encoded(m)
      /\ Others(r)
  BY <1>1, <1>2, SendsIs, ThreadsAre DEF Setup
<1>5. thread'["connector"] = thread["connector"] /\ \A d \in Downloader : thread'[d] = thread[d]
  BY <1>4, ThreadsAre DEF Others
<1>6. lock # r
  BY <1>1 DEF Setup, Control, At
<1>7. Quiet(r)
  BY <1>1, <1>4, <1>5, <1>6 DEF Quiet, At
<1>8. Single' /\ First' /\ Reading' /\ Follows' /\ ByEarlyHave'
  BY <1>7, QuietKeeps, ThreadsAre
<1>9. Typing'
  BY <1>1, <1>4 DEF Setup, Typing, remote
<1>10. Control'
  <2>1. lock' # "nobody" => At(lock, "send")'
    BY <1>1, <1>4, <1>6 DEF Setup, Typing, Control, At, Others
  <2> QED
    BY <1>1, <1>4, <1>5, <1>6, <2>1 DEF Setup, Control, At
<1>11. Speech'
  <2>1. \A t \in Threads : t # r => thread'[t] = thread[t]
    BY <1>4 DEF Others
  <2> QED
    BY <1>1, <1>2, <1>3, <1>4, <1>5, <2>1, ThreadsAre DEF Setup, Speech, At
<1>12. Kinds'
  BY <1>1 DEF Setup, Kinds
<1>13. Once'
  BY <1>1, <1>4, <1>5 DEF Setup, Once, At
<1>14. Announces'
  BY <1>1, <1>3, <1>4, <1>5 DEF Setup, Announces, Announced, At, remote
<1> QED
  BY <1>8, <1>9, <1>10, <1>11, <1>12, <1>13, <1>14 DEF Setup

LEMMA Marks ==
    ASSUME Setup, NEW d \in Downloader, MarkPiece(d)
    PROVE  Setup'
<1>1. PICK i \in Downloads \ Pieces(my_bitfield) :
          /\ my_bitfield' = set_piece(my_bitfield, i)
          /\ thread' = [thread EXCEPT ![d].pc = "broadcast", ![d].piece = i]
  BY DEF MarkPiece
<1>2. /\ At(d, "wait")
      /\ outgoing' = outgoing /\ key' = key /\ lock' = lock /\ stream' = stream
      /\ sent' = sent /\ UNCHANGED remote
  BY DEF MarkPiece
<1>3. i \in Indices /\ ~has_piece(my_bitfield, i)
  BY <1>1, ConnectingAssumption DEF Pieces
<1>4. /\ my_bitfield' \in Data
      /\ \A j \in Indices : has_piece(my_bitfield', j) <=> has_piece(my_bitfield, j) \/ j = i
  BY <1>1, SetPiece DEF Setup, Typing
<1>5. /\ thread' \in [Threads -> ThreadStates]
      /\ thread'[d].pc = "broadcast" /\ thread'[d].piece = i
      /\ Others(d)
  <2>1. thread \in [Threads -> ThreadStates] /\ d \in Threads
    BY ThreadsAre DEF Setup, Typing
  <2>2. "broadcast" \in Steps
    BY DEF Steps
  <2> QED
    BY <1>1, <1>3, <2>1, <2>2 DEF ThreadStates, Others
<1>6. /\ thread'["connector"] = thread["connector"] /\ thread'["receiver"] = thread["receiver"]
      /\ \A e \in Downloader : e # d => thread'[e] = thread[e]
      /\ d \in Threads
  BY <1>5, ThreadsAre DEF Others
<1>7. lock # d
  BY <1>2, <1>6, ThreadsAre DEF Setup, Control, At
<1>8. Quiet(d)
  BY <1>2, <1>5, <1>6, <1>7 DEF Quiet, At
<1>9. Single' /\ First' /\ Reading' /\ Follows' /\ ByEarlyHave'
  BY <1>6, <1>8, QuietKeeps
<1>10. Typing'
  BY <1>2, <1>4, <1>5 DEF Setup, Typing, remote
<1>11. Control'
  <2>1. lock' # "nobody" => At(lock, "send")'
    BY <1>2, <1>5, <1>7 DEF Setup, Typing, Control, At, Others
  <2> QED
    BY <1>2, <1>5, <1>6, <1>7, <2>1 DEF Setup, Control, At
<1>12. Speech'
  <2>1. \A t \in Threads : t # d => thread'[t] = thread[t]
    BY <1>5 DEF Others
  <2>2. ASSUME NEW t \in Threads, At(t, "send")'
        PROVE  /\ thread'[t] = thread[t]
               /\ thread[t].message \in Sendable /\ thread[t].bytes # <<>>
               /\ lock # t => thread[t].bytes = Encoded(thread[t].message)
               /\ \A j \in Indices : Mentions(thread[t].message, j) => has_piece(my_bitfield', j)
    BY <1>4, <1>5, <2>1, <2>2 DEF Setup, Speech, At
  <2>3. /\ At("connector", "send")' => thread'["connector"].message = Handshake
        /\ At("receiver", "send")' => IsBitfield(thread'["receiver"].message)
    BY <1>6 DEF Setup, Speech, At
  <2>4. ASSUME NEW e \in Downloader
        PROVE  /\ ~At(e, "wait")' => has_piece(my_bitfield', thread'[e].piece)
               /\ At(e, "send")' => thread'[e].message = Have(thread'[e].piece)
    <3>1. thread[e].piece \in Indices
      BY ThreadsAre DEF Setup, Typing, ThreadStates
    <3> QED
      BY <1>3, <1>4, <1>5, <1>6, <3>1 DEF Setup, Speech, At
  <2> QED
    BY <1>2, <2>2, <2>3, <2>4 DEF Speech
<1>13. Kinds'
  BY <1>2, <1>4 DEF Setup, Kinds
<1>14. Once'
  <2>1. \A k \in 1 .. Len(sent) : sent[k] # Have(i)
    BY <1>3 DEF Setup, Kinds, Mentions
  <2>2. \A e \in Downloader : e # d /\ ~At(e, "wait") => thread[e].piece # i
    BY <1>3 DEF Setup, Speech
  <2>3. ASSUME NEW k \in 1 .. Len(sent), NEW e \in Downloader, sent[k] = Have(thread'[e].piece)
        PROVE  thread'[e].pc \in {"wait", "done"}
    BY <1>5, <1>6, <2>1, <2>3 DEF Setup, Once
  <2>4. ASSUME NEW e \in Downloader, NEW g \in Downloader,
               ~At(e, "wait")', ~At(g, "wait")', thread'[e].piece = thread'[g].piece
        PROVE  e = g
    BY <1>5, <1>6, <2>2, <2>4 DEF Setup, Once, At
  <2> QED
    BY <1>2, <1>6, <2>3, <2>4 DEF Setup, Once, At
<1>15. Announces'
  <2> SUFFICES ASSUME open, NEW j \in Indices, has_piece(my_bitfield', j)
               PROVE  Announced(j)'
    BY <1>2 DEF Announces, remote
  <2>1. CASE j = i
    BY <1>5, <2>1 DEF Announced
  <2>2. CASE j # i
    <3>1. Announced(j)
      BY <1>4, <2>2 DEF Setup, Announces
    <3> QED
      BY <1>2, <1>6, <3>1 DEF Announced, At
  <2> QED
    BY <2>1, <2>2
<1> QED
  BY <1>9, <1>10, <1>11, <1>12, <1>13, <1>14, <1>15 DEF Setup

LEMMA Broadcasts ==
    ASSUME Setup, NEW d \in Downloader, BroadcastHave(d)
    PROVE  Setup'
<1> DEFINE i == thread[d].piece
           m == Have(i)
<1>1. /\ At(d, "broadcast")
      /\ IF key = "id" THEN Sends(d, m, create_message(HaveType, Pack(i))) ELSE Goes(d, "done")
      /\ outgoing' = outgoing /\ key' = key /\ my_bitfield' = my_bitfield /\ lock' = lock
      /\ stream' = stream /\ sent' = sent /\ UNCHANGED remote
  BY DEF BroadcastHave, local, Have
<1>2. /\ i \in Indices /\ d \in Threads
      /\ has_piece(my_bitfield, i)
  BY <1>1, ThreadsAre DEF Setup, Typing, ThreadStates, Speech, At
<1>3. /\ m \in Sendable /\ m \in Messages /\ m = Have(i)
      /\ Encoded(m) = create_message(HaveType, Pack(i))
      /\ Encoded(m) \in Seq(Byte) /\ Encoded(m) # <<>>
      /\ \A j \in Indices : Mentions(m, j) <=> i = j
  <2> HIDE DEF i
  <2>1. m \in Sendable /\ m # Handshake /\ m.value = HaveType /\ m.payload = Pack(i)
    BY <1>2, HaveIs
  <2>2. \A j \in Indices : Mentions(m, j) <=> i = j
    BY <1>2, MentionsOne
  <2> HIDE DEF m
  <2> QED
    BY <2>1, <2>2, SendableIs DEF m
<1> HIDE DEF i, m
<1> DEFINE next == IF key = "id" THEN "send" ELSE "done"
<1>4. /\ thread' \in [Threads -> ThreadStates]
      /\ thread'[d].pc = next /\ thread'[d].piece = i
      /\ key = "id" => thread'[d].message = m /\ thread'[d].bytes = Encoded(m)
      /\ Others(d)
  <2>1. CASE key = "id"
    <3>1. Sends(d, m, Encoded(m))
      BY <1>1, <1>3, <2>1
    <3> QED
      BY <1>2, <1>3, <2>1, <3>1, SendsIs DEF Setup, i
  <2>2. CASE key # "id"
    <3>1. Goes(d, "done") /\ "done" \in Steps
      BY <1>1, <2>2 DEF Steps
    <3> QED
      BY <1>2, <2>2, <3>1, GoesIs DEF Setup, i
  <2> QED
    BY <2>1, <2>2
<1>5. /\ thread'["connector"] = thread["connector"] /\ thread'["receiver"] = thread["receiver"]
      /\ \A e \in Downloader : e # d => thread'[e] = thread[e]
  BY <1>4, ThreadsAre DEF Others
<1>6. lock # d
  BY <1>1, <1>2, ThreadsAre DEF Setup, Control, At
<1>7. Quiet(d)
  BY <1>1, <1>4, <1>5, <1>6 DEF Quiet, At
<1>8. Single' /\ First' /\ Reading' /\ Follows' /\ ByEarlyHave'
  BY <1>2, <1>7, QuietKeeps
<1>9. Typing'
  BY <1>1, <1>4 DEF Setup, Typing, remote
<1>10. Control'
  <2>1. lock' # "nobody" => At(lock, "send")'
    BY <1>1, <1>4, <1>6 DEF Setup, Typing, Control, At, Others
  <2> QED
    BY <1>1, <1>4, <1>5, <1>6, <2>1 DEF Setup, Control, At
<1>11. Speech'
  <2>1. \A t \in Threads : t # d => thread'[t] = thread[t]
    BY <1>4 DEF Others
  <2>2. ASSUME NEW t \in Threads, At(t, "send")'
        PROVE  /\ thread'[t].message \in Sendable /\ thread'[t].bytes # <<>>
               /\ lock # t => thread'[t].bytes = Encoded(thread'[t].message)
               /\ \A j \in Indices : Mentions(thread'[t].message, j) => has_piece(my_bitfield, j)
    <3>1. CASE t = d
      <4>1. key = "id"
        BY <1>4, <2>2, <3>1 DEF At
      <4> QED
        BY <1>2, <1>3, <1>4, <3>1, <4>1
    <3>2. CASE t # d
      BY <2>1, <2>2, <3>2 DEF Setup, Speech, At
    <3> QED
      BY <3>1, <3>2
  <2>3. /\ At("connector", "send")' => thread'["connector"].message = Handshake
        /\ At("receiver", "send")' => IsBitfield(thread'["receiver"].message)
    BY <1>5 DEF Setup, Speech, At
  <2>4. ASSUME NEW e \in Downloader
        PROVE  /\ ~At(e, "wait")' => has_piece(my_bitfield, thread'[e].piece)
               /\ At(e, "send")' => thread'[e].message = Have(thread'[e].piece)
    BY <1>2, <1>3, <1>4, <1>5 DEF Setup, Speech, At
  <2> QED
    BY <1>1, <2>2, <2>3, <2>4 DEF Speech
<1>12. Kinds'
  BY <1>1 DEF Setup, Kinds
<1>13. Once'
  <2>1. \A k \in 1 .. Len(sent) : sent[k] # Have(i)
    BY <1>1 DEF Setup, Once, At, i
  <2>2. ASSUME NEW k \in 1 .. Len(sent), NEW e \in Downloader, sent[k] = Have(thread'[e].piece)
        PROVE  thread'[e].pc \in {"wait", "done"}
    BY <1>4, <1>5, <2>1, <2>2 DEF Setup, Once
  <2>3. ASSUME NEW e \in Downloader, NEW g \in Downloader,
               ~At(e, "wait")', ~At(g, "wait")', thread'[e].piece = thread'[g].piece
        PROVE  e = g
    <3>1. \A x \in Downloader : thread'[x].piece = thread[x].piece /\ (~At(x, "wait")' => ~At(x, "wait"))
      BY <1>1, <1>4, <1>5 DEF At, i
    <3> QED
      BY <2>3, <3>1 DEF Setup, Once
  <2> QED
    BY <1>1, <1>5, <2>2, <2>3 DEF Setup, Once, At
<1>14. Announces'
  <2> SUFFICES ASSUME open, NEW j \in Indices, has_piece(my_bitfield, j)
               PROVE  Announced(j)'
    BY <1>1 DEF Announces, remote
  <2>1. CASE key = "id"
    <3>1. Announced(j)
      BY DEF Setup, Announces
    <3>2. thread'[d].pc = "send" /\ thread'[d].piece = thread[d].piece
      BY <1>4, <2>1 DEF i
    <3> QED
      BY <1>1, <1>5, <3>1, <3>2 DEF Announced, At
  <2>2. CASE key # "id"
    <3>1. thread["receiver"].pc = "wait"
      BY <2>2 DEF Setup, Control, At
    <3> QED
      BY <1>5, <3>1 DEF Announced
  <2> QED
    BY <2>1, <2>2
<1> QED
  BY <1>8, <1>9, <1>10, <1>11, <1>12, <1>13, <1>14 DEF Setup

-----------------------------------------------------------------------------
(* Sending. *)

Rest == IF lock = "nobody" THEN <<>> ELSE thread[lock].bytes

\* The messages sent and being sent.
LEMMA DueIs ==
    ASSUME Typing, Control, Speech
    PROVE  /\ Due \in Seq(Sendable)
           /\ lock = "nobody" => Due = sent
           /\ lock # "nobody" => Due = Append(sent, thread[lock].message) /\ Len(Due) = Len(sent) + 1
                                 /\ Due[Len(sent) + 1] = thread[lock].message
                                 /\ lock \in Threads /\ At(lock, "send") /\ Rest # <<>>
           /\ Rest \in Seq(Byte)
           /\ Len(sent) \in Nat /\ Len(Due) \in Nat /\ Len(sent) <= Len(Due)
           /\ \A k \in 1 .. Len(sent) : Due[k] = sent[k]
<1>1. sent \in Seq(Sendable) /\ Len(sent) \in Nat
  BY DEF Typing
<1>2. CASE lock = "nobody"
  BY <1>1, <1>2, EmptySeq DEF Due, Rest
<1>3. CASE lock # "nobody"
  <2> DEFINE m == thread[lock].message
  <2>1. lock \in Threads /\ At(lock, "send") /\ m \in Sendable /\ Rest = thread[lock].bytes
        /\ Rest # <<>> /\ Rest \in Seq(Byte)
    BY <1>3 DEF Typing, Control, Speech, Rest, ThreadStates
  <2>2. Due = Append(sent, m)
    BY <1>3 DEF Due
  <2> HIDE DEF m
  <2>3. /\ Append(sent, m) \in Seq(Sendable) /\ Len(Append(sent, m)) = Len(sent) + 1
        /\ Append(sent, m)[Len(sent) + 1] = m
        /\ \A k \in 1 .. Len(sent) : Append(sent, m)[k] = sent[k]
    BY <1>1, <2>1, AppendProperties
  <2>4. Len(sent) <= Len(sent) + 1 /\ Len(sent) + 1 \in Nat
    BY <1>1
  <2>5. /\ Due \in Seq(Sendable) /\ Len(Due) = Len(sent) + 1 /\ Due[Len(sent) + 1] = m
        /\ \A k \in 1 .. Len(sent) : Due[k] = sent[k]
    BY <2>2, <2>3
  <2> QED
    BY <1>1, <1>3, <2>1, <2>2, <2>4, <2>5 DEF m
<1> QED
  BY <1>2, <1>3

\* Which thread sends which message.
LEMMA Senders ==
    ASSUME Setup, NEW t \in Threads, At(t, "send")
    PROVE  LET m == thread[t].message IN
           /\ m \in Sendable
           /\ \A i \in Indices : Mentions(m, i) => has_piece(my_bitfield, i)
           /\ m = Handshake => t = "connector"
           /\ IsBitfield(m) => t = "receiver"
           /\ \A i \in Indices : m = Have(i) => t \in Downloader /\ thread[t].piece = i
<1> DEFINE m == thread[t].message
<1>1. m \in Sendable /\ \A i \in Indices : Mentions(m, i) => has_piece(my_bitfield, i)
  BY DEF Setup, Speech
<1>2. /\ t = "connector" => m = Handshake
      /\ t = "receiver" => IsBitfield(m)
      /\ t \in Downloader => m = Have(thread[t].piece) /\ thread[t].piece \in Indices
  BY DEF Setup, Speech, Typing, ThreadStates
<1> HIDE DEF m
<1>3. /\ ~IsBitfield(Handshake)
      /\ \A i \in Indices : /\ Have(i) # Handshake /\ ~IsBitfield(Have(i))
                            /\ \A j \in Indices : Have(i) = Have(j) => i = j
  BY HandshakeIs, HaveIs
<1>4. t = "connector" \/ t = "receiver" \/ t \in Downloader
  BY ThreadsAre
<1> QED
  BY <1>1, <1>2, <1>3, <1>4 DEF m

\* Nobody gives voice to a piece before the handshake, on a connection that we
\* accepted, and the bitfield never comes first.
LEMMA NotBefore ==
    ASSUME Setup, open, NEW t \in Threads, At(t, "send"), sent = <<>>
    PROVE  /\ ~IsBitfield(thread[t].message)
           /\ \A i \in Indices : thread[t].message = Have(i) => outgoing
<1>1. ~At("connector", "done")
  <2>1. Len(sent) = 0
    OBVIOUS
  <2>2. ~\E k \in 1 .. Len(sent) : sent[k] = Handshake
    BY <2>1
  <2> QED
    BY <2>2 DEF Setup, First
<1>2. At("receiver", "wait")
  BY <1>1 DEF Setup, Control
<1>3. t # "receiver"
  BY <1>2 DEF At
<1>4. t \in Downloader => outgoing
  BY <1>2 DEF Setup, Control, At
<1> QED
  BY <1>3, <1>4, Senders

\* A closed connection takes nothing.
LEMMA FailsToSend ==
    ASSUME Setup, NEW t \in Threads, SendFails(t)
    PROVE  Setup'
<1>1. /\ At(t, "send") /\ ~open /\ lock \in {"nobody", t} /\ Goes(t, "done")
      /\ lock' = "nobody" /\ outgoing' = outgoing /\ key' = key /\ my_bitfield' = my_bitfield
      /\ stream' = stream /\ sent' = sent /\ framer' = framer /\ got' = got /\ view' = view
      /\ open' = open
  BY DEF SendFails, local, remote
<1>2. /\ thread' \in [Threads -> ThreadStates]
      /\ thread'[t].pc = "done" /\ thread'[t].piece = thread[t].piece
      /\ thread'[t].message = thread[t].message /\ thread'[t].bytes = thread[t].bytes
      /\ Others(t)
  BY <1>1, GoesIs DEF Setup, Steps
<1>3. \A u \in Threads : u # t => thread'[u] = thread[u]
  BY <1>2 DEF Others
<1>4. Typing'
  BY <1>1, <1>2 DEF Setup, Typing
<1>5. Control'
  BY <1>1, <1>2, <1>3, ThreadsAre DEF Setup, Control, At
<1>6. Speech'
  BY <1>1, <1>2, <1>3, ThreadsAre DEF Setup, Speech, At
<1>7. Kinds' /\ Single' /\ Follows' /\ ByEarlyHave'
  BY <1>1 DEF Setup, Kinds, Single, Follows, ByEarlyHave
<1>8. Once'
  <2>1. \A u \in Threads : thread'[u].piece = thread[u].piece
    BY <1>2, <1>3
  <2>2. \A u \in Threads : At(u, "done") => At(u, "done")'
    BY <1>2, <1>3 DEF At
  <2>3. \A d \in Downloader : At(d, "wait")' => At(d, "wait")
    BY <1>2, <1>3, ThreadsAre DEF At
  <2>4. \A d \in Downloader : At(d, "wait") => At(d, "wait")'
    BY <1>1, <1>2, <1>3, ThreadsAre DEF At
  <2>5. /\ \A k \in 1 .. Len(sent') : sent'[k] = Handshake => At("connector", "done")'
        /\ \A k \in 1 .. Len(sent') : IsBitfield(sent'[k]) => At("receiver", "done")'
    BY <1>1, <2>2, ThreadsAre DEF Setup, Once
  <2>6. \A k \in 1 .. Len(sent'), d \in Downloader :
            sent'[k] = Have(thread'[d].piece) => thread'[d].pc \in {"wait", "done"}
    BY <1>1, <1>2, <1>3, <2>1, ThreadsAre DEF Setup, Once
  <2>7. \A d, e \in Downloader :
            ~At(d, "wait")' /\ ~At(e, "wait")' /\ thread'[d].piece = thread'[e].piece => d = e
    BY <2>1, <2>4, ThreadsAre DEF Setup, Once
  <2> QED
    BY <2>5, <2>6, <2>7 DEF Once
<1>9. First'
  <2>1. Due' = sent
    BY <1>1 DEF Due
  <2>2. sent # <<>> => Due # <<>> /\ Due[1] = sent[1]
    <3>1. /\ Due \in Seq(Sendable) /\ Len(sent) \in Nat /\ Len(Due) \in Nat /\ Len(sent) <= Len(Due)
          /\ \A k \in 1 .. Len(sent) : Due[k] = sent[k]
      BY DueIs DEF Setup
    <3>2. sent # <<>> => Len(sent) # 0
      BY EmptySeq DEF Setup, Typing
    <3> QED
      BY <3>1, <3>2, EmptySeq
  <2> QED
    BY <1>1, <2>1, <2>2 DEF Setup, First
<1>10. Reading'
  BY <1>1 DEF Setup, Reading
<1>11. Announces'
  BY <1>1 DEF Announces
<1> QED
  BY <1>4, <1>5, <1>6, <1>7, <1>8, <1>9, <1>10, <1>11 DEF Setup

\* A chunk is sent: the owner of the lock comes closer to the end of its
\* message, which counts as sent then.
LEMMA SendsSome ==
    ASSUME Setup, NEW t \in Threads, Send(t)
    PROVE  Setup'
<1> DEFINE m == thread[t].message
           bytes == thread[t].bytes
<1>1. PICK n \in 1 .. Len(bytes) : Chunk(t, n)
  BY DEF Send
<1> DEFINE rest == SubSeq(bytes, n + 1, Len(bytes))
           chunk == SubSeq(bytes, 1, n)
           last == n = Len(bytes)
<1>2. /\ At(t, "send") /\ open /\ lock \in {"nobody", t}
      /\ outgoing' = outgoing /\ key' = key /\ my_bitfield' = my_bitfield
      /\ framer' = framer /\ got' = got /\ view' = view /\ open' = open
  BY DEF Send, local, remote
<1>3. /\ stream' = stream \o chunk
      /\ thread' = [thread EXCEPT ![t].bytes = rest, ![t].pc = IF last THEN "done" ELSE "send"]
      /\ lock' = IF last THEN "nobody" ELSE t
      /\ sent' = IF last THEN Append(sent, m) ELSE sent
  BY <1>1 DEF Chunk
<1>4. /\ bytes \in Seq(Byte) /\ m \in Sendable /\ t # "nobody"
      /\ lock # t => bytes = Encoded(m)
  BY <1>2, ThreadsAre DEF Setup, Typing, ThreadStates, Speech
<1>5. /\ chunk \in Seq(Byte) /\ rest \in Seq(Byte)
      /\ last => rest = <<>>
      /\ ~last => rest # <<>>
      /\ \A s \in Seq(Byte) : (s \o chunk) \o rest = s \o bytes
  <2> HIDE DEF bytes, rest, chunk
  <2>1. ASSUME NEW s \in Seq(Byte)
        PROVE  /\ s \o bytes = (s \o chunk) \o rest
               /\ chunk \in Seq(Byte) /\ rest \in Seq(Byte)
               /\ n = Len(bytes) => rest = <<>>
               /\ n # Len(bytes) => rest # <<>>
    BY <1>4, RejoinedAfter, Zenon DEF chunk, rest
  <2>2. <<>> \in Seq(Byte)
    BY EmptySeq
  <2> QED
    BY <2>1, <2>2
<1> HIDE DEF m, bytes, rest, chunk, last
<1>6. /\ thread' \in [Threads -> ThreadStates]
      /\ thread'[t].pc = IF last THEN "done" ELSE "send"
      /\ thread'[t].piece = thread[t].piece
      /\ thread'[t].message = m /\ thread'[t].bytes = rest
      /\ \A u \in Threads : u # t => thread'[u] = thread[u]
  <2>1. thread \in [Threads -> ThreadStates]
    BY DEF Setup, Typing
  <2>2. "done" \in Steps /\ "send" \in Steps
    BY DEF Steps
  <2> QED
    BY <1>3, <1>5, <2>1, <2>2 DEF ThreadStates, m
<1>7. /\ sent \in Seq(Sendable) /\ sent' \in Seq(Sendable)
      /\ Len(sent) \in Nat /\ Len(sent') \in Nat /\ Len(sent) <= Len(sent')
      /\ \A k \in 1 .. Len(sent) : k \in 1 .. Len(sent') /\ sent'[k] = sent[k]
      /\ \A k \in 1 .. Len(sent') :
            k \in 1 .. Len(sent) \/ (last /\ k = Len(sent) + 1 /\ sent'[k] = m)
      /\ last => Len(sent) + 1 \in 1 .. Len(sent') /\ sent'[Len(sent) + 1] = m
  <2>1. sent \in Seq(Sendable) /\ Len(sent) \in Nat
    BY DEF Setup, Typing
  <2>2. CASE last
    <3>1. /\ Append(sent, m) \in Seq(Sendable) /\ Len(Append(sent, m)) = Len(sent) + 1
          /\ \A k \in 1 .. Len(sent) : Append(sent, m)[k] = sent[k]
          /\ Append(sent, m)[Len(sent) + 1] = m
      BY <1>4, <2>1, AppendProperties
    <3>2. sent' = Append(sent, m)
      BY <1>3, <2>2
    <3>3. /\ sent' \in Seq(Sendable) /\ Len(sent') = Len(sent) + 1
          /\ \A k \in 1 .. Len(sent) : sent'[k] = sent[k]
          /\ sent'[Len(sent) + 1] = m
      BY <3>1, <3>2, Zenon
    <3> QED
      BY <2>1, <2>2, <3>3
  <2>3. CASE ~last
    BY <1>3, <2>1, <2>3
  <2> QED
    BY <2>2, <2>3
<1>8. /\ \A i \in Indices : Mentions(m, i) => has_piece(my_bitfield, i)
      /\ m = Handshake => t = "connector"
      /\ IsBitfield(m) => t = "receiver"
      /\ \A i \in Indices : m = Have(i) => t \in Downloader /\ thread[t].piece = i
  BY <1>2, Senders DEF m
<1>9. Typing'
  <2>1. stream' \in Seq(Byte)
    BY <1>3, <1>5, ConcatProperties DEF Setup, Typing
  <2>2. lock' \in Threads \cup {"nobody"}
    BY <1>3
  <2> QED
    BY <1>2, <1>6, <1>7, <2>1, <2>2 DEF Setup, Typing
<1>10. Control'
  <2>1. lock' # "nobody" => At(lock, "send")'
    BY <1>3, <1>6 DEF At
  <2> QED
    BY <1>2, <1>6, <2>1, ThreadsAre DEF Setup, Control, At
<1>11. Speech'
  <2>1. ASSUME NEW u \in Threads, At(u, "send")'
        PROVE  /\ thread'[u].message \in Sendable /\ thread'[u].bytes # <<>>
               /\ lock' # u => thread'[u].bytes = Encoded(thread'[u].message)
               /\ \A i \in Indices : Mentions(thread'[u].message, i) => has_piece(my_bitfield, i)
    <3>1. CASE u = t
      <4>1. ~last
        BY <1>6, <2>1, <3>1 DEF At
      <4>2. thread'[t].message = m /\ thread'[t].bytes # <<>> /\ lock' = t
        BY <1>3, <1>5, <1>6, <4>1
      <4> QED
        BY <1>4, <1>8, <3>1, <4>2
    <3>2. CASE u # t
      <4>1. thread'[u] = thread[u] /\ lock # u
        BY <1>2, <1>6, <3>2, ThreadsAre
      <4> QED
        BY <2>1, <4>1 DEF Setup, Speech, At
    <3> QED
      BY <3>1, <3>2
  <2>2. /\ At("connector", "send")' => thread'["connector"].message = Handshake
        /\ At("receiver", "send")' => IsBitfield(thread'["receiver"].message)
    BY <1>2, <1>6, ThreadsAre DEF Setup, Speech, At, m
  <2>3. ASSUME NEW d \in Downloader
        PROVE  /\ ~At(d, "wait")' => has_piece(my_bitfield, thread'[d].piece)
               /\ At(d, "send")' => thread'[d].message = Have(thread'[d].piece)
    BY <1>2, <1>6, ThreadsAre DEF Setup, Speech, At, m
  <2> QED
    BY <1>2, <2>1, <2>2, <2>3 DEF Speech
<1>12. Kinds'
  BY <1>2, <1>7, <1>8 DEF Setup, Kinds
<1>13. /\ \A u \in Threads : thread'[u].piece = thread[u].piece
       /\ \A u \in Threads : At(u, "done") => At(u, "done")'
       /\ \A d \in Downloader : At(d, "wait")' <=> At(d, "wait")
       /\ \A d \in Downloader : thread[d].pc \in {"wait", "done"} => thread'[d].pc \in {"wait", "done"}
       /\ \A d \in Downloader : thread[d].piece \in Indices
  <2>1. \A d \in Downloader : thread[d].piece \in Indices
    BY ThreadsAre DEF Setup, Typing, ThreadStates
  <2> QED
    BY <1>2, <1>6, <2>1, ThreadsAre DEF At
<1>14. Once'
  <2>1. ASSUME NEW k \in 1 .. Len(sent'), sent'[k] = Handshake
        PROVE  At("connector", "done")'
    <3>1. CASE k \in 1 .. Len(sent)
      BY <1>7, <1>13, <2>1, <3>1, ThreadsAre DEF Setup, Once
    <3>2. CASE last /\ sent'[k] = m
      BY <1>6, <1>8, <2>1, <3>2 DEF At
    <3> QED
      BY <1>7, <3>1, <3>2
  <2>2. ASSUME NEW k \in 1 .. Len(sent'), IsBitfield(sent'[k])
        PROVE  At("receiver", "done")'
    <3>1. CASE k \in 1 .. Len(sent)
      BY <1>7, <1>13, <2>2, <3>1, ThreadsAre DEF Setup, Once
    <3>2. CASE last /\ sent'[k] = m
      BY <1>6, <1>8, <2>2, <3>2 DEF At
    <3> QED
      BY <1>7, <3>1, <3>2
  <2>3. ASSUME NEW k \in 1 .. Len(sent'), NEW d \in Downloader, sent'[k] = Have(thread'[d].piece)
        PROVE  thread'[d].pc \in {"wait", "done"}
    <3>0. sent'[k] = Have(thread[d].piece)
      BY <1>13, <2>3, ThreadsAre
    <3>1. CASE k \in 1 .. Len(sent)
      BY <1>7, <1>13, <3>0, <3>1, ThreadsAre DEF Setup, Once
    <3>2. CASE last /\ sent'[k] = m
      <4>1. t \in Downloader /\ thread[t].piece = thread[d].piece
        BY <1>8, <1>13, <3>0, <3>2
      <4>2. CASE At(d, "wait")
        BY <1>13, <4>2 DEF At
      <4>3. CASE ~At(d, "wait")
        <5>1. d = t
          BY <1>2, <4>1, <4>3 DEF Setup, Once, At
        <5> QED
          BY <1>6, <3>2, <5>1
      <4> QED
        BY <4>2, <4>3
    <3> QED
      BY <1>7, <3>1, <3>2
  <2>4. \A d, e \in Downloader :
            ~At(d, "wait")' /\ ~At(e, "wait")' /\ thread'[d].piece = thread'[e].piece => d = e
    BY <1>13, ThreadsAre DEF Setup, Once
  <2> QED
    BY <2>1, <2>2, <2>3, <2>4 DEF Once
<1>15. Single'
  <2>1. ASSUME NEW k \in 1 .. Len(sent)
        PROVE  /\ ~(sent[k] = Handshake /\ m = Handshake)
               /\ ~(IsBitfield(sent[k]) /\ IsBitfield(m))
               /\ \A i \in Indices : ~(sent[k] = Have(i) /\ m = Have(i))
    BY <1>2, <1>8 DEF Setup, Once, At
  <2>2. ASSUME NEW k \in 1 .. Len(sent'), NEW l \in 1 .. Len(sent')
        PROVE  /\ sent'[k] = Handshake /\ sent'[l] = Handshake => k = l
               /\ IsBitfield(sent'[k]) /\ IsBitfield(sent'[l]) => k = l
               /\ \A i \in Indices : sent'[k] = Have(i) /\ sent'[l] = Have(i) => k = l
    <3>1. CASE k \in 1 .. Len(sent) /\ l \in 1 .. Len(sent)
      BY <1>7, <3>1 DEF Setup, Single
    <3>2. CASE k \in 1 .. Len(sent) /\ sent'[l] = m
      BY <1>7, <2>1, <3>2
    <3>3. CASE sent'[k] = m /\ l \in 1 .. Len(sent)
      BY <1>7, <2>1, <3>3
    <3>4. CASE k = Len(sent) + 1 /\ l = Len(sent) + 1
      BY <3>4
    <3> QED
      BY <1>7, <3>1, <3>2, <3>3, <3>4
  <2> QED
    BY <2>2 DEF Single
<1>16. Due' = Append(sent, m)
  <2>1. CASE last
    <3>1. lock' = "nobody" /\ sent' = Append(sent, m)
      BY <1>3, <2>1
    <3> QED
      BY <3>1 DEF Due
  <2>2. CASE ~last
    <3>1. lock' = t /\ sent' = sent /\ thread'[t].message = m
      BY <1>3, <1>6, <2>2
    <3> QED
      BY <1>4, <3>1 DEF Due
  <2> QED
    BY <2>1, <2>2
<1>17. First'
  <2>1. open' /\ At("connector", "done")' => \E k \in 1 .. Len(sent') : sent'[k] = Handshake
    <3> SUFFICES ASSUME At("connector", "done")' PROVE \E k \in 1 .. Len(sent') : sent'[k] = Handshake
      OBVIOUS
    <3>1. CASE At("connector", "done")
      BY <1>2, <1>7, <3>1 DEF Setup, First
    <3>2. CASE ~At("connector", "done")
      <4>1. t = "connector"
        BY <1>6, <3>2, ThreadsAre DEF At
      <4>2. last /\ m = Handshake
        BY <1>2, <1>6, <4>1 DEF Setup, Speech, At, m
      <4> QED
        BY <1>7, <4>2
    <3> QED
      BY <3>1, <3>2
  <2>2. Due' # <<>> =>
            /\ ~IsBitfield(Due'[1])
            /\ \A i \in Indices : Due'[1] = Have(i) => outgoing
    <3>1. CASE sent = <<>>
      <4>1. Due'[1] = m
        BY <1>4, <1>16, <3>1
      <4>2. ~IsBitfield(m) /\ \A i \in Indices : m = Have(i) => outgoing
        BY <1>2, <3>1, NotBefore DEF m
      <4> QED
        BY <4>1, <4>2
    <3>2. CASE sent # <<>>
      <4>1. 1 \in 1 .. Len(sent)
        BY <1>7, <3>2, EmptySeq
      <4>2. Due'[1] = sent[1]
        BY <1>4, <1>7, <1>16, <4>1, AppendProperties
      <4>3. Due # <<>> /\ Due[1] = sent[1]
        <5>1. /\ Due \in Seq(Sendable) /\ Len(Due) \in Nat /\ Len(sent) <= Len(Due)
              /\ \A k \in 1 .. Len(sent) : Due[k] = sent[k]
          BY DueIs DEF Setup
        <5> QED
          BY <4>1, <5>1, EmptySeq
      <4> QED
        BY <4>2, <4>3 DEF Setup, First
    <3> QED
      BY <3>1, <3>2
  <2> QED
    BY <1>2, <2>1, <2>2 DEF First
<1>18. Reading'
  <2>1. /\ framer.buffer \in Seq(Byte) /\ stream \in Seq(Byte)
        /\ framer.buffer \o stream \in Seq(Byte) /\ got \in Seq(Sendable) /\ Len(got) \in Nat
    <3>1. framer.buffer \in Seq(Byte) /\ stream \in Seq(Byte) /\ got \in Seq(Sendable)
      BY DEF Setup, Typing, Framers
    <3> QED
      BY <3>1, ConcatProperties
  <2>2. Line' = (framer.buffer \o stream) \o bytes
    <3>1. Line' = (framer.buffer \o (stream \o chunk)) \o rest
      <4>1. (IF lock' = "nobody" THEN <<>> ELSE thread'[lock'].bytes) = rest
        <5>1. CASE last
          <6>1. lock' = "nobody" /\ rest = <<>>
            BY <1>3, <1>5, <5>1
          <6> QED
            BY <6>1
        <5>2. CASE ~last
          <6>1. lock' = t /\ thread'[t].bytes = rest
            BY <1>3, <1>6, <5>2
          <6> QED
            BY <1>4, <6>1
        <5> QED
          BY <5>1, <5>2
      <4>2. Line' = (framer'.buffer \o stream') \o (IF lock' = "nobody" THEN <<>> ELSE thread'[lock'].bytes)
        BY Zenon DEF Line
      <4> QED
        BY <1>2, <1>3, <4>1, <4>2, Zenon
    <3>2. framer.buffer \o (stream \o chunk) = (framer.buffer \o stream) \o chunk
      <4>1. framer.buffer \in Seq(Byte) /\ stream \in Seq(Byte) /\ chunk \in Seq(Byte)
        BY <1>5, <2>1
      <4>2. \A a, b, c \in Seq(Byte) : (a \o b) \o c = a \o (b \o c)
        BY ConcatAssociative
      <4> QED
        BY <4>1, <4>2, Zenon
    <3>3. ((framer.buffer \o stream) \o chunk) \o rest = (framer.buffer \o stream) \o bytes
      BY <1>5, <2>1, Zenon
    <3> QED
      BY <3>1, <3>2, <3>3, Zenon
  <2>3. Framed(Line, Len(got), Due)
    BY <1>2 DEF Setup, Reading
  <2>4. Framed(Line', Len(got), Due')
    <3>1. CASE lock = t
      <4>1. Line' = Line /\ Due' = Due
        <5>1. Line = (framer.buffer \o stream) \o bytes /\ Due = Append(sent, m)
          BY <1>4, <3>1, Zenon DEF Line, Due, bytes, m
        <5> QED
          BY <1>16, <2>2, <5>1, Zenon
      <4> QED
        BY <2>3, <4>1
    <3>2. CASE lock = "nobody"
      <4>1. Line = framer.buffer \o stream /\ Due = sent /\ bytes = Encoded(m)
        <5>1. Line = (framer.buffer \o stream) \o <<>> /\ Due = sent
          BY <3>2, Zenon DEF Line, Due
        <5>2. (framer.buffer \o stream) \o <<>> = framer.buffer \o stream
          BY <2>1, ConcatEmptySeq, Zenon
        <5>3. bytes = Encoded(m)
          BY <1>4, <3>2
        <5> QED
          BY <5>1, <5>2, <5>3, Zenon
      <4>2. Len(got) \in 0 .. Len(sent)
        BY <1>7, <2>1 DEF Setup, Reading
      <4> DEFINE line == framer.buffer \o stream
      <4> HIDE DEF line
      <4>3. line \in Seq(Byte) /\ Framed(line, Len(got), sent) /\ Line' = line \o Encoded(m)
        BY <2>1, <2>2, <2>3, <4>1 DEF line
      <4> QED
        <5>1. Framed(line \o Encoded(m), Len(got), Append(sent, m))
          BY <1>4, <1>7, <4>2, <4>3, FramedAppend
        <5> QED
          BY <1>16, <4>3, <5>1, Zenon
    <3> QED
      BY <1>2, <3>1, <3>2
  <2>5. Len(got) <= Len(sent) /\ \A k \in 1 .. Len(got) : got[k] = sent[k]
    BY DEF Setup, Reading
  <2>6. Len(got) <= Len(sent') /\ \A k \in 1 .. Len(got) : got[k] = sent'[k]
    BY <1>7, <2>1, <2>5
  <2>7. got # <<>> => sent'[1] = Handshake
    <3> SUFFICES ASSUME got # <<>> PROVE sent'[1] = Handshake
      OBVIOUS
    <3>1. 1 \in 1 .. Len(got)
      BY <2>1, EmptySeq
    <3> QED
      BY <2>5, <2>6, <3>1 DEF Setup, Reading
  <2> QED
    BY <1>2, <2>4, <2>6, <2>7 DEF Setup, Reading
<1>19. Follows' /\ ByEarlyHave'
  BY <1>2 DEF Setup, Follows, ByEarlyHave
<1>20. Announces'
  <2> SUFFICES ASSUME NEW i \in Indices, has_piece(my_bitfield, i)
               PROVE  Announced(i)'
    BY <1>2 DEF Announces
  <2>1. Announced(i)
    BY <1>2 DEF Setup, Announces
  <2>2. CASE thread["receiver"].pc \in {"wait", "count", "snapshot"}
    BY <1>2, <1>6, <2>2, ThreadsAre DEF Announced, At
  <2>3. CASE At("receiver", "send") /\ Mentions(thread["receiver"].message, i)
    <3>1. CASE t = "receiver" /\ last
      BY <1>7, <2>3, <3>1 DEF Announced, m
    <3>2. CASE ~(t = "receiver" /\ last)
      BY <1>6, <2>3, <3>2, ThreadsAre DEF Announced, At, m
    <3> QED
      BY <3>1, <3>2
  <2>4. ASSUME NEW d \in Downloader, thread[d].pc \in {"broadcast", "send"}, thread[d].piece = i
        PROVE  Announced(i)'
    <3>1. CASE t = d /\ last
      <4>1. m = Have(i)
        BY <1>2, <2>4, <3>1 DEF Setup, Speech, At, m
      <4> QED
        BY <1>7, <3>1, <4>1 DEF Announced, Mentions
    <3>2. CASE ~(t = d /\ last)
      BY <1>6, <2>4, <3>2, ThreadsAre DEF Announced
    <3> QED
      BY <3>1, <3>2
  <2>5. CASE \E k \in 1 .. Len(sent) : Mentions(sent[k], i)
    BY <1>7, <2>5 DEF Announced
  <2> QED
    BY <2>1, <2>2, <2>3, <2>4, <2>5 DEF Announced
<1> QED
  BY <1>9, <1>10, <1>11, <1>12, <1>14, <1>15, <1>17, <1>18, <1>19, <1>20 DEF Setup

-----------------------------------------------------------------------------
(* The remote peer. *)

\* The bytes on their way.
LEMMA LineIs ==
    ASSUME Setup
    PROVE  /\ framer.buffer \in Seq(Byte) /\ stream \in Seq(Byte) /\ Rest \in Seq(Byte)
           /\ Line = framer.buffer \o (stream \o Rest)
           /\ Line \in Seq(Byte) /\ stream \o Rest \in Seq(Byte)
           /\ Len(framer.buffer) \in Nat /\ Len(Rest) \in Nat
           /\ Len(framer.buffer) + Len(Rest) <= Len(Line)
           /\ \A k \in 1 .. Len(framer.buffer) : Line[k] = framer.buffer[k]
<1> DEFINE b == framer.buffer
           more == stream \o Rest
<1>1. b \in Seq(Byte) /\ stream \in Seq(Byte) /\ Rest \in Seq(Byte)
  BY DueIs DEF Setup, Typing, Framers
<1>2. more \in Seq(Byte) /\ Len(more) = Len(stream) + Len(Rest)
  BY <1>1, ConcatProperties
<1>3. Line = b \o more
  <2>1. Line = (b \o stream) \o Rest
    BY DEF Line, Rest
  <2>2. \A x, y, z \in Seq(Byte) : (x \o y) \o z = x \o (y \o z)
    BY ConcatAssociative
  <2> QED
    BY <1>1, <2>1, <2>2, Zenon
<1> HIDE DEF b, more
<1>4. /\ b \o more \in Seq(Byte) /\ Len(b \o more) = Len(b) + Len(more)
      /\ \A k \in 1 .. Len(b) + Len(more) :
            (b \o more)[k] = IF k <= Len(b) THEN b[k] ELSE more[k - Len(b)]
  <2>1. b \in Seq(Byte) /\ more \in Seq(Byte)
    BY <1>1, <1>2 DEF b
  <2> QED
    BY <2>1, ConcatProperties
<1>5. Len(b) \in Nat /\ Len(stream) \in Nat /\ Len(Rest) \in Nat
  BY <1>1, LenProperties
<1>6. \A k \in 1 .. Len(b) : (b \o more)[k] = b[k]
  BY <1>2, <1>4, <1>5
<1>7. Len(b) + Len(Rest) <= Len(b \o more)
  BY <1>2, <1>4, <1>5
<1> QED
  BY <1>1, <1>2, <1>3, <1>4, <1>5, <1>6, <1>7, Zenon DEF b, more

LEMMA DropIs ==
    ASSUME NEW f \in Framers, NEW n \in 0 .. Len(f.buffer)
    PROVE  /\ Drop(f, n) \in Framers
           /\ Drop(f, n).buffer = SubSeq(f.buffer, n + 1, Len(f.buffer))
           /\ Drop(f, n).handshake_done = f.handshake_done
<1>1. f.buffer \in Seq(Byte)
  BY DEF Framers
<1>2. <<>> \in Seq(Byte)
  BY EmptySeq
<1> DEFINE rest == SubSeq(f.buffer, n + 1, Len(f.buffer))
<1>3. rest \in Seq(Byte)
  BY <1>1, <1>2, DroppedFirst
<1>4. Drop(f, n) = [f EXCEPT !.buffer = rest]
  BY DEF Drop
<1> HIDE DEF rest
<1>5. /\ Drop(f, n) \in Framers /\ Drop(f, n).buffer = rest
      /\ Drop(f, n).handshake_done = f.handshake_done
  BY <1>3, <1>4 DEF Framers
<1> QED
  BY <1>5 DEF rest

\* The message that the remote peer has not read yet, and what it sees of it.
LEMMA Ahead ==
    ASSUME Setup, open, Len(got) # Len(Due), NEW m, m = Due[Len(got) + 1]
    PROVE  /\ m \in Sendable /\ Len(got) + 1 \in 1 .. Len(Due) /\ Len(got) \in Nat
           /\ Agree(framer.buffer, Encoded(m))
           /\ Len(Encoded(m)) <= Len(Line)
           /\ Framed(SubSeq(Line, Len(Encoded(m)) + 1, Len(Line)), Len(got) + 1, Due)
           /\ Len(Encoded(m)) <= Len(framer.buffer) => Len(got) < Len(sent) /\ m = sent[Len(got) + 1]
           /\ got # <<>> => m # Handshake
           /\ got = <<>> => ~IsBitfield(m)
<1> DEFINE b == Encoded(m)
           from == Len(got)
<1>1. /\ Due \in Seq(Sendable) /\ Len(sent) \in Nat /\ Len(Due) \in Nat /\ Len(sent) <= Len(Due)
      /\ \A k \in 1 .. Len(sent) : Due[k] = sent[k]
  BY DueIs DEF Setup
<1>2. /\ got \in Seq(Sendable) /\ from \in Nat /\ from <= Len(sent)
      /\ Framed(Line, from, Due)
  BY DEF Setup, Typing, Reading
<1>3. from \in 0 .. Len(Due) - 1 /\ from + 1 \in 1 .. Len(Due)
  BY <1>1, <1>2
<1>4. m \in Sendable /\ b \in Seq(Byte) /\ Len(b) \in Nat \ {0}
  <2>1. m \in Sendable
    BY <1>1, <1>3
  <2> QED
    BY <2>1, SendableIs
<1>5. /\ Len(b) <= Len(Line)
      /\ \A j \in 1 .. Len(b) : Line[j] = b[j]
      /\ Framed(SubSeq(Line, Len(b) + 1, Len(Line)), from + 1, Due)
  <2> HIDE DEF from
  <2>1. Line \in Seq(Byte) /\ b = Encoded(Due[from + 1])
    BY LineIs DEF from
  <2> HIDE DEF b
  <2> QED
    BY <1>1, <1>2, <1>3, <2>1, FramedFirst
<1> HIDE DEF b
<1>6. Agree(framer.buffer, b)
  <2> SUFFICES ASSUME NEW k \in 1 .. Len(framer.buffer), k <= Len(b)
               PROVE  framer.buffer[k] = b[k]
    BY DEF Agree
  <2>1. Line[k] = framer.buffer[k]
    BY LineIs
  <2>2. k \in 1 .. Len(b)
    BY <1>4
  <2> QED
    BY <1>5, <2>1, <2>2
<1>7. ASSUME Len(b) <= Len(framer.buffer)
      PROVE  from < Len(sent) /\ m = sent[from + 1]
  <2>1. from # Len(sent)
    <3> SUFFICES ASSUME from = Len(sent) PROVE FALSE
      OBVIOUS
    <3>1. lock # "nobody" /\ Len(Due) = from + 1 /\ Rest # <<>> /\ Rest \in Seq(Byte)
      BY DueIs DEF Setup
    <3> DEFINE rest == SubSeq(Line, Len(b) + 1, Len(Line))
    <3>2. Line \in Seq(Byte) /\ Len(Line) \in Nat /\ Len(Line) # Len(b)
      <4>1. Len(Rest) \in Nat \ {0}
        BY <3>1, EmptySeq
      <4>2. /\ Len(framer.buffer) \in Nat /\ Len(framer.buffer) + Len(Rest) <= Len(Line)
            /\ Line \in Seq(Byte)
        BY LineIs
      <4>3. Len(Line) \in Nat
        BY <4>2, LenProperties
      <4> QED
        BY <1>4, <1>7, <4>1, <4>2, <4>3
    <3>3. rest \in Seq(Byte) /\ rest # <<>>
      <4>1. Len(b) \in 1 .. Len(Line)
        BY <1>4, <1>5, <3>2
      <4>2. <<>> \in Seq(Byte)
        BY EmptySeq
      <4> QED
        BY <3>2, <4>1, <4>2, RejoinedAfter
    <3>4. Framed(rest, Len(Due), Due)
      BY <1>5, <3>1
    <3> HIDE DEF rest
    <3> QED
      BY <3>3, <3>4, FramedNone
  <2> QED
    BY <1>1, <1>2, <2>1
<1>8. ASSUME got # <<>>
      PROVE  m # Handshake
  <2> SUFFICES ASSUME m = Handshake PROVE FALSE
    OBVIOUS
  <2>1. sent[1] = Handshake /\ from # 0
    BY <1>2, <1>8, EmptySeq DEF Setup, Reading
  <2>2. 1 \in 1 .. Len(sent)
    BY <1>1, <1>2, <2>1
  <2>3. CASE from < Len(sent)
    <3>1. from + 1 \in 1 .. Len(sent) /\ sent[from + 1] = Handshake
      <4>1. from + 1 \in 1 .. Len(sent)
        BY <1>1, <1>2, <2>3
      <4>2. Due[from + 1] = sent[from + 1]
        BY <1>1, <4>1
      <4> QED
        BY <4>1, <4>2
    <3>2. from + 1 = 1
      BY <2>1, <2>2, <3>1 DEF Setup, Single
    <3> QED
      BY <1>2, <2>1, <3>2
  <2>4. CASE ~(from < Len(sent))
    <3>1. from = Len(sent)
      BY <1>1, <1>2, <2>4
    <3>2. lock \in Threads /\ At(lock, "send") /\ m = thread[lock].message
      BY <3>1, DueIs DEF Setup
    <3>3. At("connector", "send")
      BY <3>2, Senders
    <3>4. At("connector", "done")
      BY <2>1, <2>2 DEF Setup, Once
    <3> QED
      BY <3>3, <3>4 DEF At
  <2> QED
    BY <2>3, <2>4
<1>9. ASSUME got = <<>>
      PROVE  ~IsBitfield(m)
  <2>1. from = 0 /\ m = Due[1] /\ Due # <<>>
    BY <1>2, <1>3, <1>9, EmptySeq
  <2> QED
    BY <2>1 DEF Setup, First
<1> QED
  BY <1>2, <1>3, <1>4, <1>5, <1>6, <1>7, <1>8, <1>9 DEF b

\* What a complete message is for the framer.
Whole(m, p) ==
    /\ Len(Encoded(m)) <= Len(framer.buffer)
    /\ p.value = m.value /\ p.payload = m.payload
    /\ p.framer = [Drop(framer, Len(Encoded(m))) EXCEPT !.handshake_done = TRUE]
    /\ p.kind = IF m = Handshake THEN "handshake" ELSE "message"

\* The framer has nothing, or the next message that was sent, or it takes the
\* HAVE of another thread for a handshake.
LEMMA NextMessage ==
    ASSUME Setup, open, NEW p, p = next_message(framer)
    PROVE  \/ /\ Len(got) = Len(Due) \/ Len(Encoded(Due[Len(got) + 1])) > Len(framer.buffer)
              /\ p.kind = "none"
           \/ /\ Len(got) < Len(sent) /\ Whole(sent[Len(got) + 1], p)
              /\ sent[Len(got) + 1] = Handshake <=> got = <<>>
           \/ /\ got = <<>> /\ Due # <<>> /\ \E i \in Indices : Due[1] = Have(i)
              /\ p.kind = "none" /\ Len(framer.buffer) < HandshakeLen
           \/ /\ got = <<>> /\ sent # <<>> /\ \E i \in Indices : sent[1] = Have(i)
              /\ p.kind = "error" /\ p.framer \in Framers
              /\ p.framer.handshake_done = framer.handshake_done
<1> DEFINE f == framer
           from == Len(got)
           m == Due[from + 1]
           b == Encoded(m)
<1>1. /\ f \in Framers /\ f.buffer \in Seq(Byte) /\ Len(f.buffer) \in Nat
      /\ f.handshake_done <=> got # <<>>
  BY LineIs DEF Setup, Typing, Reading
<1>2. p = IF f.handshake_done THEN ParseMessage(f) ELSE ParseHandshake(f)
  BY DEF next_message
<1>3. Nothing(f).kind = "none"
  BY DEF Nothing, Parsed
<1>4. CASE from = Len(Due)
  <2>1. Len(f.buffer) = 0
    <3>1. Line = <<>>
      <4>1. Framed(Line, Len(Due), Due)
        BY <1>4 DEF Setup, Reading
      <4> QED
        BY <4>1, LineIs, FramedNone
    <3>2. Len(f.buffer) + Len(Rest) <= Len(Line) /\ Len(Rest) \in Nat
      BY LineIs
    <3> QED
      BY <1>1, <3>1, <3>2
  <2>2. 0 < Width /\ 0 < HandshakeLen
    BY Numbers
  <2>3. ParseMessage(f) = Nothing(f) /\ ParseHandshake(f) = Nothing(f)
    <3>1. Len(f.buffer) < Width /\ Len(f.buffer) < HandshakeLen
      BY <2>1, <2>2
    <3> QED
      BY <3>1, Zenon DEF ParseMessage, ParseHandshake
  <2> QED
    BY <1>2, <1>3, <1>4, <2>3
<1>5. CASE from # Len(Due)
  <2>1. /\ m \in Sendable /\ Agree(f.buffer, b)
        /\ from + 1 \in 1 .. Len(Due) /\ from \in Nat
        /\ Len(b) <= Len(f.buffer) => from < Len(sent) /\ m = sent[from + 1]
        /\ got # <<>> => m # Handshake
        /\ got = <<>> => ~IsBitfield(m)
    BY <1>5, Ahead
  <2>2. /\ m = Handshake \/ IsBitfield(m) \/ \E i \in Indices : m = Have(i)
        /\ Len(b) \in Nat
        /\ m = Handshake => b = create_handshake(MyId) /\ Len(b) = HandshakeLen
        /\ m # Handshake =>
              /\ m.value \in Byte /\ m.payload \in Seq(Byte) /\ Fits(1 + Len(m.payload))
              /\ b = create_message(m.value, m.payload) /\ Len(b) = Width + 1 + Len(m.payload)
    BY <2>1, SendableIs
  <2> DEFINE Late == Len(b) > Len(f.buffer) /\ p.kind = "none"
             Now == from < Len(sent) /\ Whole(m, p) /\ m = sent[from + 1]
                    /\ (m = Handshake <=> got = <<>>)
  <2>3. CASE got # <<>>
    <3>1. p = ParseMessage(f) /\ m # Handshake /\ f.handshake_done = TRUE
      BY <1>1, <1>2, <2>1, <2>3 DEF Framers
    <3> HIDE DEF m, b, f
    <3>2. CASE Len(f.buffer) < Len(b)
      <4>1. p = Nothing(f)
        BY <1>1, <2>1, <2>2, <3>1, <3>2, ParsingMessages
      <4>2. Late
        BY <1>1, <1>3, <2>2, <3>2, <4>1
      <4> QED
        BY <4>2 DEF b, m, f
    <3>3. CASE Len(f.buffer) >= Len(b)
      <4>1. p = Parsed("message", m.value, m.payload, Drop(f, Len(b)))
        BY <1>1, <2>1, <2>2, <3>1, <3>3, ParsingMessages
      <4>2. Len(b) <= Len(f.buffer) /\ Len(b) \in 0 .. Len(f.buffer)
        BY <1>1, <2>2, <3>3
      <4> DEFINE g == Drop(f, Len(b))
      <4>3. g \in Framers /\ g.handshake_done = TRUE
        BY <1>1, <3>1, <4>2, DropIs
      <4> HIDE DEF g
      <4>4. g = [g EXCEPT !.handshake_done = TRUE]
        BY <4>3 DEF Framers
      <4>5. Now
        BY <2>1, <2>3, <3>1, <4>1, <4>2, <4>4 DEF Whole, Parsed, g, f, b
      <4> QED
        BY <4>5
    <3> QED
      BY <1>1, <2>2, <3>2, <3>3
  <2>4. CASE got = <<>> /\ m = Handshake
    <3>1. p = ParseHandshake(f) /\ b = create_handshake(MyId)
          /\ m.value = MyId /\ m.payload = <<>>
      BY <1>1, <1>2, <2>2, <2>4, HandshakeIs
    <3> HIDE DEF m, b, f
    <3>2. CASE Len(f.buffer) < Len(b)
      <4>1. p = Nothing(f)
        BY <1>1, <2>1, <3>1, <3>2, ParsingHandshake
      <4>2. Late
        BY <1>1, <1>3, <2>2, <3>2, <4>1
      <4> QED
        BY <4>2 DEF b, m, f
    <3>3. CASE Len(f.buffer) >= Len(b)
      <4>1. p = Parsed("handshake", MyId, <<>>, [Drop(f, Len(b)) EXCEPT !.handshake_done = TRUE])
        BY <1>1, <2>1, <3>1, <3>3, ParsingHandshake
      <4>2. Len(b) <= Len(f.buffer)
        BY <1>1, <2>2, <3>3
      <4>3. Now
        BY <2>1, <2>4, <3>1, <4>1, <4>2 DEF Whole, Parsed, f, b
      <4> QED
        BY <4>3
    <3> QED
      BY <1>1, <2>2, <3>2, <3>3
  <2>5. CASE got = <<>> /\ m # Handshake
    <3>1. PICK i \in Indices : m = Have(i)
      BY <2>1, <2>2, <2>5
    <3>2. /\ from = 0 /\ m = Due[1] /\ Due # <<>> /\ p = ParseHandshake(f)
          /\ m.value = HaveType /\ m.payload = Pack(i) /\ Len(Pack(i)) = Width
      <4>1. from = 0
        BY <2>5
      <4>2. Due # <<>>
        BY <2>1, EmptySeq
      <4> QED
        BY <1>1, <1>2, <2>5, <3>1, <4>1, <4>2, HaveIs
    <3>3. b = create_message(HaveType, Pack(i)) /\ Len(b) = 1 + 2 * Width
      <4> HIDE DEF m, b
      <4>1. b = create_message(m.value, m.payload) /\ Len(b) = Width + 1 + Len(m.payload)
        BY <2>2, <2>5
      <4>2. b = create_message(HaveType, Pack(i)) /\ Len(b) = Width + 1 + Width
        BY <3>2, <4>1
      <4>3. Width + 1 + Width = 1 + 2 * Width
        BY Numbers
      <4> QED
        BY <4>2, <4>3
    <3>4. Agree(f.buffer, create_message(HaveType, Pack(i)))
      BY <2>1, <3>3, Zenon
    <3> HIDE DEF m, b, f
    <3>5. CASE ParseHandshake(f).kind = "none" /\ Len(f.buffer) < HandshakeLen
      BY <2>5, <3>1, <3>2, <3>5 DEF f
    <3>6. CASE /\ ParseHandshake(f).kind = "error" /\ Len(f.buffer) >= HandshakeLen
               /\ ParseHandshake(f).framer = Drop(f, HandshakeLen)
      <4>1. from < Len(sent) /\ m = sent[1]
        <5>1. Len(b) <= Len(f.buffer)
          BY <1>1, <2>2, <3>3, <3>6, Numbers
        <5> QED
          BY <2>1, <3>2, <5>1
      <4>2. sent # <<>>
        BY <3>2, <4>1
      <4>3. HandshakeLen \in 0 .. Len(f.buffer)
        BY <1>1, <3>6, Numbers
      <4>4. p.framer \in Framers /\ p.framer.handshake_done = f.handshake_done
        BY <1>1, <3>2, <3>6, <4>3, DropIs
      <4> QED
        BY <2>5, <3>1, <3>2, <3>6, <4>1, <4>2, <4>4 DEF f
    <3> QED
      BY <1>1, <3>4, <3>5, <3>6, ParsingEarlyHave
  <2> QED
    BY <2>3, <2>4, <2>5
<1> QED
  BY <1>4, <1>5

\* A chunk is received: the bytes on their way are the same.
LEMMA Receives ==
    ASSUME Setup, Receive
    PROVE  Setup'
<1>1. PICK n \in 1 .. Len(stream) :
          /\ framer' = feed(framer, SubSeq(stream, 1, n))
          /\ stream' = SubSeq(stream, n + 1, Len(stream))
  BY DEF Receive
<1>2. /\ outgoing' = outgoing /\ key' = key /\ my_bitfield' = my_bitfield /\ thread' = thread
      /\ lock' = lock /\ sent' = sent /\ got' = got /\ view' = view /\ open' = open
  BY DEF Receive, local
<1> DEFINE b == framer.buffer
           chunk == SubSeq(stream, 1, n)
           rest == SubSeq(stream, n + 1, Len(stream))
<1>3. b \in Seq(Byte) /\ stream \in Seq(Byte) /\ framer \in Framers
  BY LineIs DEF Setup, Typing
<1>4. b \o stream = (b \o chunk) \o rest /\ chunk \in Seq(Byte) /\ rest \in Seq(Byte)
  <2> HIDE DEF b
  <2> QED
    BY <1>3, RejoinedAfter
<1> HIDE DEF chunk, rest
<1>5. /\ framer' \in Framers /\ framer'.buffer = b \o chunk
      /\ framer'.handshake_done = framer.handshake_done
  <2>1. b \o chunk \in Seq(Byte)
    BY <1>3, <1>4, ConcatProperties
  <2>2. framer' = [framer EXCEPT !.buffer = b \o chunk]
    BY <1>1 DEF feed, chunk
  <2> QED
    BY <1>3, <2>1, <2>2 DEF Framers
<1>6. Line' = Line
  <2>1. Line' = (framer'.buffer \o stream') \o (IF lock = "nobody" THEN <<>> ELSE thread[lock].bytes)
    BY <1>2 DEF Line
  <2>2. framer'.buffer \o stream' = b \o stream
    BY <1>1, <1>4, <1>5 DEF rest
  <2> QED
    BY <2>1, <2>2 DEF Line
<1>7. Due' = Due
  BY <1>2 DEF Due
<1>8. Typing'
  BY <1>1, <1>2, <1>4, <1>5 DEF Setup, Typing, rest
<1>9. Control' /\ Speech' /\ Kinds' /\ Once' /\ Single'
  BY <1>2 DEF Setup, Control, Speech, Kinds, Once, Single, At
<1>10. First' /\ Reading'
  BY <1>2, <1>5, <1>6, <1>7 DEF Setup, First, Reading, At
<1>11. Follows' /\ Announces' /\ ByEarlyHave'
  BY <1>2 DEF Setup, Follows, Announces, Announced, ByEarlyHave, At
<1> QED
  BY <1>8, <1>9, <1>10, <1>11 DEF Setup

\* Another message that is read, and its effect on one piece.
LEMMA OneMore ==
    ASSUME NEW i, NEW m \in Sendable, got \in Seq(Sendable), got' = Append(got, m),
           NEW old, NEW new,
           old <=> \E k \in 1 .. Len(got) :
                      Mentions(got[k], i) /\ \A l \in k + 1 .. Len(got) : ~Lacks(got[l], i),
           new <=> Mentions(m, i) \/ (old /\ ~Lacks(m, i))
    PROVE  new <=> \E k \in 1 .. Len(got') :
                      Mentions(got'[k], i) /\ \A l \in k + 1 .. Len(got') : ~Lacks(got'[l], i)
<1> DEFINE n == Len(got)
<1>1. /\ n \in Nat /\ Len(got') = n + 1 /\ got'[n + 1] = m
      /\ \A k \in 1 .. n : got'[k] = got[k]
  BY AppendProperties
<1> DEFINE Latest(k) == Mentions(got[k], i) /\ \A l \in k + 1 .. n : ~Lacks(got[l], i)
           After(k) == Mentions(got'[k], i) /\ \A l \in k + 1 .. n + 1 : ~Lacks(got'[l], i)
<1>2. ASSUME NEW k \in 1 .. n
      PROVE  After(k) <=> Latest(k) /\ ~Lacks(m, i)
  <2>1. \A l \in k + 1 .. n + 1 : l = n + 1 \/ l \in k + 1 .. n
    BY <1>1
  <2>2. n + 1 \in k + 1 .. n + 1 /\ \A l \in k + 1 .. n : l \in k + 1 .. n + 1 /\ got'[l] = got[l]
    BY <1>1
  <2>3. got'[k] = got[k]
    BY <1>1
  <2>4. (\A l \in k + 1 .. n + 1 : ~Lacks(got'[l], i)) <=>
            (\A l \in k + 1 .. n : ~Lacks(got[l], i)) /\ ~Lacks(m, i)
    BY <1>1, <2>1, <2>2
  <2> QED
    BY <2>3, <2>4
<1>3. After(n + 1) <=> Mentions(m, i)
  <2>1. \A l \in (n + 1) + 1 .. n + 1 : FALSE
    BY <1>1
  <2> QED
    BY <1>1, <2>1
<1>4. \A k \in 1 .. n + 1 : k \in 1 .. n \/ k = n + 1
  BY <1>1
<1>5. n + 1 \in 1 .. n + 1 /\ \A k \in 1 .. n : k \in 1 .. n + 1
  BY <1>1
<1>6. old <=> \E k \in 1 .. n : Latest(k)
  OBVIOUS
<1> SUFFICES new <=> \E k \in 1 .. n + 1 : After(k)
  BY <1>1
<1> HIDE DEF Latest, After, n
<1> QED
  BY <1>2, <1>3, <1>4, <1>5, <1>6

\* The next message is read, and the view follows it.
LEMMA Handles ==
    ASSUME Setup, HandleMessage
    PROVE  Setup'
<1> DEFINE p == next_message(framer)
           m == sent[Len(got) + 1]
           b == Encoded(m)
           index == Unpack(SubSeq(p.payload, 1, Width))
<1>1. /\ open /\ p.kind \in {"handshake", "message"}
      /\ framer' = p.framer
      /\ got' = Append(got, Message(p.value, p.payload))
      /\ view' = IF p.kind = "handshake" THEN view
                 ELSE IF p.value = BitfieldType THEN from_bytes(view, p.payload)
                 ELSE IF p.value = HaveType /\ Len(p.payload) >= Width THEN set_piece(view, index)
                 ELSE view
  BY DEF HandleMessage
<1>2. /\ outgoing' = outgoing /\ key' = key /\ my_bitfield' = my_bitfield /\ thread' = thread
      /\ lock' = lock /\ stream' = stream /\ sent' = sent /\ open' = open
  BY DEF HandleMessage, local
<1>3. Len(got) < Len(sent) /\ Whole(m, p) /\ (m = Handshake <=> got = <<>>)
  <2> HIDE DEF p
  <2>1. p = next_message(framer) /\ p.kind # "none" /\ p.kind # "error"
    BY <1>1 DEF p
  <2> QED
    BY <1>1, <2>1, NextMessage
<1> HIDE DEF p
<1>4. /\ got \in Seq(Sendable) /\ Len(got) \in Nat /\ sent \in Seq(Sendable) /\ Len(sent) \in Nat
      /\ Len(got) + 1 \in 1 .. Len(sent)
      /\ view \in Data /\ framer \in Framers /\ framer.buffer \in Seq(Byte)
      /\ Len(framer.buffer) \in Nat
  <2>1. got \in Seq(Sendable) /\ sent \in Seq(Sendable) /\ view \in Data /\ framer \in Framers
    BY DEF Setup, Typing
  <2> QED
    BY <1>3, <2>1, LineIs
<1>5. /\ m \in Sendable /\ m = Message(m.value, m.payload)
      /\ m = Handshake \/ IsBitfield(m) \/ \E i \in Indices : m = Have(i)
      /\ b \in Seq(Byte) /\ Len(b) \in Nat
  <2>1. m \in Sendable
    BY <1>4
  <2> HIDE DEF m
  <2> QED
    BY <2>1, SendableIs
<1> HIDE DEF m, b
<1>6. got' = Append(got, m)
  BY <1>1, <1>3, <1>5 DEF Whole
<1>7. /\ got' \in Seq(Sendable) /\ Len(got') = Len(got) + 1 /\ got'[Len(got) + 1] = m
      /\ \A k \in 1 .. Len(got) : got'[k] = got[k]
      /\ got' # <<>>
  <2>1. /\ Append(got, m) \in Seq(Sendable) /\ Len(Append(got, m)) = Len(got) + 1
        /\ Append(got, m)[Len(got) + 1] = m
        /\ \A k \in 1 .. Len(got) : Append(got, m)[k] = got[k]
        /\ Append(got, m) # <<>>
    BY <1>4, <1>5, AppendProperties
  <2> QED
    BY <1>6, <2>1, Zenon
<1>8. /\ framer' \in Framers /\ framer'.handshake_done = TRUE
      /\ framer'.buffer = SubSeq(framer.buffer, Len(b) + 1, Len(framer.buffer))
      /\ Len(b) \in 0 .. Len(framer.buffer)
  <2>1. /\ Len(b) <= Len(framer.buffer)
        /\ framer' = [Drop(framer, Len(b)) EXCEPT !.handshake_done = TRUE]
    BY <1>1, <1>3 DEF Whole, b
  <2>2. Len(b) \in 0 .. Len(framer.buffer)
    BY <1>4, <1>5, <2>1
  <2> DEFINE g == Drop(framer, Len(b))
  <2>3. g \in Framers /\ g.buffer = SubSeq(framer.buffer, Len(b) + 1, Len(framer.buffer))
    BY <1>4, <2>2, DropIs
  <2> HIDE DEF g
  <2>4. framer' = [g EXCEPT !.handshake_done = TRUE]
    BY <2>1 DEF g
  <2> QED
    BY <2>2, <2>3, <2>4 DEF Framers
<1>9. Due' = Due /\ Due[Len(got) + 1] = m /\ Len(got) # Len(Due)
  <2>1. Due' = Due
    BY <1>2 DEF Due
  <2>2. /\ Len(sent) <= Len(Due) /\ Len(Due) \in Nat
        /\ \A k \in 1 .. Len(sent) : Due[k] = sent[k]
    BY DueIs DEF Setup
  <2> QED
    BY <1>3, <1>4, <2>1, <2>2 DEF m
<1>10. Framed(Line', Len(got'), Due')
  <2> DEFINE s == framer.buffer
             t == stream \o Rest
             cut == SubSeq(s, Len(b) + 1, Len(s))
  <2>1. /\ s \in Seq(Byte) /\ stream \in Seq(Byte) /\ Rest \in Seq(Byte) /\ t \in Seq(Byte)
        /\ Line = s \o t
    BY LineIs
  <2>2. cut \in Seq(Byte) /\ cut \o t = SubSeq(s \o t, Len(b) + 1, Len(s \o t))
    <3> HIDE DEF s, t
    <3> QED
      BY <1>8, <2>1, DroppedFirst DEF s
  <2>3. Line' = (framer'.buffer \o stream) \o Rest
    BY <1>2, Zenon DEF Line, Rest
  <2>4. (cut \o stream) \o Rest = cut \o t
    <3>1. \A x, y, z \in Seq(Byte) : (x \o y) \o z = x \o (y \o z)
      BY ConcatAssociative
    <3> HIDE DEF cut
    <3> QED
      BY <2>1, <2>2, <3>1, Zenon
  <2>5. Line' = SubSeq(Line, Len(b) + 1, Len(Line))
    <3>1. framer'.buffer = cut
      BY <1>8
    <3> HIDE DEF cut, s, t
    <3> QED
      BY <2>1, <2>2, <2>3, <2>4, <3>1, Zenon
  <2>6. Framed(SubSeq(Line, Len(b) + 1, Len(Line)), Len(got) + 1, Due)
    BY <1>1, <1>9, Ahead DEF b
  <2> QED
    BY <1>7, <1>9, <2>5, <2>6
<1>11. ASSUME NEW i \in Indices
       PROVE  /\ view' \in Data
              /\ has_piece(view', i) <=> Mentions(m, i) \/ (has_piece(view, i) /\ ~Lacks(m, i))
  <2>1. CASE m = Handshake
    <3>1. view' = view
      BY <1>1, <1>3, <2>1 DEF Whole
    <3> QED
      BY <1>4, <2>1, <3>1, MentionsOne
  <2>2. CASE IsBitfield(m)
    <3>1. m # Handshake
      BY <2>2, HandshakeIs
    <3>2. p.kind = "message" /\ p.value = BitfieldType /\ p.payload = m.payload /\ m.payload \in Data
      BY <1>3, <2>2, <3>1 DEF Whole, IsBitfield
    <3>3. view' = from_bytes(view, m.payload)
      BY <1>1, <3>2
    <3>4. m.payload \in Seq(Byte)
      BY <3>2, BitfieldIs
    <3>5. view' \in Data /\ (has_piece(view', i) <=> has_piece(m.payload, i))
      BY <1>4, <3>2, <3>3, <3>4, FromBytes
    <3> QED
      BY <2>2, <3>5, MentionsOne
  <2>3. CASE \E j \in Indices : m = Have(j)
    <3>1. PICK j \in Indices : m = Have(j)
      BY <2>3
    <3>2. /\ m # Handshake /\ m.value = HaveType /\ m.payload = Pack(j) /\ Pack(j) \in Seq(Byte)
          /\ Len(Pack(j)) = Width /\ Unpack(Pack(j)) = j /\ HaveType # BitfieldType
      BY <3>1, HaveIs, Numbers
    <3>3. p.kind = "message" /\ p.value = HaveType /\ p.payload = Pack(j)
      BY <1>3, <3>2 DEF Whole
    <3>4. index = j
      <4>1. SubSeq(Pack(j), 1, Len(Pack(j))) = Pack(j)
        BY <3>2, SubSeqFull
      <4> QED
        BY <3>2, <3>3, <4>1
    <3>5. view' = set_piece(view, j)
      <4>1. Width >= Width
        BY Numbers
      <4> HIDE DEF index
      <4> QED
        BY <1>1, <3>2, <3>3, <3>4, <4>1
    <3>6. view' \in Data /\ (has_piece(view', i) <=> has_piece(view, i) \/ i = j)
      BY <1>4, <3>5, SetPiece
    <3> QED
      BY <3>1, <3>6, MentionsOne
  <2> QED
    BY <1>5, <2>1, <2>2, <2>3
<1>12. Typing'
  <2>1. view' \in Data
    <3>1. 0 \in Indices
      BY Sizes DEF Indices
    <3> QED
      BY <1>11, <3>1
  <2> QED
    BY <1>2, <1>7, <1>8, <2>1 DEF Setup, Typing
<1>13. Control' /\ Speech' /\ Kinds' /\ Once' /\ Single'
  BY <1>2 DEF Setup, Control, Speech, Kinds, Once, Single, At
<1>14. First' /\ Announces' /\ ByEarlyHave'
  BY <1>2, <1>9 DEF Setup, First, Announces, Announced, ByEarlyHave, At
<1>15. Reading'
  <2>1. Len(got') <= Len(sent') /\ \A k \in 1 .. Len(got') : got'[k] = sent'[k]
    <3>1. \A k \in 1 .. Len(got) + 1 : k \in 1 .. Len(got) \/ k = Len(got) + 1
      BY <1>4
    <3> QED
      BY <1>2, <1>3, <1>4, <1>7, <3>1 DEF Setup, Reading, m
  <2>2. sent'[1] = Handshake
    <3>1. CASE got = <<>>
      BY <1>2, <1>3, <3>1 DEF m
    <3>2. CASE got # <<>>
      BY <1>2, <3>2 DEF Setup, Reading
    <3> QED
      BY <3>1, <3>2
  <2> QED
    BY <1>7, <1>8, <1>10, <2>1, <2>2 DEF Reading
<1>16. Follows'
  <2> SUFFICES ASSUME NEW i \in Indices
               PROVE  has_piece(view', i) <=> \E k \in 1 .. Len(got') :
                        Mentions(got'[k], i) /\ \A l \in k + 1 .. Len(got') : ~Lacks(got'[l], i)
    BY DEF Follows
  <2> DEFINE old == has_piece(view, i)
             new == has_piece(view', i)
  <2>1. new <=> Mentions(m, i) \/ (old /\ ~Lacks(m, i))
    BY <1>11
  <2>2. old <=> \E k \in 1 .. Len(got) :
                   Mentions(got[k], i) /\ \A l \in k + 1 .. Len(got) : ~Lacks(got[l], i)
    BY DEF Setup, Follows
  <2> HIDE DEF old, new
  <2>3. new <=> \E k \in 1 .. Len(got') :
                   Mentions(got'[k], i) /\ \A l \in k + 1 .. Len(got') : ~Lacks(got'[l], i)
    BY <1>4, <1>5, <1>6, <2>1, <2>2, OneMore
  <2> QED
    BY <2>3 DEF new
<1> QED
  BY <1>12, <1>13, <1>14, <1>15, <1>16 DEF Setup

\* A HAVE instead of the handshake closes the connection.
LEMMA Closes ==
    ASSUME Setup, ParseError
    PROVE  Setup'
<1> DEFINE p == next_message(framer)
<1>1. /\ open /\ p.kind = "error" /\ framer' = p.framer /\ open' = FALSE
      /\ outgoing' = outgoing /\ key' = key /\ my_bitfield' = my_bitfield /\ thread' = thread
      /\ lock' = lock /\ stream' = stream /\ sent' = sent /\ got' = got /\ view' = view
  BY DEF ParseError, local
<1>2. /\ got = <<>> /\ sent # <<>> /\ \E i \in Indices : sent[1] = Have(i)
      /\ framer' \in Framers /\ framer'.handshake_done = framer.handshake_done
  <2> HIDE DEF p
  <2>1. p = next_message(framer) /\ p.kind # "none" /\ \A m : ~Whole(m, p)
    BY <1>1 DEF p, Whole
  <2> QED
    BY <1>1, <2>1, NextMessage
<1> HIDE DEF p
<1>3. Typing'
  BY <1>1, <1>2 DEF Setup, Typing
<1>4. Control' /\ Speech' /\ Kinds' /\ Once' /\ Single' /\ Follows'
  BY <1>1 DEF Setup, Control, Speech, Kinds, Once, Single, Follows, At
<1>5. First'
  <2>1. Due' = Due
    BY <1>1 DEF Due
  <2> QED
    BY <1>1, <2>1 DEF Setup, First
<1>6. Reading'
  BY <1>1, <1>2 DEF Setup, Reading
<1>7. Announces'
  BY <1>1 DEF Announces
<1>8. ByEarlyHave'
  <2>1. PICK i \in Indices : sent[1] = Have(i)
    BY <1>2
  <2>2. Due # <<>> /\ Due[1] = sent[1]
    <3>1. Due \in Seq(Sendable) /\ Len(sent) \in Nat /\ Len(Due) \in Nat /\ Len(sent) <= Len(Due)
          /\ \A k \in 1 .. Len(sent) : Due[k] = sent[k]
      BY DueIs DEF Setup
    <3>2. Len(sent) # 0
      BY <1>2, EmptySeq DEF Setup, Typing
    <3>3. 1 \in 1 .. Len(sent) /\ Len(Due) # 0
      BY <3>1, <3>2
    <3> QED
      BY <3>1, <3>3, EmptySeq
  <2> QED
    BY <1>1, <1>2, <2>1, <2>2 DEF Setup, First, ByEarlyHave
<1> QED
  BY <1>3, <1>4, <1>5, <1>6, <1>7, <1>8 DEF Setup

-----------------------------------------------------------------------------
(* The invariant. *)

LEMMA Begins ==
    ASSUME Init
    PROVE  Setup
<1>1. /\ outgoing \in BOOLEAN /\ key = "none" /\ my_bitfield \in {NoPieces, AllPieces}
      /\ lock = "nobody" /\ stream = <<>> /\ sent = <<>> /\ got = <<>> /\ framer = NewFramer
      /\ view = NoPieces /\ open = TRUE
  BY DEF Init
<1>2. /\ thread["connector"] = [Waits EXCEPT !.pc = "register"]
      /\ thread["receiver"] = Waits /\ \A d \in Downloader : thread[d] = Waits
      /\ thread \in [Threads -> ThreadStates]
      /\ \A t \in Threads : thread[t].pc \in {"wait", "register"}
  <2>1. thread = [t \in Threads |->
                    IF t = "connector" THEN [Waits EXCEPT !.pc = "register"] ELSE Waits]
    BY DEF Init
  <2>2. Waits \in ThreadStates /\ Waits.pc = "wait"
    <3>1. 0 \in Indices /\ <<>> \in Seq(Byte) /\ "wait" \in Steps
      BY Sizes, EmptySeq DEF Indices, Steps
    <3>2. Message(0, <<>>) \in Messages
      BY <3>1 DEF Message, Messages
    <3> QED
      BY <3>1, <3>2 DEF Waits, ThreadStates
  <2>3. [Waits EXCEPT !.pc = "register"] \in ThreadStates
        /\ [Waits EXCEPT !.pc = "register"].pc = "register"
    BY <2>2 DEF ThreadStates, Steps
  <2> QED
    BY <2>1, <2>2, <2>3, ThreadsAre
<1>3. /\ \A S : <<>> \in Seq(S)
      /\ Len(<<>>) = 0 /\ \A k \in 1 .. Len(<<>>) : FALSE
  BY EmptySeq
<1>4. NewFramer \in Framers /\ NewFramer.buffer = <<>> /\ NewFramer.handshake_done = FALSE
  BY <1>3 DEF NewFramer, Framers
<1>5. thread["connector"].pc = "register" /\ thread["receiver"].pc = "wait"
      /\ \A d \in Downloader : thread[d].pc = "wait"
  BY <1>2 DEF Waits
<1>6. Typing
  BY <1>1, <1>2, <1>3, <1>4, AllPiecesType DEF Typing
<1>7. Control
  BY <1>1, <1>5 DEF Control, At
<1>8. Speech
  BY <1>2, <1>5 DEF Speech, At
<1>9. Kinds /\ Once /\ Single
  <2>1. Kinds
    BY <1>1, <1>3 DEF Kinds
  <2>2. Once
    BY <1>1, <1>3, <1>5 DEF Once, At
  <2>3. Single
    BY <1>1, <1>3 DEF Single
  <2> QED
    BY <2>1, <2>2, <2>3
<1>10. Due = <<>>
  BY <1>1 DEF Due
<1>11. First
  BY <1>1, <1>5, <1>10 DEF First, At
<1>12. Reading
  <2>1. Line = (<<>> \o <<>>) \o <<>>
    BY <1>1, <1>4 DEF Line
  <2>2. Line = <<>>
    BY <1>3, <2>1, ConcatEmptySeq
  <2>3. Framed(Line, Len(got), Due)
    BY <1>1, <1>3, <1>10, <2>2, FramedStart
  <2> QED
    BY <1>1, <1>3, <1>4, <2>3 DEF Reading
<1>13. Follows
  <2>1. \A i \in Indices : ~has_piece(NoPieces, i)
    <3>1. ASSUME NEW i \in Indices PROVE ~has_piece(NoPieces, i)
      <4>1. NoPieces[ByteIndex(i)] = 0
        BY <3>1, Sizes DEF NoPieces
      <4>2. Mask(i) \in Nat \ {0}
        BY Bits, Offsets DEF Mask, Offset
      <4> DEFINE mask == Mask(i)
      <4> HIDE DEF mask
      <4>3. (0 \div mask) % 2 = 0
        BY <4>2 DEF mask
      <4> QED
        BY <4>1, <4>3 DEF has_piece, mask
    <3> QED
      BY <3>1
  <2>2. ~\E k \in 1 .. Len(got) : TRUE
    BY <1>1, <1>3
  <2> QED
    BY <1>1, <2>1, <2>2 DEF Follows
<1>14. Announces /\ ByEarlyHave
  BY <1>1, <1>5 DEF Announces, Announced, ByEarlyHave
<1> QED
  BY <1>6, <1>7, <1>8, <1>9, <1>11, <1>12, <1>13, <1>14 DEF Setup

LEMMA Continues ==
    ASSUME Setup, [Next]_vars
    PROVE  Setup'
<1>1. CASE Register
  BY <1>1, Registers
<1>2. CASE Greet
  BY <1>2, ReceivesHandshake, Counts, TakesSnapshot DEF Greet
<1>3. ASSUME NEW d \in Downloader, Download(d)
      PROVE  Setup'
  BY <1>3, Marks, Broadcasts DEF Download
<1>4. ASSUME NEW t \in Threads, Send(t) \/ SendFails(t)
      PROVE  Setup'
  BY <1>4, SendsSome, FailsToSend
<1>5. CASE RemoteThread
  BY <1>5, Receives, Handles, Closes DEF RemoteThread
<1>6. CASE UNCHANGED vars
  <2>1. /\ outgoing' = outgoing /\ key' = key /\ my_bitfield' = my_bitfield /\ thread' = thread
        /\ lock' = lock /\ stream' = stream /\ sent' = sent /\ framer' = framer /\ got' = got
        /\ view' = view /\ open' = open
    BY <1>6 DEF vars, local, remote
  <2>2. Typing' /\ Control' /\ Speech' /\ Kinds' /\ Once' /\ Single'
    BY <2>1 DEF Setup, Typing, Control, Speech, Kinds, Once, Single, At
  <2>3. Due' = Due /\ Line' = Line
    BY <2>1 DEF Due, Line
  <2>4. First' /\ Reading' /\ Follows' /\ Announces' /\ ByEarlyHave'
    BY <2>1, <2>3 DEF Setup, First, Reading, Follows, Announces, Announced, ByEarlyHave, At
  <2> QED
    BY <2>2, <2>4 DEF Setup
<1> QED
  BY <1>1, <1>2, <1>3, <1>4, <1>5, <1>6 DEF Next

\* The invariant holds on every connection: sizes, ids, pieces and threads as
\* many as you like.
THEOREM SetupHolds == Spec => []Setup
<1>1. Init => Setup
  BY Begins
<1>2. Setup /\ [Next]_vars => Setup'
  BY Continues
<1> QED
  BY <1>1, <1>2, PTL DEF Spec

-----------------------------------------------------------------------------
(* What follows from the invariant. *)

\* Every variable keeps its type: the bytes on the wire are bytes, and every
\* bitfield has its size (state.py 14-58), whatever is marked and received.
THEOREM TypesHold == Spec => []TypeOK
<1>1. Setup => TypeOK
  <2> SUFFICES ASSUME Setup PROVE TypeOK
    OBVIOUS
  <2>1. Typing
    BY DEF Setup
  <2>2. \A t \in Threads : thread[t] \in ThreadStates
    BY <2>1 DEF Typing
  <2>3. framer.buffer \in Seq(Byte) /\ framer.handshake_done \in BOOLEAN
    BY <2>1 DEF Typing, Framers
  <2> QED
    BY <2>1, <2>2, <2>3 DEF Typing, TypeOK, ThreadStates, Steps
<1> QED
  BY <1>1, SetupHolds, PTL

\* Who reads only true messages believes nothing else.
LEMMA NothingInvented ==
    ASSUME Setup, NEW i \in Indices, has_piece(view, i)
    PROVE  has_piece(my_bitfield, i)
<1>1. PICK k \in 1 .. Len(got) : Mentions(got[k], i)
  BY DEF Setup, Follows
<1>2. k \in 1 .. Len(sent) /\ got[k] = sent[k]
  <2>1. Len(got) \in Nat /\ Len(sent) \in Nat
    BY DEF Setup, Typing
  <2> QED
    BY <2>1 DEF Setup, Reading
<1> QED
  BY <1>1, <1>2 DEF Setup, Kinds

\* The remote peer never believes that we have a piece we have not: no message
\* is cut into by another thread's, and none is misread by the framer
\* (connection.py 22-31, protocol.py 57-89, peer_network.py 608-616).
THEOREM ViewIsTrue == Spec => []ViewTrue
<1>1. Setup => ViewTrue
  BY NothingInvented DEF ViewTrue, Pieces
<1> QED
  BY <1>1, SetupHolds, PTL

\* The remote peer closes the connection only if we opened it and a HAVE of
\* another thread went out before our handshake (peer_network.py 244-264,
\* 497-500): the framer then takes it for a handshake (protocol.py 63-70).
THEOREM OnlyEarlyHavesClose == Spec => []ClosedByEarlyHave
<1>1. Setup => ClosedByEarlyHave
  <2> SUFFICES ASSUME Setup, ~open
               PROVE  outgoing /\ sent # <<>> /\ sent[1].value = HaveType
    BY DEF ClosedByEarlyHave
  <2>1. outgoing /\ sent # <<>> /\ \E i \in Indices : sent[1] = Have(i)
    BY DEF Setup, ByEarlyHave
  <2> QED
    BY <2>1, HaveIs
<1> QED
  BY <1>1, SetupHolds, PTL

\* When everything is sent and parsed, everything that was sent was read.
LEMMA AllRead ==
    ASSUME Setup, Settled, open
    PROVE  /\ Len(got) = Len(sent) /\ \A k \in 1 .. Len(sent) : got[k] = sent[k]
           /\ At("receiver", "done") /\ At("connector", "done")
           /\ sent[1] = Handshake /\ Len(sent) \in Nat \ {0}
<1>1. At("receiver", "done") /\ At("connector", "done")
      /\ \A d \in Downloader : ~At(d, "send")
  BY DEF Settled, Setup, Control, At
<1>2. lock = "nobody"
  <2> SUFFICES ASSUME lock # "nobody" PROVE FALSE
    OBVIOUS
  <2>1. lock \in Threads /\ At(lock, "send")
    BY DEF Setup, Typing, Control
  <2> QED
    BY <1>1, <2>1, ThreadsAre DEF At
<1>3. Due = sent /\ Rest = <<>>
  BY <1>2 DEF Due, Rest
<1>4. Line = framer.buffer
  <2>1. framer.buffer \in Seq(Byte) /\ Line = framer.buffer \o (stream \o Rest) /\ stream = <<>>
    BY LineIs DEF Settled
  <2>2. <<>> \o <<>> = <<>> /\ framer.buffer \o <<>> = framer.buffer
    BY <2>1, ConcatEmptySeq, EmptySeq
  <2> QED
    BY <1>3, <2>1, <2>2
<1>5. Len(got) \in Nat /\ Len(sent) \in Nat /\ Len(got) <= Len(sent)
      /\ \A k \in 1 .. Len(got) : got[k] = sent[k]
  BY DEF Setup, Typing, Reading
<1>6. PICK h \in 1 .. Len(sent) : sent[h] = Handshake
  BY <1>1 DEF Setup, First
<1>7. Len(got) = Len(sent)
  <2> SUFFICES ASSUME Len(got) # Len(sent) PROVE FALSE
    OBVIOUS
  <2> DEFINE m == Due[Len(got) + 1]
             p == next_message(framer)
  <2>1. m \in Sendable /\ Len(Encoded(m)) <= Len(framer.buffer) /\ Len(Encoded(m)) \in Nat
    <3>1. m \in Sendable /\ Len(Encoded(m)) <= Len(Line)
      BY <1>3, Ahead
    <3> HIDE DEF m
    <3> QED
      BY <1>4, <3>1, SendableIs
  <2>2. p.kind = "none"
    BY DEF Settled
  <2>3. ~(Len(got) = Len(Due) \/ Len(Encoded(m)) > Len(framer.buffer))
    <3>1. Len(framer.buffer) \in Nat
      BY LineIs
    <3> HIDE DEF m
    <3> QED
      BY <1>3, <2>1, <3>1
  <2>4. ~Whole(sent[Len(got) + 1], p)
    BY <2>2 DEF Whole
  <2>5. got = <<>> /\ Len(framer.buffer) < HandshakeLen
    <3>1. p = next_message(framer)
      OBVIOUS
    <3> HIDE DEF p
    <3> QED
      BY <2>2, <2>3, <2>4, <3>1, NextMessage
  <2>6. Len(Encoded(sent[h])) <= Len(framer.buffer)
    <3>1. Framed(framer.buffer, 0, sent) /\ sent \in Seq(Sendable) /\ framer.buffer \in Seq(Byte)
      BY <1>3, <1>4, <2>5, LineIs DEF Setup, Reading, Typing
    <3>2. 0 \in 0 .. Len(sent) /\ h \in 0 + 1 .. Len(sent)
      BY <1>5
    <3> QED
      BY <3>1, <3>2, FramedLen
  <2>7. Len(Encoded(sent[h])) = HandshakeLen
    BY <1>6, HandshakeIs, SendableIs
  <2> QED
    BY <2>5, <2>6, <2>7, LineIs, Numbers
<1>8. sent[1] = Handshake
  <2>1. got # <<>>
    BY <1>5, <1>6, <1>7
  <2> QED
    BY <2>1 DEF Setup, Reading
<1> QED
  BY <1>1, <1>5, <1>6, <1>7, <1>8

\* A piece is missing from the view of the remote peer only if its HAVE was
\* overtaken.
LEMMA Converged ==
    ASSUME Setup, Settled, open, NEW i \in Indices
    PROVE  has_piece(view, i) <=> has_piece(my_bitfield, i) /\ i \notin Overtaken
<1>1. /\ Len(got) = Len(sent) /\ \A k \in 1 .. Len(sent) : got[k] = sent[k]
      /\ At("receiver", "done")
      /\ sent[1] = Handshake /\ Len(sent) \in Nat \ {0}
  BY AllRead
<1>2. has_piece(view, i) <=>
         \E k \in 1 .. Len(sent) :
            Mentions(sent[k], i) /\ \A l \in k + 1 .. Len(sent) : ~Lacks(sent[l], i)
  <2>1. has_piece(view, i) <=>
           \E k \in 1 .. Len(got) :
              Mentions(got[k], i) /\ \A l \in k + 1 .. Len(got) : ~Lacks(got[l], i)
    BY DEF Setup, Follows
  <2>2. \A k \in 1 .. Len(sent) : \A l \in k + 1 .. Len(sent) : l \in 1 .. Len(sent)
    BY <1>1
  <2> QED
    BY <1>1, <2>1, <2>2
<1>3. DOMAIN sent = 1 .. Len(sent) /\ sent \in Seq(Sendable)
  BY DEF Setup, Typing
<1>4. \A k, l \in 1 .. Len(sent) : /\ sent[k] = Have(i) /\ sent[l] = Have(i) => k = l
                                   /\ IsBitfield(sent[k]) /\ IsBitfield(sent[l]) => k = l
                                   /\ sent[k] = Handshake => k = 1
  BY <1>1 DEF Setup, Single
<1>5. i \in Overtaken <=>
         \E k, l \in 1 .. Len(sent) : k < l /\ sent[k] = Have(i) /\ Lacks(sent[l], i)
  <2>1. \A l \in 1 .. Len(sent) : sent[l].value = BitfieldType /\ l # 1 => IsBitfield(sent[l])
    <3> SUFFICES ASSUME NEW l \in 1 .. Len(sent), sent[l].value = BitfieldType, l # 1
                 PROVE  IsBitfield(sent[l])
      OBVIOUS
    <3>1. sent[l] \in Sendable /\ sent[l] # Handshake
      BY <1>3, <1>4
    <3>2. \A j \in Indices : Have(j).value # BitfieldType
      BY HaveIs, Numbers
    <3> QED
      BY <3>1, <3>2, SendableIs
  <2>2. \A k, l \in 1 .. Len(sent) : k < l => l # 1
    BY <1>1
  <2> QED
    BY <1>3, <2>1, <2>2 DEF Overtaken, Lacks, IsBitfield, Have
<1>6. ASSUME has_piece(my_bitfield, i), i \notin Overtaken
      PROVE  has_piece(view, i)
  <2>1. \E k \in 1 .. Len(sent) : Mentions(sent[k], i)
    <3>1. Announced(i)
      BY <1>6 DEF Setup, Announces
    <3> QED
      BY <1>1, <3>1 DEF Announced, Settled, At
  <2>2. PICK k \in 1 .. Len(sent) : Mentions(sent[k], i)
    BY <2>1
  <2>3. ASSUME NEW l \in k + 1 .. Len(sent), Lacks(sent[l], i)
        PROVE  FALSE
    <3>1. l \in 1 .. Len(sent) /\ k < l
      BY <1>1
    <3>2. ~IsBitfield(sent[k])
      BY <1>1, <1>4, <2>3, <3>1 DEF Lacks
    <3>3. sent[k] = Have(i)
      BY <2>2, <3>2 DEF Mentions
    <3> QED
      BY <1>5, <1>6, <2>3, <3>1, <3>3
  <2> QED
    BY <1>2, <2>2, <2>3
<1>7. ASSUME has_piece(view, i), i \in Overtaken
      PROVE  FALSE
  <2>1. PICK k \in 1 .. Len(sent) :
            Mentions(sent[k], i) /\ \A l \in k + 1 .. Len(sent) : ~Lacks(sent[l], i)
    BY <1>2, <1>7
  <2>2. PICK x, y \in 1 .. Len(sent) : x < y /\ sent[x] = Have(i) /\ Lacks(sent[y], i)
    BY <1>5, <1>7
  <2>3. CASE sent[k] = Have(i)
    <3>1. k = x
      BY <1>4, <2>2, <2>3
    <3>2. y \in k + 1 .. Len(sent)
      BY <1>1, <2>2, <3>1
    <3> QED
      BY <2>1, <2>2, <3>2
  <2>4. CASE IsBitfield(sent[k]) /\ has_piece(sent[k].payload, i)
    <3>1. k = y
      BY <1>4, <2>2, <2>4 DEF Lacks
    <3> QED
      BY <2>2, <2>4, <3>1 DEF Lacks
  <2> QED
    BY <2>1, <2>3, <2>4 DEF Mentions
<1> QED
  BY <1>6, <1>7, NothingInvented

\* Once everything is sent and parsed, the remote peer knows every piece we
\* have, except one whose HAVE overtook the older bitfield of the same
\* connection (peer_network.py 391-403, 497-500, 608-616).
THEOREM ViewsConverge == Spec => []ViewConverges
<1>1. Setup => ViewConverges
  BY Converged DEF ViewConverges, Pieces
<1> QED
  BY <1>1, SetupHolds, PTL

-----------------------------------------------------------------------------
(* The refinement. *)

\* Each step as one of the stream of messages.
LEMMA StreamStep ==
    ASSUME Setup, [Next]_vars
    PROVE  [Stream!Next]_Stream!vars
<1>1. sent \in Seq(Sendable) /\ Len(sent) \in Nat
  BY DEF Setup, Typing
<1>2. ASSUME UNCHANGED <<sent, got, open>>
      PROVE  [Stream!Next]_Stream!vars
  BY <1>2 DEF Stream!vars
<1>3. CASE Register \/ Greet \/ \E d \in Downloader : Download(d)
  BY <1>2, <1>3 DEF Register, Greet, ReceiveHandshake, CountPieces, TakeSnapshot, Download,
                    MarkPiece, BroadcastHave, remote
<1>4. ASSUME NEW t \in Threads, Send(t)
      PROVE  [Stream!Next]_Stream!vars
  <2> DEFINE m == thread[t].message
  <2>1. PICK n \in 1 .. Len(thread[t].bytes) : Chunk(t, n)
    BY <1>4 DEF Send
  <2>2. sent' = Append(sent, m) \/ sent' = sent
    BY <2>1 DEF Chunk
  <2>3. got' = got /\ open' = open
    BY <1>4 DEF Send, remote
  <2>4. m \in Sendable
    BY <1>4, Senders DEF Send
  <2>5. CASE sent' = Append(sent, m)
    <3> HIDE DEF m
    <3> DEFINE more == Append(sent, m)
    <3>1. /\ more \in Seq(Sendable) /\ Len(more) = Len(sent) + 1
          /\ \A k \in 1 .. Len(sent) : more[k] = sent[k]
      BY <1>1, <2>4, AppendProperties
    <3> HIDE DEF more
    <3>2. SubSeq(more, 1, Len(sent)) = sent
      BY <1>1, <3>1
    <3>3. sent' = more
      BY <2>5 DEF more
    <3> QED
      BY <2>3, <3>1, <3>2, <3>3 DEF Stream!Next, Stream!Send
  <2>6. CASE sent' = sent
    BY <1>2, <2>3, <2>6
  <2> QED
    BY <2>2, <2>5, <2>6
<1>5. ASSUME NEW t \in Threads, SendFails(t)
      PROVE  [Stream!Next]_Stream!vars
  BY <1>2, <1>5 DEF SendFails, remote
<1>6. CASE Receive
  BY <1>2, <1>6 DEF Receive
<1>7. CASE HandleMessage
  <2> DEFINE p == next_message(framer)
             m == sent[Len(got) + 1]
  <2>1. /\ open /\ p.kind \in {"handshake", "message"}
        /\ got' = Append(got, Message(p.value, p.payload)) /\ sent' = sent /\ open' = open
    BY <1>7 DEF HandleMessage
  <2>2. Len(got) < Len(sent) /\ Whole(m, p)
    <3>1. p = next_message(framer)
      OBVIOUS
    <3> HIDE DEF p
    <3> QED
      BY <2>1, <3>1, NextMessage
  <2>3. Message(p.value, p.payload) = m
    <3>1. Len(got) + 1 \in 1 .. Len(sent)
      <4>1. Len(got) \in Nat
        BY DEF Setup, Typing
      <4> QED
        BY <1>1, <2>2, <4>1
    <3>2. m \in Sendable
      BY <1>1, <3>1
    <3> HIDE DEF m, p
    <3>3. m = Message(m.value, m.payload)
      BY <3>2, SendableIs
    <3> QED
      BY <2>2, <3>3 DEF Whole
  <2> QED
    BY <2>1, <2>2, <2>3 DEF Stream!Next, Stream!Deliver
<1>8. CASE ParseError
  BY <1>8 DEF ParseError, Stream!Next, Stream!Close
<1>9. CASE UNCHANGED vars
  BY <1>2, <1>9 DEF vars, remote
<1> QED
  BY <1>3, <1>4, <1>5, <1>6, <1>7, <1>8, <1>9 DEF Next, RemoteThread

\* The chunks that threads send under the lock, the receive loop and the framer
\* deliver whole messages, in the order in which they were sent, or the
\* connection is closed (connection.py 22-46, protocol.py 57-89): the safety
\* part of MessageStream.
THEOREM ConnectionIsAStream == Spec => Stream!Safety
<1>1. Init => Stream!Init
  BY DEF Init, Stream!Init
<1>2. Setup /\ [Next]_vars => [Stream!Next]_Stream!vars
  BY StreamStep
<1> QED
  BY <1>1, <1>2, SetupHolds, PTL DEF Spec, Stream!Safety

=============================================================================
