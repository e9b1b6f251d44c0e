------------------------------ MODULE LinkProofs ------------------------------
(***************************************************************************)
(* The two ends of a connection: what each of them holds of the other, up  *)
(* to what is under way, and that no request waits for nothing; for every  *)
(* number of peers and pieces, any schedule, crashes and failed writes.    *)
(***************************************************************************)
EXTENDS SwarmProofs, WellFoundedInduction

-----------------------------------------------------------------------------
(* What a stream will have told of a flag of its sender. *)

\* A set of positions has a last one.
LEMMA LastOne ==
    ASSUME NEW n \in Nat, NEW T \in SUBSET (1 .. n), T # {}
    PROVE  \E k \in T : \A m \in T : m <= k
<1> DEFINE S == { n - k : k \in T }
<1>1. S \subseteq Nat /\ S # {}
  <2>1. \A k \in T : n - k \in Nat
    OBVIOUS
  <2> QED
    BY <2>1
<1>2. \E x \in S : \A y \in S : ~(y < x)
  <2> DEFINE R == OpToRel(<, Nat)
  <2>1. IsWellFoundedOn(R, Nat)
    BY NatLessThanWellFounded
  <2>2. \A x, y \in Nat : y < x => <<y, x>> \in R
    BY DEF OpToRel
  <2> HIDE DEF R, S
  <2>3. \E x \in S : \A y \in S : ~(<<y, x>> \in R)
    BY <1>1, <2>1, WFMin
  <2> QED
    BY <1>1, <2>2, <2>3
<1>3. PICK k \in T : \A y \in S : ~(y < n - k)
  BY <1>2
<1>4. \A m \in T : m <= k
  BY <1>3
<1> QED
  BY <1>4

\* The messages of type on or off in c.
Told(c, on, off) == { n \in DOMAIN c : c[n].type \in {on, off} }

\* The positions of a stream that goes on with d.
LEMMA ConcatShape ==
    ASSUME NEW c \in Seq(Message), NEW d \in Seq(Message)
    PROVE  /\ c \o d \in Seq(Message)
           /\ Len(c) \in Nat /\ DOMAIN c = 1 .. Len(c)
           /\ Len(d) \in Nat /\ DOMAIN d = 1 .. Len(d)
           /\ DOMAIN (c \o d) = 1 .. Len(c) + Len(d)
           /\ \A n \in 1 .. Len(c) : (c \o d)[n] = c[n]
           /\ \A n \in 1 .. Len(d) : (c \o d)[Len(c) + n] = d[n]
<1>1. /\ c \o d \in Seq(Message)
      /\ Len(c) \in Nat /\ DOMAIN c = 1 .. Len(c)
      /\ Len(d) \in Nat /\ DOMAIN d = 1 .. Len(d)
      /\ DOMAIN (c \o d) = 1 .. Len(c) + Len(d)
      /\ \A i \in 1 .. Len(c) + Len(d) :
            (c \o d)[i] = IF i <= Len(c) THEN c[i] ELSE d[i - Len(c)]
  BY ConcatProperties, LenProperties
<1>2. ASSUME NEW n \in 1 .. Len(d)
      PROVE  (c \o d)[Len(c) + n] = d[n]
  <2>1. Len(c) + n \in 1 .. Len(c) + Len(d) /\ ~(Len(c) + n <= Len(c)) /\ Len(c) + n - Len(c) = n
    BY <1>1
  <2> QED
    BY <1>1, <2>1
<1> QED
  BY <1>1, <1>2

\* What a stream settles, it settles one half after the other.
LEMMA SettlesConcat ==
    ASSUME NEW c \in Seq(Message), NEW d \in Seq(Message), NEW on, NEW off, NEW now
    PROVE  Settles(c \o d, on, off, now) = Settles(d, on, off, Settles(c, on, off, now))
<1> DEFINE e == c \o d
<1>1. /\ Len(c) \in Nat /\ DOMAIN c = 1 .. Len(c)
      /\ Len(d) \in Nat /\ DOMAIN d = 1 .. Len(d)
      /\ DOMAIN e = 1 .. Len(c) + Len(d)
      /\ \A n \in 1 .. Len(c) : e[n] = c[n]
      /\ \A n \in 1 .. Len(d) : e[Len(c) + n] = d[n]
  BY ConcatShape
<1> HIDE DEF e
<1>2. CASE Told(d, on, off) = {}
  <2>1. Told(e, on, off) = Told(c, on, off)
    <3>1. \A n \in DOMAIN e : n \in 1 .. Len(c) \/ \E k \in 1 .. Len(d) : n = Len(c) + k
      <4> SUFFICES ASSUME NEW n \in 1 .. Len(c) + Len(d), n \notin 1 .. Len(c)
                   PROVE  n - Len(c) \in 1 .. Len(d) /\ n = Len(c) + (n - Len(c))
        BY <1>1
      <4> QED
        BY <1>1
    <3>2. \A n \in 1 .. Len(c) : n \in DOMAIN e
      BY <1>1
    <3> QED
      BY <1>1, <1>2, <3>1, <3>2, SMTT(30) DEF Told
  <2>2. \A n \in Told(c, on, off) : e[n] = c[n]
    BY <1>1 DEF Told
  <2> QED
    BY <1>2, <2>1, <2>2 DEF Settles, Told, e
<1>3. CASE Told(d, on, off) # {}
  <2>1. \A k \in Told(d, on, off) : Len(c) + k \in Told(e, on, off)
    <3>1. \A k \in 1 .. Len(d) : Len(c) + k \in DOMAIN e
      BY <1>1
    <3> QED
      BY <1>1, <3>1 DEF Told
  <2>2. \A n \in Told(e, on, off) : n <= Len(c) \/ \E k \in Told(d, on, off) : n = Len(c) + k
    <3> SUFFICES ASSUME NEW n \in Told(e, on, off), ~(n <= Len(c))
                 PROVE  n - Len(c) \in Told(d, on, off) /\ n = Len(c) + (n - Len(c))
      BY <1>1 DEF Told
    <3>1. n - Len(c) \in 1 .. Len(d) /\ n = Len(c) + (n - Len(c))
      BY <1>1 DEF Told
    <3> QED
      BY <1>1, <3>1 DEF Told
  <2>3. Told(d, on, off) \subseteq Nat /\ Told(e, on, off) \subseteq Nat
    BY <1>1 DEF Told
  <2>4. (\E n \in Told(e, on, off) : (\A m \in Told(e, on, off) : m <= n) /\ e[n].type = on)
            <=> (\E k \in Told(d, on, off) : (\A j \in Told(d, on, off) : j <= k) /\ d[k].type = on)
    <3>1. ASSUME NEW n \in Told(e, on, off), \A m \in Told(e, on, off) : m <= n, e[n].type = on
          PROVE  \E k \in Told(d, on, off) : (\A j \in Told(d, on, off) : j <= k) /\ d[k].type = on
      <4>1. ~(n <= Len(c))
        <5>1. PICK k \in Told(d, on, off) : TRUE
          BY <1>3
        <5>2. Len(c) + k <= n /\ k \in 1 .. Len(d)
          BY <1>1, <2>1, <3>1 DEF Told
        <5> QED
          BY <1>1, <2>3, <5>2
      <4>2. PICK k \in Told(d, on, off) : n = Len(c) + k
        BY <2>2, <4>1
      <4>3. \A j \in Told(d, on, off) : j <= k
        BY <1>1, <2>1, <2>3, <3>1, <4>2
      <4>4. d[k].type = on
        BY <1>1, <3>1, <4>2 DEF Told
      <4> QED
        BY <4>3, <4>4
    <3>2. ASSUME NEW k \in Told(d, on, off), \A j \in Told(d, on, off) : j <= k, d[k].type = on
          PROVE  \E n \in Told(e, on, off) : (\A m \in Told(e, on, off) : m <= n) /\ e[n].type = on
      <4>1. Len(c) + k \in Told(e, on, off) /\ e[Len(c) + k].type = on
        BY <1>1, <2>1, <3>2 DEF Told
      <4>2. \A m \in Told(e, on, off) : m <= Len(c) + k
        BY <1>1, <2>2, <2>3, <3>2
      <4> QED
        BY <4>1, <4>2
    <3> QED
      BY <3>1, <3>2
  <2>5. Told(e, on, off) # {}
    BY <1>3, <2>1
  <2> QED
    BY <1>3, <2>4, <2>5 DEF Settles, Told, e
<1> QED
  BY <1>2, <1>3

\* Nothing said, nothing changed.
LEMMA SettlesEmpty ==
    ASSUME NEW on, NEW off, NEW now
    PROVE  Settles(<<>>, on, off, now) = now
  BY DEF Settles

Says(m, on) == m.type = on

\* One message that speaks of the flag sets it.
LEMMA SettlesOne ==
    ASSUME NEW m, NEW on, NEW off, NEW now, m.type \in {on, off}
    PROVE  Settles(<<m>>, on, off, now) = Says(m, on)
<1> DEFINE said == \E n \in {1} : (\A k \in {1} : k <= n) /\ <<m>>[n].type = on
<1>1. DOMAIN <<m>> = {1} /\ <<m>>[1] = m
  OBVIOUS
<1>2. { n \in DOMAIN <<m>> : <<m>>[n].type \in {on, off} } = {1}
  BY <1>1
<1>3. Settles(<<m>>, on, off, now) = said
  BY <1>2 DEF Settles
<1>4. said = IF m.type = on THEN TRUE ELSE FALSE
  BY <1>1
<1>5. (IF m.type = on THEN TRUE ELSE FALSE) = Says(m, on)
  BY DEF Says
<1> HIDE DEF said
<1> QED
  BY <1>3, <1>4, <1>5

\* One message about something else leaves the flag.
LEMMA SettlesSilent ==
    ASSUME NEW m, NEW on, NEW off, NEW now, m.type \notin {on, off}
    PROVE  Settles(<<m>>, on, off, now) = now
<1>1. DOMAIN <<m>> = {1} /\ <<m>>[1] = m
  OBVIOUS
<1>2. { n \in DOMAIN <<m>> : <<m>>[n].type \in {on, off} } = {}
  BY <1>1
<1> QED
  BY <1>2 DEF Settles

\* Reading a stream takes its first message off.
LEMMA HeadThenTail ==
    ASSUME NEW c \in Seq(Message), c # <<>>
    PROVE  c = <<Head(c)>> \o Tail(c)
<1> DEFINE h == <<Head(c)>>
           d == Tail(c)
<1>1. /\ Len(c) \in Nat \ {0} /\ Head(c) = c[1]
      /\ Head(c) \in Message /\ d \in Seq(Message) /\ Len(d) = Len(c) - 1
      /\ \A i \in 1 .. Len(c) - 1 : d[i] = c[i + 1]
  BY HeadTailProperties, LenProperties, EmptySeq
<1>2. h \in Seq(Message) /\ Len(h) = 1 /\ h[1] = Head(c)
  BY <1>1
<1> HIDE DEF h, d
<1>3. /\ h \o d \in Seq(Message) /\ Len(h \o d) = Len(c)
      /\ \A i \in 1 .. Len(c) : (h \o d)[i] = IF i <= 1 THEN h[i] ELSE d[i - 1]
  <2>1. /\ h \o d \in Seq(Message) /\ Len(h \o d) = Len(h) + Len(d)
        /\ \A i \in 1 .. Len(h) + Len(d) :
              (h \o d)[i] = IF i <= Len(h) THEN h[i] ELSE d[i - Len(h)]
    BY <1>1, <1>2, ConcatProperties
  <2>2. Len(h) + Len(d) = Len(c)
    BY <1>1, <1>2
  <2> QED
    BY <1>2, <2>1, <2>2
<1>4. ASSUME NEW i \in 1 .. Len(c) PROVE (h \o d)[i] = c[i]
  <2>1. CASE i = 1
    BY <1>1, <1>2, <1>3, <2>1
  <2>2. CASE i # 1
    <3>1. i - 1 \in 1 .. Len(c) - 1 /\ ~(i <= 1) /\ i - 1 + 1 = i
      BY <1>1, <2>2
    <3> QED
      BY <1>1, <1>3, <3>1
  <2> QED
    BY <2>1, <2>2
<1> QED
  BY <1>3, <1>4, SeqEqual DEF h, d

\* The first message stays the first when more are sent.
LEMMA HeadConcat ==
    ASSUME NEW c \in Seq(Message), NEW d \in Seq(Message)
    PROVE  /\ c # <<>> => c \o d # <<>> /\ Head(c \o d) = Head(c)
           /\ c = <<>> => c \o d = d
<1>1. CASE c = <<>>
  BY <1>1, ConcatEmptySeq
<1>2. CASE c # <<>>
  <2>1. Len(c) \in Nat \ {0} /\ Len(d) \in Nat
    BY <1>2, EmptySeq, LenProperties
  <2>2. /\ c \o d \in Seq(Message) /\ (c \o d)[1] = c[1]
        /\ 1 \in DOMAIN (c \o d)
    BY <2>1, ConcatShape
  <2>3. c \o d # <<>>
    BY <2>2
  <2> QED
    BY <1>2, <2>2, <2>3
<1> QED
  BY <1>1, <1>2

\* Sending nothing.
LEMMA NothingThen ==
    \A c \in Seq(Message) : <<>> \o c = c
  BY HeadConcat, MessageTypes

\* A set of messages that says nothing of the flag.
LEMMA SettlesNone ==
    ASSUME NEW c \in Seq(Message), NEW on, NEW off, NEW now,
           \A m \in Elems(c) : m.type \notin {on, off}
    PROVE  Settles(c, on, off, now) = now
  BY DEF Settles, Elems

\* A flag that was down and goes up was told to.
LEMMA SettlesOn ==
    ASSUME NEW c \in Seq(Message), NEW on, NEW off, Settles(c, on, off, FALSE)
    PROVE  \E m \in Elems(c) : m.type = on
  BY DEF Settles, Elems

-----------------------------------------------------------------------------
(* What a stream will have told of the pieces of its sender. *)

Shows(m, x) == \/ m.type = "HAVE" /\ m.piece = x
               \/ m.type = "BITFIELD" /\ x \in m.bitfield

\* No BITFIELD follows position n of c.
NoneAfter(c, n) == \A k \in DOMAIN c : c[k].type = "BITFIELD" => k <= n

\* What makes x a piece of the view: a message after which the view is not
\* replaced any more shows it, or it was there and nothing replaces it.
LEMMA ViewMembers ==
    ASSUME NEW c \in Seq(Message), NEW V, NEW x
    PROVE  x \in ViewAfter(c, V) <=>
              \/ \E n \in DOMAIN c : Shows(c[n], x) /\ NoneAfter(c, n)
              \/ x \in V /\ NoneAfter(c, 0)
<1> DEFINE replaced == { n \in DOMAIN c : c[n].type = "BITFIELD" }
           last == { n \in replaced : \A m \in replaced : m <= n }
           start == IF last = {} THEN V ELSE UNION { c[n].bitfield : n \in last }
           added == { c[n].piece : n \in
                       { m \in DOMAIN c : c[m].type = "HAVE" /\ \A l \in last : l < m } }
<1>1. Len(c) \in Nat /\ DOMAIN c = 1 .. Len(c) /\ DOMAIN c \subseteq Nat \ {0}
  BY LenProperties
<1>2. replaced # {} => last # {}
  <2>1. replaced \in SUBSET (1 .. Len(c))
    BY <1>1
  <2> HIDE DEF replaced
  <2> QED
    BY <1>1, <2>1, LastOne
<1>3. ASSUME NEW n \in last PROVE NoneAfter(c, n) /\ n \in DOMAIN c /\ c[n].type = "BITFIELD"
  BY <1>3 DEF NoneAfter
<1>4. x \in start <=>
         \/ \E n \in DOMAIN c : c[n].type = "BITFIELD" /\ x \in c[n].bitfield /\ NoneAfter(c, n)
         \/ x \in V /\ NoneAfter(c, 0)
  <2>1. last = { n \in DOMAIN c : c[n].type = "BITFIELD" /\ NoneAfter(c, n) }
    BY DEF NoneAfter
  <2>2. last = {} <=> NoneAfter(c, 0)
    BY <1>1, <1>2 DEF NoneAfter
  <2> HIDE DEF last
  <2> QED
    BY <2>1, <2>2
<1>5. x \in added <=> \E n \in DOMAIN c : c[n].type = "HAVE" /\ c[n].piece = x /\ NoneAfter(c, n)
  <2>1. ASSUME NEW n \in DOMAIN c, c[n].type = "HAVE"
        PROVE  (\A l \in last : l < n) <=> NoneAfter(c, n)
    <3>1. CASE replaced = {}
      BY <3>1 DEF NoneAfter
    <3>2. CASE replaced # {}
      <4>1. PICK l \in last : TRUE
        BY <1>2, <3>2
      <4>2. (\A k \in replaced : k <= l) /\ l \in replaced /\ replaced \subseteq Nat /\ n \in Nat
        BY <1>1
      <4>3. n \notin replaced
        BY <2>1
      <4>4. NoneAfter(c, n) <=> \A k \in replaced : k <= n
        BY DEF NoneAfter
      <4>5. last \subseteq replaced
        OBVIOUS
      <4> HIDE DEF last, replaced
      <4> QED
        BY <4>1, <4>2, <4>3, <4>4, <4>5
    <3> QED
      BY <3>1, <3>2
  <2> HIDE DEF last
  <2> QED
    BY <2>1
<1>6. ViewAfter(c, V) = start \cup added
  BY DEF ViewAfter
<1> HIDE DEF start, added, last, replaced
<1> QED
  BY <1>4, <1>5, <1>6 DEF Shows

\* A view is told one half of the stream after the other.
LEMMA ViewConcat ==
    ASSUME NEW c \in Seq(Message), NEW d \in Seq(Message), NEW V
    PROVE  ViewAfter(c \o d, V) = ViewAfter(d, ViewAfter(c, V))
<1> DEFINE e == c \o d
<1>1. /\ e \in Seq(Message)
      /\ Len(c) \in Nat /\ DOMAIN c = 1 .. Len(c)
      /\ Len(d) \in Nat /\ DOMAIN d = 1 .. Len(d)
      /\ DOMAIN e = 1 .. Len(c) + Len(d)
      /\ \A n \in 1 .. Len(c) : e[n] = c[n]
      /\ \A n \in 1 .. Len(d) : e[Len(c) + n] = d[n]
  BY ConcatShape
<1> HIDE DEF e
<1>2. \A n \in DOMAIN e : n \in DOMAIN c \/ \E k \in DOMAIN d : n = Len(c) + k
  <2> SUFFICES ASSUME NEW n \in 1 .. Len(c) + Len(d), n \notin 1 .. Len(c)
               PROVE  n - Len(c) \in 1 .. Len(d) /\ n = Len(c) + (n - Len(c))
    BY <1>1
  <2> QED
    BY <1>1
<1>3. /\ \A n \in DOMAIN c : n \in DOMAIN e
      /\ \A k \in DOMAIN d : Len(c) + k \in DOMAIN e
  BY <1>1
<1>4. ASSUME NEW k \in DOMAIN d
      PROVE  NoneAfter(e, Len(c) + k) <=> NoneAfter(d, k)
  <2>1. \A n \in DOMAIN c : n <= Len(c) + k
    BY <1>1
  <2>2. \A j \in DOMAIN d : Len(c) + j <= Len(c) + k <=> j <= k
    BY <1>1
  <2> QED
    BY <1>1, <1>2, <1>3, <2>1, <2>2 DEF NoneAfter
<1>5. ASSUME NEW n \in 0 .. Len(c)
      PROVE  NoneAfter(e, n) <=> NoneAfter(c, n) /\ NoneAfter(d, 0)
  <2>1. \A j \in DOMAIN d : ~(Len(c) + j <= n) /\ ~(j <= 0)
    BY <1>1
  <2> QED
    BY <1>1, <1>2, <1>3, <2>1 DEF NoneAfter
<1>6. ASSUME NEW x
      PROVE  x \in ViewAfter(e, V) <=> x \in ViewAfter(d, ViewAfter(c, V))
  <2>1. x \in ViewAfter(e, V) <=>
              \/ \E n \in DOMAIN e : Shows(e[n], x) /\ NoneAfter(e, n)
              \/ x \in V /\ NoneAfter(e, 0)
    BY <1>1, ViewMembers
  <2>2. x \in ViewAfter(c, V) <=>
              \/ \E n \in DOMAIN c : Shows(c[n], x) /\ NoneAfter(c, n)
              \/ x \in V /\ NoneAfter(c, 0)
    BY <1>1, ViewMembers
  <2>3. x \in ViewAfter(d, ViewAfter(c, V)) <=>
              \/ \E n \in DOMAIN d : Shows(d[n], x) /\ NoneAfter(d, n)
              \/ x \in ViewAfter(c, V) /\ NoneAfter(d, 0)
    BY <1>1, ViewMembers
  <2>4. (\E n \in DOMAIN e : Shows(e[n], x) /\ NoneAfter(e, n))
          <=> \/ \E n \in DOMAIN c : Shows(c[n], x) /\ NoneAfter(c, n) /\ NoneAfter(d, 0)
              \/ \E k \in DOMAIN d : Shows(d[k], x) /\ NoneAfter(d, k)
    <3>1. \A n \in DOMAIN c : e[n] = c[n] /\ n \in 0 .. Len(c)
      BY <1>1
    <3>2. \A k \in DOMAIN d : e[Len(c) + k] = d[k]
      BY <1>1
    <3> QED
      BY <1>2, <1>3, <1>4, <1>5, <3>1, <3>2
  <2>5. NoneAfter(e, 0) <=> NoneAfter(c, 0) /\ NoneAfter(d, 0)
    BY <1>1, <1>5
  <2> QED
    BY <2>1, <2>2, <2>3, <2>4, <2>5
<1> QED
  BY <1>6 DEF e

\* Messages that show no piece leave the view.
LEMMA ViewNone ==
    ASSUME NEW c \in Seq(Message), NEW V,
           \A m \in Elems(c) : m.type \notin {"HAVE", "BITFIELD"}
    PROVE  ViewAfter(c, V) = V
<1>1. \A n \in DOMAIN c : c[n].type # "HAVE" /\ c[n].type # "BITFIELD"
  BY DEF Elems
<1>2. ASSUME NEW x PROVE x \in ViewAfter(c, V) <=> x \in V
  BY <1>1, ViewMembers DEF Shows, NoneAfter
<1> QED
  BY <1>2

\* The view after one message, and after none.
LEMMA ViewShort ==
    ASSUME NEW V
    PROVE  /\ ViewAfter(<<>>, V) = V
           /\ \A i \in Piece : ViewAfter(<<Have(i)>>, V) = V \cup {i}
           /\ \A b \in SUBSET Piece : ViewAfter(<<BitfieldMsg(b)>>, V) = b
<1>1. ViewAfter(<<>>, V) = V
  BY ViewNone, MessageTypes, ElemsShort
<1>2. ASSUME NEW i \in Piece PROVE ViewAfter(<<Have(i)>>, V) = V \cup {i}
  <2> DEFINE c == <<Have(i)>>
  <2>1. c \in Seq(Message) /\ DOMAIN c = {1} /\ c[1] = Have(i)
    BY MessageTypes
  <2>2. Have(i).type = "HAVE" /\ Have(i).piece = i
    BY DEF Have
  <2> HIDE DEF c
  <2>3. NoneAfter(c, 1) /\ NoneAfter(c, 0)
    BY <2>1, <2>2 DEF NoneAfter
  <2>4. ASSUME NEW x PROVE x \in ViewAfter(c, V) <=> x \in V \cup {i}
    BY <2>1, <2>2, <2>3, ViewMembers DEF Shows
  <2> QED
    BY <2>4 DEF c
<1>3. ASSUME NEW b \in SUBSET Piece PROVE ViewAfter(<<BitfieldMsg(b)>>, V) = b
  <2> DEFINE c == <<BitfieldMsg(b)>>
  <2>1. c \in Seq(Message) /\ DOMAIN c = {1} /\ c[1] = BitfieldMsg(b)
    BY MessageTypes
  <2>2. BitfieldMsg(b).type = "BITFIELD" /\ BitfieldMsg(b).bitfield = b
    BY DEF BitfieldMsg
  <2> HIDE DEF c
  <2>3. NoneAfter(c, 1) /\ ~NoneAfter(c, 0)
    BY <2>1, <2>2 DEF NoneAfter
  <2>4. ASSUME NEW x PROVE x \in ViewAfter(c, V) <=> x \in b
    BY <2>1, <2>2, <2>3, ViewMembers DEF Shows
  <2> QED
    BY <2>4 DEF c
<1> QED
  BY <1>1, <1>2, <1>3

\* A view is never ahead of what is shown.
LEMMA ViewBound ==
    ASSUME NEW c \in Seq(Message), NEW V, NEW B, V \subseteq B,
           \A m \in Elems(c) : \A x : Shows(m, x) => x \in B
    PROVE  ViewAfter(c, V) \subseteq B
<1>1. ASSUME NEW x \in ViewAfter(c, V) PROVE x \in B
  BY ViewMembers DEF Elems
<1> QED
  BY <1>1

-----------------------------------------------------------------------------
(* The invariant, link by link. *)

\* The state the store s keeps for r.  A neighbour that is not known is taken
\* for a new one by every query.
Nb(s, r) == IF Knows(s, r) THEN s.neighbors[r] ELSE NewNeighbor

\* What p holds of q.
Held(p, q) == Nb(ps[p], q)

Choked(c, now) == Settles(c, "CHOKE", "UNCHOKE", now)
Interested(c, now) == Settles(c, "INTERESTED", "NOT_INTERESTED", now)

\* Until q knows p, p's handshake is the first message for it.
Greeted(p, q) ==
    ~Knows(ps[q], p) =>
        /\ chan[p][q] # <<>> => Head(chan[p][q]).type = "HANDSHAKE"
        /\ Attached(p, q) => chan[p][q] # <<>>

\* q's flags for p become p's flags for q.
FlagsTold(p, q) ==
    /\ Choked(chan[p][q], Held(q, p).peer_choking) = Held(p, q).am_choking
    /\ Interested(chan[p][q], Held(q, p).peer_interested) = Held(p, q).am_interested
    /\ Held(p, q).am_interested = (Held(p, q).bitfield \ ps[p].my_bitfield # {})

ViewTold(p, q) ==
    Knows(ps[p], q) => ViewAfter(chan[p][q], Held(q, p).bitfield) = ps[p].my_bitfield

\* A request waits for an answer, and only at a peer that serves us as far as
\* we know; the piece it asks for is there.
RequestTold(p, q) ==
    LET i == Held(p, q).outstanding_request IN
    /\ i # None =>
          /\ ~Held(p, q).peer_choking
          /\ \/ Request(i) \in Elems(chan[p][q])
             \/ PieceMsg(i) \in Elems(chan[q][p])
             \/ Signal("CHOKE") \in Elems(chan[q][p])
    /\ \A m \in Elems(chan[p][q]) : m.type = "REQUEST" => m.piece \in ps[q].my_bitfield

LinkOK(p, q) ==
    /\ Knows(ps[p], q) => q \in connections[p]
    /\ Greeted(p, q)
    /\ FlagsTold(p, q)
    /\ ViewTold(p, q)
    /\ RequestTold(p, q)

\* Nobody has anything to do with a process that was not started.
NotStarted(p) ==
    status[p] = "off" =>
        \A q \in Peer :
            /\ chan[p][q] = <<>> /\ chan[q][p] = <<>>
            /\ ~Knows(ps[p], q) /\ ~Knows(ps[q], p)
            /\ ~Attached(p, q) /\ ~Attached(q, p)
            /\ q \notin backlog[p] /\ p \notin backlog[q]

LInv ==
    /\ \A p, q \in Peer : p # q /\ Up(p) /\ Up(q) => LinkOK(p, q)
    /\ \A p \in Peer : NotStarted(p)

\* The queries of the store answer what Nb says.
LEMMA NbFacts ==
    ASSUME NEW s, IsStore(s), NEW r \in Peer
    PROVE  /\ Nb(s, r) \in NeighborState
           /\ is_am_choking(s, r) = Nb(s, r).am_choking
           /\ is_peer_choking_us(s, r) = Nb(s, r).peer_choking
           /\ is_am_interested_in_peer(s, r) = Nb(s, r).am_interested
           /\ (r \in get_interested_neighbors(s)) = Nb(s, r).peer_interested
           /\ get_interesting_pieces(s, r) = Nb(s, r).bitfield \ s.my_bitfield
           /\ Knows(s, r) => Outstanding(s, r) = Nb(s, r).outstanding_request
           /\ ~Knows(s, r) => Nb(s, r) = NewNeighbor
<1>1. CASE Knows(s, r)
  <2>1. Nb(s, r) = s.neighbors[r] /\ s.neighbors[r] \in NeighborState
    BY <1>1 DEF Nb, Knows, IsStore
  <2>2. /\ s.neighbors[r].am_choking \in BOOLEAN /\ s.neighbors[r].peer_choking \in BOOLEAN
        /\ s.neighbors[r].am_interested \in BOOLEAN
        /\ s.neighbors[r].peer_interested \in BOOLEAN
    BY <2>1 DEF NeighborState
  <2> QED
    BY <1>1, <2>1, <2>2 DEF is_am_choking, is_peer_choking_us, is_am_interested_in_peer,
       get_interested_neighbors, get_interesting_pieces, Outstanding, Knows
<1>2. CASE ~Knows(s, r)
  <2>1. Nb(s, r) = NewNeighbor
    BY <1>2 DEF Nb
  <2>2. NewNeighbor \in NeighborState
    BY DEF NewNeighbor, NeighborState
  <2>3. /\ is_am_choking(s, r) = TRUE /\ is_peer_choking_us(s, r) = TRUE
        /\ is_am_interested_in_peer(s, r) = FALSE
    BY <1>2 DEF is_am_choking, is_peer_choking_us, is_am_interested_in_peer
  <2>4. (r \in get_interested_neighbors(s)) = FALSE
    BY <1>2 DEF get_interested_neighbors, Knows
  <2>5. get_interesting_pieces(s, r) = {}
    BY <1>2 DEF get_interesting_pieces
  <2>6. /\ NewNeighbor.am_choking = TRUE /\ NewNeighbor.peer_choking = TRUE
        /\ NewNeighbor.am_interested = FALSE /\ NewNeighbor.peer_interested = FALSE
        /\ NewNeighbor.bitfield = {}
    BY DEF NewNeighbor
  <2> QED
    BY <1>2, <2>1, <2>2, <2>3, <2>4, <2>5, <2>6
<1> QED
  BY <1>1, <1>2

-----------------------------------------------------------------------------
(* A step of p: with each r it reads heard[r], sends sent[r], and ends with *)
(* the store t.                                                             *)

Exchange(p, t, heard, sent) ==
    /\ Up(p)
    /\ UNCHANGED status
    /\ ps' = [ps EXCEPT ![p] = t]
    /\ ps[p].my_bitfield \subseteq t.my_bitfield
    /\ heard \in Letters /\ sent \in Letters
    /\ \A a, b \in Peer \ {p} : chan'[a][b] = chan[a][b]
    /\ \A r \in Peer \ {p} :
          /\ chan[r][p] = heard[r] \o chan'[r][p]
          /\ chan'[p][r] = IF Up(r) THEN chan[p][r] \o sent[r] ELSE chan[p][r]

\* What becomes of the dictionaries of connections.
Connects(p, t, sent) ==
    \A r \in Peer \ {p} :
        /\ connections'[r] = connections[r] /\ incoming'[r] = incoming[r]
        /\ backlog'[r] \subseteq backlog[r] \cup (IF Up(r) THEN {p} ELSE {})
        /\ backlog'[p] \subseteq backlog[p]
        /\ status[r] = "off" => /\ Knows(t, r) => Knows(ps[p], r)
                                /\ Attached(p, r)' => Attached(p, r)
        /\ Up(r) => /\ Knows(t, r) => r \in connections'[p]
                    /\ sent[r] # <<>> => Attached(p, r) \/ Head(sent[r]).type = "HANDSHAKE"
                    /\ Attached(p, r)' => Attached(p, r) \/ sent[r] # <<>>

\* What p makes of what it reads from r.
Hears(p, r, t, hd) ==
    LET n == Held(p, r)
        m == Nb(t, r)
    IN  /\ Knows(ps[p], r) \/ hd # <<>> => Knows(t, r)
        /\ m.peer_choking = Choked(hd, n.peer_choking)
        /\ m.peer_interested = Interested(hd, n.peer_interested)
        /\ m.bitfield = ViewAfter(hd, n.bitfield)

\* What p tells r of what it has become.
Tells(p, r, t, sd) ==
    LET n == Held(p, r)
        m == Nb(t, r)
    IN  /\ m.am_choking = Choked(sd, n.am_choking)
        /\ m.am_interested = Interested(sd, n.am_interested)
        /\ m.am_interested = (m.bitfield \ t.my_bitfield # {})
        /\ Knows(t, r) =>
              IF Knows(ps[p], r) THEN ViewAfter(sd, ps[p].my_bitfield) = t.my_bitfield
              ELSE \A V \in SUBSET ps[p].my_bitfield : ViewAfter(sd, V) = t.my_bitfield

\* What p asks of r, and what it does with what r asks.
Asks(p, r, t, hd, sd) ==
    LET n == Held(p, r)
        m == Nb(t, r)
    IN  /\ m.outstanding_request # None =>
              /\ ~m.peer_choking
              /\ \/ Request(m.outstanding_request) \in Elems(sd)
                 \/ /\ n.outstanding_request = m.outstanding_request
                    /\ \A x \in Elems(hd) : x.type \notin {"PIECE", "CHOKE"}
        /\ \A x \in Elems(hd) :
              x.type = "REQUEST" => n.am_choking \/ PieceMsg(x.piece) \in Elems(sd)
        /\ \A x \in Elems(sd) : x.type = "REQUEST" => x.piece \in ps[r].my_bitfield

Turn(p, r, t, hd, sd) == Hears(p, r, t, hd) /\ Tells(p, r, t, sd) /\ Asks(p, r, t, hd, sd)

\* The pieces of a view that others are told of are there.
LEMMA ViewTrue ==
    ASSUME IInv, NEW p \in Peer, NEW q \in Peer
    PROVE  ViewAfter(chan[p][q], Held(q, p).bitfield) \subseteq ps[p].my_bitfield
<1>1. chan[p][q] \in Seq(Message)
  BY MyStore DEF Streams
<1>2. \A m \in Elems(chan[p][q]) : \A x : Shows(m, x) => x \in ps[p].my_bitfield
  BY IInvParts DEF MessagesTrue, MessageTrue, Shows
<1>3. Held(q, p).bitfield \subseteq ps[p].my_bitfield
  <2>1. Good(ps[q], q, Holdings)
    BY MyStore
  <2>2. Knows(ps[q], p) => ps[q].neighbors[p].bitfield \subseteq Holdings[p]
    BY <2>1 DEF Good, Sound, Knows
  <2>3. Holdings[p] = ps[p].my_bitfield
    BY DEF Holdings
  <2> QED
    BY <2>2, <2>3 DEF Held, Nb, NewNeighbor
<1> QED
  BY <1>1, <1>2, <1>3, ViewBound

\* A step of that kind keeps the links of p, and all others.
LEMMA LinkFrom ==
    ASSUME IInv, IInv', LInv, NEW p \in Peer, NEW r \in Peer \ {p}, Up(r),
           NEW t, NEW heard, NEW sent, Exchange(p, t, heard, sent), Connects(p, t, sent),
           Turn(p, r, t, heard[r], sent[r])
    PROVE  LinkOK(p, r)'
<1> DEFINE c == chan[p][r]
           b == chan[r][p]
           hd == heard[r]
           sd == sent[r]
           n == Held(p, r)
           m == Nb(t, r)
           f == Held(r, p)
<1>1. /\ ps'[p] = t /\ ps'[r] = ps[r]
      /\ c \in Seq(Message) /\ chan'[p][r] = c \o sd /\ sd \in Seq(Message)
      /\ hd \in Seq(Message) /\ chan'[r][p] \in Seq(Message) /\ b = hd \o chan'[r][p]
      /\ LinkOK(p, r)
      /\ m \in NeighborState /\ n \in NeighborState
  <2>1. ps = [x \in Peer |-> ps[x]] /\ ps'[p] = t /\ ps'[r] = ps[r]
    BY IInvParts DEF Exchange
  <2>2. chan \in Streams /\ chan' \in Streams
    BY DEF IInv, TypeOK, Streams
  <2>3. LinkOK(p, r)
    BY DEF LInv, Exchange
  <2>4. IsStore(ps[p]) /\ IsStore(t)
    BY <2>1 DEF IInv, TypeOK
  <2> QED
    BY <2>1, <2>2, <2>3, <2>4, NbFacts, ZenonT(30) DEF Exchange, Letters, Streams, Held
<1>2. Held(p, r)' = m /\ Held(r, p)' = f
  BY <1>1 DEF Held, Nb, Knows
<1> HIDE DEF c, b, hd, sd, n, m, f
<1>3. Elems(c \o sd) = Elems(c) \cup Elems(sd) /\ Elems(b) = Elems(hd) \cup Elems(chan'[r][p])
  BY <1>1, ElemsConcat
<1>4. /\ Choked(c \o sd, f.peer_choking) = Choked(sd, Choked(c, f.peer_choking))
      /\ Interested(c \o sd, f.peer_interested) = Interested(sd, Interested(c, f.peer_interested))
      /\ ViewAfter(c \o sd, f.bitfield) = ViewAfter(sd, ViewAfter(c, f.bitfield))
  BY <1>1, SettlesConcat, ViewConcat, SMTT(30) DEF Choked, Interested
<1>5. FlagsTold(p, r)'
  <2>1. /\ Choked(c, f.peer_choking) = n.am_choking
        /\ Interested(c, f.peer_interested) = n.am_interested
    BY <1>1 DEF LinkOK, FlagsTold, c, f, n
  <2>2. /\ m.am_choking = Choked(sd, n.am_choking)
        /\ m.am_interested = Interested(sd, n.am_interested)
        /\ m.am_interested = (m.bitfield \ t.my_bitfield # {})
    BY DEF Turn, Tells, m, n, sd
  <2>3. /\ Choked(c \o sd, f.peer_choking) = m.am_choking
        /\ Interested(c \o sd, f.peer_interested) = m.am_interested
    BY <1>4, <2>1, <2>2
  <2> QED
    BY <1>1, <1>2, <2>2, <2>3 DEF FlagsTold
<1>6. ViewTold(p, r)'
  <2> SUFFICES ASSUME Knows(t, r)
               PROVE  ViewAfter(c \o sd, f.bitfield) = t.my_bitfield
    BY <1>1, <1>2 DEF ViewTold, Knows
  <2>1. Knows(ps[p], r) => ViewAfter(c, f.bitfield) = ps[p].my_bitfield
    BY <1>1 DEF LinkOK, ViewTold, c, f
  <2>2. ViewAfter(c, f.bitfield) \subseteq ps[p].my_bitfield
    BY ViewTrue DEF c, f
  <2>3. IF Knows(ps[p], r) THEN ViewAfter(sd, ps[p].my_bitfield) = t.my_bitfield
        ELSE \A V \in SUBSET ps[p].my_bitfield : ViewAfter(sd, V) = t.my_bitfield
    BY DEF Turn, Tells, sd
  <2> QED
    BY <1>4, <2>1, <2>2, <2>3
<1>7. RequestTold(p, r)'
  <2> DEFINE i == m.outstanding_request
  <2>1. ASSUME i # None
        PROVE  /\ ~m.peer_choking
               /\ \/ Request(i) \in Elems(c \o sd)
                  \/ PieceMsg(i) \in Elems(chan'[r][p])
                  \/ Signal("CHOKE") \in Elems(chan'[r][p])
    <3>1. /\ ~m.peer_choking
          /\ \/ Request(i) \in Elems(sd)
             \/ /\ n.outstanding_request = i
                /\ \A x \in Elems(hd) : x.type \notin {"PIECE", "CHOKE"}
      BY <2>1 DEF Turn, Asks, m, n, sd, hd
    <3>2. ASSUME n.outstanding_request = i, \A x \in Elems(hd) : x.type \notin {"PIECE", "CHOKE"}
          PROVE  \/ Request(i) \in Elems(c)
                 \/ PieceMsg(i) \in Elems(chan'[r][p])
                 \/ Signal("CHOKE") \in Elems(chan'[r][p])
      <4>1. Request(i) \in Elems(c) \/ PieceMsg(i) \in Elems(b) \/ Signal("CHOKE") \in Elems(b)
        BY <1>1, <2>1, <3>2 DEF LinkOK, RequestTold, n, c, b
      <4>2. PieceMsg(i).type = "PIECE" /\ Signal("CHOKE").type = "CHOKE"
        BY DEF PieceMsg, Signal
      <4> QED
        BY <1>3, <3>2, <4>1, <4>2
    <3> QED
      BY <1>3, <3>1, <3>2
  <2>2. ASSUME NEW x \in Elems(c \o sd), x.type = "REQUEST"
        PROVE  x.piece \in ps[r].my_bitfield
    <3>1. CASE x \in Elems(c)
      BY <1>1, <2>2, <3>1 DEF LinkOK, RequestTold, c
    <3>2. CASE x \in Elems(sd)
      BY <2>2, <3>2 DEF Turn, Asks, sd
    <3> QED
      BY <1>3, <3>1, <3>2
  <2> QED
    BY <1>1, <1>2, <2>1, <2>2 DEF RequestTold
<1>8. Greeted(p, r)'
  <2> SUFFICES ASSUME ~Knows(ps[r], p)
               PROVE  /\ c \o sd # <<>> => Head(c \o sd).type = "HANDSHAKE"
                      /\ Attached(p, r)' => c \o sd # <<>>
    BY <1>1 DEF Greeted, Knows
  <2>1. /\ c # <<>> => Head(c).type = "HANDSHAKE"
        /\ Attached(p, r) => c # <<>>
    BY <1>1 DEF LinkOK, Greeted, c
  <2>2. /\ sd # <<>> => Attached(p, r) \/ Head(sd).type = "HANDSHAKE"
        /\ Attached(p, r)' => Attached(p, r) \/ sd # <<>>
    BY DEF Connects, sd
  <2>3. /\ c # <<>> => c \o sd # <<>> /\ Head(c \o sd) = Head(c)
        /\ c = <<>> => c \o sd = sd
    BY <1>1, HeadConcat
  <2> QED
    BY <2>1, <2>2, <2>3
<1>9. (Knows(ps[p], r) => r \in connections[p])'
  BY <1>1 DEF Connects, Knows
<1> QED
  BY <1>5, <1>6, <1>7, <1>8, <1>9 DEF LinkOK

\* What p makes of its turn with r keeps the link from r to p.
LEMMA LinkTo ==
    ASSUME IInv, IInv', LInv, NEW p \in Peer, NEW r \in Peer \ {p}, Up(r),
           NEW t, NEW heard, NEW sent, Exchange(p, t, heard, sent), Connects(p, t, sent),
           Turn(p, r, t, heard[r], sent[r])
    PROVE  LinkOK(r, p)'
<1> DEFINE c == chan[p][r]
           b == chan[r][p]
           d == chan'[r][p]
           hd == heard[r]
           sd == sent[r]
           n == Held(p, r)
           m == Nb(t, r)
           f == Held(r, p)
<1>1. /\ ps'[p] = t /\ ps'[r] = ps[r] /\ connections'[r] = connections[r]
      /\ c \in Seq(Message) /\ chan'[p][r] = c \o sd /\ sd \in Seq(Message)
      /\ hd \in Seq(Message) /\ d \in Seq(Message) /\ b = hd \o d
      /\ LinkOK(p, r) /\ LinkOK(r, p)
      /\ m \in NeighborState /\ n \in NeighborState /\ f \in NeighborState
  <2>1. ps = [x \in Peer |-> ps[x]] /\ ps'[p] = t /\ ps'[r] = ps[r]
    BY IInvParts DEF Exchange
  <2>2. chan \in Streams /\ chan' \in Streams
    BY DEF IInv, TypeOK, Streams
  <2>3. LinkOK(p, r) /\ LinkOK(r, p)
    BY DEF LInv, Exchange
  <2>4. IsStore(ps[p]) /\ IsStore(t) /\ IsStore(ps[r])
    BY <2>1 DEF IInv, TypeOK
  <2>5. m \in NeighborState /\ n \in NeighborState /\ f \in NeighborState
    BY <2>4, NbFacts DEF Held
  <2>6. /\ connections'[r] = connections[r]
        /\ chan'[p][r] = c \o sd /\ b = hd \o d
    BY DEF Exchange, Connects
  <2>7. /\ c \in Seq(Message) /\ sd \in Seq(Message)
        /\ hd \in Seq(Message) /\ d \in Seq(Message)
    BY <2>2 DEF Exchange, Letters, Streams
  <2> QED
    BY <2>1, <2>3, <2>5, <2>6, <2>7
<1>2. Held(p, r)' = m /\ Held(r, p)' = f
  BY <1>1 DEF Held, Nb, Knows
<1> HIDE DEF c, b, d, hd, sd, n, m, f
<1>3. Elems(c \o sd) = Elems(c) \cup Elems(sd) /\ Elems(b) = Elems(hd) \cup Elems(d)
  BY <1>1, ElemsConcat
<1>4. /\ Knows(ps[p], r) \/ hd # <<>> => Knows(t, r)
      /\ m.peer_choking = Choked(hd, n.peer_choking)
      /\ m.peer_interested = Interested(hd, n.peer_interested)
      /\ m.bitfield = ViewAfter(hd, n.bitfield)
  BY DEF Turn, Hears, m, n, hd
<1>5. /\ Choked(d, m.peer_choking) = Choked(b, n.peer_choking)
      /\ Interested(d, m.peer_interested) = Interested(b, n.peer_interested)
      /\ ViewAfter(d, m.bitfield) = ViewAfter(b, n.bitfield)
  BY <1>1, <1>4, SettlesConcat, ViewConcat DEF Choked, Interested
<1>6. FlagsTold(r, p)'
  <2>1. /\ Choked(b, n.peer_choking) = f.am_choking
        /\ Interested(b, n.peer_interested) = f.am_interested
        /\ f.am_interested = (f.bitfield \ ps[r].my_bitfield # {})
    BY <1>1 DEF LinkOK, FlagsTold, b, f, n
  <2> QED
    BY <1>1, <1>2, <1>5, <2>1 DEF FlagsTold, d
<1>7. ViewTold(r, p)'
  <2>1. Knows(ps[r], p) => ViewAfter(b, n.bitfield) = ps[r].my_bitfield
    BY <1>1 DEF LinkOK, ViewTold, b, n
  <2> QED
    BY <1>1, <1>2, <1>5, <2>1 DEF ViewTold, Knows, d
<1>8. ps[p].my_bitfield \subseteq t.my_bitfield
  BY DEF Exchange
<1>9. RequestTold(r, p)'
  <2> DEFINE i == f.outstanding_request
  <2>1. /\ i # None => /\ ~f.peer_choking
                       /\ \/ Request(i) \in Elems(b)
                          \/ PieceMsg(i) \in Elems(c)
                          \/ Signal("CHOKE") \in Elems(c)
        /\ \A x \in Elems(b) : x.type = "REQUEST" => x.piece \in ps[p].my_bitfield
    BY <1>1 DEF LinkOK, RequestTold, f, b, c
  <2>2. ASSUME i # None, Request(i) \in Elems(hd)
        PROVE  PieceMsg(i) \in Elems(c \o sd) \/ Signal("CHOKE") \in Elems(c \o sd)
    <3>1. Request(i).type = "REQUEST" /\ Request(i).piece = i
      BY DEF Request
    <3>2. n.am_choking \/ PieceMsg(i) \in Elems(sd)
      BY <2>2, <3>1 DEF Turn, Asks, n, hd, sd
    <3>3. ASSUME n.am_choking PROVE Signal("CHOKE") \in Elems(c)
      <4>1. Choked(c, f.peer_choking) = n.am_choking
        BY <1>1 DEF LinkOK, FlagsTold, c, f, n
      <4>2. f.peer_choking = FALSE
        BY <1>1, <2>1, <2>2 DEF NeighborState
      <4>3. Choked(c, FALSE)
        BY <3>3, <4>1, <4>2
      <4>4. PICK x \in Elems(c) : x.type = "CHOKE"
        BY <1>1, <4>3, SettlesOn DEF Choked
      <4>5. x \in Message
        BY <1>1, ElemsType
      <4>6. x = Signal("CHOKE")
        BY <4>4, <4>5 DEF Message, Signal
      <4> QED
        BY <4>4, <4>6
    <3> QED
      BY <1>3, <3>2, <3>3
  <2>3. i # None => /\ ~f.peer_choking
                    /\ \/ Request(i) \in Elems(d)
                       \/ PieceMsg(i) \in Elems(c \o sd)
                       \/ Signal("CHOKE") \in Elems(c \o sd)
    BY <1>3, <2>1, <2>2
  <2>4. \A x \in Elems(d) : x.type = "REQUEST" => x.piece \in t.my_bitfield
    BY <1>3, <1>8, <2>1
  <2> QED
    BY <1>1, <1>2, <2>3, <2>4 DEF RequestTold, d
<1>10. Greeted(r, p)'
  <2> SUFFICES ASSUME ~Knows(t, r)
               PROVE  /\ d # <<>> => Head(d).type = "HANDSHAKE"
                      /\ Attached(r, p)' => d # <<>>
    BY <1>1 DEF Greeted, Knows, d
  <2>1. hd = <<>> /\ ~Knows(ps[p], r)
    BY <1>4
  <2>2. d = b
    BY <1>1, <2>1
  <2>3. /\ b # <<>> => Head(b).type = "HANDSHAKE"
        /\ Attached(r, p) => b # <<>>
    BY <1>1, <2>1 DEF LinkOK, Greeted, b
  <2>4. Attached(r, p)' <=> Attached(r, p)
    BY DEF Connects, Attached
  <2> QED
    BY <2>2, <2>3, <2>4
<1>11. (Knows(ps[r], p) => p \in connections[r])'
  BY <1>1 DEF LinkOK, Knows
<1> QED
  BY <1>6, <1>7, <1>9, <1>10, <1>11 DEF LinkOK

\* The other links do not notice, and nobody meets a process that was not
\* started.
LEMMA LinksKept ==
    ASSUME IInv, IInv', LInv, NEW p \in Peer, NEW t, NEW heard, NEW sent,
           Exchange(p, t, heard, sent), Connects(p, t, sent),
           \A r \in Peer \ {p} : Up(r) => Turn(p, r, t, heard[r], sent[r])
    PROVE  LInv'
<1>1. /\ \A x \in Peer : ps'[x] = IF x = p THEN t ELSE ps[x]
      /\ status' = status /\ Up(p)
  BY IInvParts DEF Exchange
<1>2. ASSUME NEW x \in Peer, NEW y \in Peer, x # y, Up(x)', Up(y)'
      PROVE  LinkOK(x, y)'
  <2>1. Up(x) /\ Up(y)
    BY <1>1, <1>2 DEF Up
  <2>2. CASE x = p
    BY <1>2, <2>1, <2>2, LinkFrom
  <2>3. CASE y = p
    BY <1>2, <2>1, <2>3, LinkTo
  <2>4. CASE x # p /\ y # p
    <3>1. LinkOK(x, y)
      BY <1>2, <2>1 DEF LInv
    <3>2. /\ chan'[x][y] = chan[x][y] /\ chan'[y][x] = chan[y][x]
          /\ ps'[x] = ps[x] /\ ps'[y] = ps[y]
          /\ connections'[x] = connections[x] /\ incoming'[x] = incoming[x]
      BY <1>1, <2>4 DEF Exchange, Connects
    <3> QED
      BY <3>1, <3>2 DEF LinkOK, Greeted, FlagsTold, ViewTold, RequestTold, Held,
         Attached
  <2> QED
    BY <2>2, <2>3, <2>4
<1>3. ASSUME NEW x \in Peer, (status[x] = "off")', NEW q \in Peer
      PROVE  (/\ chan[x][q] = <<>> /\ chan[q][x] = <<>>
              /\ ~Knows(ps[x], q) /\ ~Knows(ps[q], x)
              /\ ~Attached(x, q) /\ ~Attached(q, x)
              /\ q \notin backlog[x] /\ x \notin backlog[q])'
  <2>1. status[x] = "off" /\ x # p
    BY <1>1, <1>3 DEF Up
  <2>2. /\ chan[x][q] = <<>> /\ chan[q][x] = <<>>
        /\ ~Knows(ps[x], q) /\ ~Knows(ps[q], x)
        /\ ~Attached(x, q) /\ ~Attached(q, x)
        /\ q \notin backlog[x] /\ x \notin backlog[q]
    BY <2>1 DEF LInv, NotStarted
  <2>3. ~Knows(ps'[x], q) /\ ~Attached(x, q)' /\ q \notin backlog'[x]
    BY <1>1, <2>1, <2>2 DEF Connects, Attached, Up
  <2>4. ~Knows(ps'[q], x) /\ ~Attached(q, x)' /\ x \notin backlog'[q]
    BY <1>1, <2>1, <2>2 DEF Connects, Attached
  <2>5. chan'[x][q] = <<>> /\ chan'[q][x] = <<>>
    <3>1. CASE q # p
      BY <2>1, <2>2, <3>1 DEF Exchange
    <3>2. CASE q = p
      <4>1. chan'[p][x] = <<>>
        BY <2>1, <2>2, <3>2 DEF Exchange, Up
      <4>2. chan[x][p] = heard[x] \o chan'[x][p] /\ chan[x][p] = <<>>
        BY <2>1, <2>2, <3>2 DEF Exchange
      <4>3. heard[x] \in Seq(Message) /\ chan'[x][p] \in Seq(Message)
        BY DEF Exchange, Letters, IInv, TypeOK
      <4>4. chan'[x][p] = <<>>
        BY <4>2, <4>3, HeadConcat
      <4> QED
        BY <3>2, <4>1, <4>4
    <3> QED
      BY <3>1, <3>2
  <2> QED
    BY <2>3, <2>4, <2>5
<1> QED
  BY <1>2, <1>3 DEF LInv, NotStarted

\* Nothing is read or sent.
LEMMA NoMessage ==
    /\ <<>> \in Seq(Message) /\ Elems(<<>>) = {}
    /\ \A now : Choked(<<>>, now) = now /\ Interested(<<>>, now) = now /\ ViewAfter(<<>>, now) = now
<1>1. ASSUME NEW now
      PROVE  /\ Settles(<<>>, "CHOKE", "UNCHOKE", now) = now
             /\ Settles(<<>>, "INTERESTED", "NOT_INTERESTED", now) = now
             /\ ViewAfter(<<>>, now) = now
  BY SettlesEmpty, ViewShort
<1> QED
  BY <1>1, MessageTypes, ElemsShort DEF Choked, Interested

\* A link on which nothing happens.
LEMMA QuietTurn ==
    ASSUME IInv, LInv, NEW p \in Peer, NEW r \in Peer \ {p}, Up(p), Up(r), NEW t,
           Knows(ps[p], r) <=> Knows(t, r), Nb(t, r) = Held(p, r),
           t.my_bitfield = ps[p].my_bitfield
    PROVE  Turn(p, r, t, <<>>, <<>>)
<1>1. \A now : Choked(<<>>, now) = now /\ Interested(<<>>, now) = now /\ ViewAfter(<<>>, now) = now
  BY NoMessage
<1>2. Elems(<<>>) = {}
  BY NoMessage
<1>3. FlagsTold(p, r) /\ RequestTold(p, r)
  BY DEF LInv, LinkOK
<1> QED
  BY <1>1, <1>2, <1>3 DEF Turn, Hears, Tells, Asks, FlagsTold, RequestTold

\* A step that only sends.
LEMMA TransmitExchange ==
    ASSUME IInv, IInv', NEW p \in Peer, NEW t, NEW sent \in Letters, Up(p), Transmit(p, sent),
           UNCHANGED status, ps' = [ps EXCEPT ![p] = t],
           ps[p].my_bitfield \subseteq t.my_bitfield
    PROVE  Exchange(p, t, [r \in Peer |-> <<>>], sent)
<1> DEFINE line == Sending(p, sent)
           heard == [r \in Peer |-> <<>>]
<1>1. \A r \in Peer : line[r] = IF Up(r) THEN chan[p][r] \o sent[r] ELSE chan[p][r]
  BY DEF Sending
<1>2. chan' = [chan EXCEPT ![p] = line]
  BY DEF Transmit
<1>3. heard \in Letters /\ \A r \in Peer : heard[r] = <<>>
  BY MessageTypes DEF Letters
<1> HIDE DEF line, heard
<1>4. chan \in Streams
  BY MyStore
<1>5. chan'[p] = line /\ \A a \in Peer \ {p} : chan'[a] = chan[a]
  BY <1>2, <1>4 DEF Streams
<1>6. \A r \in Peer \ {p} : chan[r][p] = heard[r] \o chan'[r][p]
  <2>1. \A r \in Peer \ {p} : /\ chan[r][p] \in Seq(Message) /\ chan'[r][p] = chan[r][p]
                              /\ heard[r] = <<>>
    BY <1>3, <1>4, <1>5 DEF Streams
  <2> QED
    BY <2>1, NothingThen
<1>7. Exchange(p, t, heard, sent)
  BY <1>1, <1>3, <1>5, <1>6 DEF Exchange
<1> QED
  BY <1>7 DEF heard

\* A step of the receive thread for q.
LEMMA ReplyExchange ==
    ASSUME IInv, IInv', NEW p \in Peer, NEW q \in Peer, NEW ty, Receives(p, q, ty),
           NEW t, NEW sent \in Letters, Reply(p, q, sent),
           UNCHANGED status, ps' = [ps EXCEPT ![p] = t],
           ps[p].my_bitfield \subseteq t.my_bitfield
    PROVE  Exchange(p, t, OnlyTo(q, <<Head(chan[q][p])>>), sent)
<1> DEFINE line == Sending(p, sent)
           c == chan[q][p]
           heard == OnlyTo(q, <<Head(c)>>)
<1>1. \A r \in Peer : line[r] = IF Up(r) THEN chan[p][r] \o sent[r] ELSE chan[p][r]
  BY DEF Sending
<1>2. chan' = [chan EXCEPT ![q][p] = Tail(@), ![p] = line]
  BY DEF Reply
<1>3. /\ p # q /\ chan \in Streams /\ c # <<>> /\ Head(c) \in Message
      /\ c \in Seq(Message)
  BY Received DEF Streams
<1>4. heard \in Letters
  <2>1. <<Head(c)>> \in Seq(Message)
    BY <1>3
  <2> QED
    BY <2>1, OnlyToLetters
<1>5. \A r \in Peer : heard[r] = IF r = q THEN <<Head(c)>> ELSE <<>>
  BY DEF OnlyTo
<1> HIDE DEF line, heard, c
<1>6. /\ chan'[p] = line
      /\ chan'[q][p] = Tail(c)
      /\ \A a, b \in Peer : a # p /\ <<a, b>> # <<q, p>> => chan'[a][b] = chan[a][b]
  BY <1>2, <1>3 DEF Streams, c
<1>7. \A r \in Peer \ {p} : chan[r][p] = heard[r] \o chan'[r][p]
  <2> SUFFICES ASSUME NEW r \in Peer \ {p}
               PROVE  chan[r][p] = heard[r] \o chan'[r][p]
    OBVIOUS
  <2>1. CASE r = q
    BY <1>3, <1>5, <1>6, <2>1, HeadThenTail DEF c
  <2>2. CASE r # q
    <3>1. chan[r][p] \in Seq(Message) /\ chan'[r][p] = chan[r][p] /\ heard[r] = <<>>
      BY <1>3, <1>5, <1>6, <2>2 DEF Streams
    <3> QED
      BY <3>1, NothingThen
  <2> QED
    BY <2>1, <2>2
<1>8. Exchange(p, t, heard, sent)
  BY <1>1, <1>3, <1>4, <1>6, <1>7 DEF Exchange, Receives
<1> QED
  BY <1>8 DEF heard, c

\* A receive thread that answers q alone, and leaves alone what p has of
\* others.
LEMMA AnswerKeeps ==
    ASSUME IInv, IInv', LInv, NEW p \in Peer, NEW q \in Peer, NEW ty, Receives(p, q, ty),
           Attached(p, q), NEW t, NEW sd \in Seq(Message), Reply(p, q, OnlyTo(q, sd)),
           UNCHANGED <<status, netVars>>, ps' = [ps EXCEPT ![p] = t],
           t.my_bitfield = ps[p].my_bitfield,
           \A r \in Peer : Knows(ps[p], r) <=> Knows(t, r),
           \A r \in Peer \ {p, q} : Nb(t, r) = Held(p, r),
           Up(q) => Turn(p, q, t, <<Head(chan[q][p])>>, sd)
    PROVE  LInv'
<1> DEFINE heard == OnlyTo(q, <<Head(chan[q][p])>>)
           sent == OnlyTo(q, sd)
<1>1. /\ p # q /\ Up(p)
      /\ \A r \in Peer : /\ heard[r] = IF r = q THEN <<Head(chan[q][p])>> ELSE <<>>
                         /\ sent[r] = IF r = q THEN sd ELSE <<>>
  BY DEF Receives, OnlyTo
<1>2. Exchange(p, t, heard, sent)
  BY ReplyExchange, OnlyToLetters
<1> HIDE DEF heard, sent
<1>3. Connects(p, t, sent)
  <2>1. \A r \in Peer \ {p} : Up(r) /\ Knows(t, r) => r \in connections[p]
    BY <1>1 DEF LInv, LinkOK
  <2> QED
    BY <1>1, <2>1 DEF Connects, netVars, Attached
<1>4. \A r \in Peer \ {p} : Up(r) => Turn(p, r, t, heard[r], sent[r])
  BY <1>1, QuietTurn
<1> QED
  BY <1>2, <1>3, <1>4, LinksKept

-----------------------------------------------------------------------------
(* What the methods of the store make of its neighbours. *)

\* t is s but for what it holds of q, which is n if q is known.
Touches(s, t, q, n) ==
    /\ t.my_bitfield = s.my_bitfield
    /\ DOMAIN t.neighbors = DOMAIN s.neighbors
    /\ \A r \in Peer : Nb(t, r) = IF r = q /\ Knows(s, q) THEN n ELSE Nb(s, r)

\* A store changed at q alone.
LEMMA TouchesOne ==
    ASSUME NEW s, NEW t, IsStore(s), NEW q, NEW n,
           t.my_bitfield = s.my_bitfield,
           IF Knows(s, q) THEN t.neighbors = [s.neighbors EXCEPT ![q] = n]
           ELSE t.neighbors = s.neighbors
    PROVE  Touches(s, t, q, n)
  BY DEF Touches, Nb, Knows, IsStore

\* The setters of the flags a neighbour tells us change that neighbour alone.
LEMMA TouchesPeerFlags ==
    ASSUME NEW s, IsStore(s), NEW q, NEW b
    PROVE  /\ Touches(s, set_peer_interested(s, q, b), q,
                      [s.neighbors[q] EXCEPT !.peer_interested = b])
           /\ Touches(s, set_peer_choking(s, q, b), q,
                      [s.neighbors[q] EXCEPT !.peer_choking = b])
<1>1. /\ set_peer_interested(s, q, b).my_bitfield = s.my_bitfield
      /\ IF Knows(s, q)
         THEN set_peer_interested(s, q, b).neighbors =
                 [s.neighbors EXCEPT ![q] = [s.neighbors[q] EXCEPT !.peer_interested = b]]
         ELSE set_peer_interested(s, q, b).neighbors = s.neighbors
  BY DEF set_peer_interested, IsStore, Knows
<1>2. /\ set_peer_choking(s, q, b).my_bitfield = s.my_bitfield
      /\ IF Knows(s, q)
         THEN set_peer_choking(s, q, b).neighbors =
                 [s.neighbors EXCEPT ![q] = [s.neighbors[q] EXCEPT !.peer_choking = b]]
         ELSE set_peer_choking(s, q, b).neighbors = s.neighbors
  BY DEF set_peer_choking, IsStore, Knows
<1> QED
  BY <1>1, <1>2, TouchesOne

\* So do the setters of the outstanding request,
LEMMA TouchesRequest ==
    ASSUME NEW s, IsStore(s), NEW q, NEW i
    PROVE  /\ Touches(s, clear_outstanding_request(s, q), q,
                      [s.neighbors[q] EXCEPT !.outstanding_request = None])
           /\ CanReserve(s, q, i) =>
                 Touches(s, reserve_request(s, q, i), q,
                         [s.neighbors[q] EXCEPT !.outstanding_request = i])
<1>1. /\ clear_outstanding_request(s, q).my_bitfield = s.my_bitfield
      /\ IF Knows(s, q)
         THEN clear_outstanding_request(s, q).neighbors =
                 [s.neighbors EXCEPT ![q] = [s.neighbors[q] EXCEPT !.outstanding_request = None]]
         ELSE clear_outstanding_request(s, q).neighbors = s.neighbors
  BY DEF clear_outstanding_request, IsStore, Knows
<1>2. ASSUME CanReserve(s, q, i)
      PROVE  /\ reserve_request(s, q, i).my_bitfield = s.my_bitfield
             /\ Knows(s, q)
             /\ reserve_request(s, q, i).neighbors =
                   [s.neighbors EXCEPT ![q] = [s.neighbors[q] EXCEPT !.outstanding_request = i]]
  BY <1>2 DEF reserve_request, CanReserve, IsStore, Knows
<1> QED
  BY <1>1, <1>2, TouchesOne

\* and of the bitfield.
LEMMA TouchesBitfield ==
    ASSUME NEW s, IsStore(s), NEW q, NEW b
    PROVE  Touches(s, SetNeighborBitfield(s, q, b), q, [s.neighbors[q] EXCEPT !.bitfield = b])
<1>1. /\ SetNeighborBitfield(s, q, b).my_bitfield = s.my_bitfield
      /\ IF Knows(s, q)
         THEN SetNeighborBitfield(s, q, b).neighbors =
                 [s.neighbors EXCEPT ![q] = [s.neighbors[q] EXCEPT !.bitfield = b]]
         ELSE SetNeighborBitfield(s, q, b).neighbors = s.neighbors
  BY DEF SetNeighborBitfield, IsStore, Knows
<1> QED
  BY <1>1, TouchesOne

\* Interest follows the bitfields.
LEMMA NbSetInterest ==
    ASSUME NEW s, IsStore(s), NEW Q
    PROVE  LET t == SetInterest(s, Q) IN
           /\ t.my_bitfield = s.my_bitfield
           /\ DOMAIN t.neighbors = DOMAIN s.neighbors
           /\ \A r \in Peer :
                 IF r \in Q /\ Knows(s, r)
                 THEN Nb(t, r) = [Nb(s, r) EXCEPT !.am_interested =
                                     (Nb(s, r).bitfield \ s.my_bitfield # {})]
                 ELSE Nb(t, r) = Nb(s, r)
<1> DEFINE t == SetInterest(s, Q)
<1>1. /\ t.my_bitfield = s.my_bitfield
      /\ DOMAIN t.neighbors = DOMAIN s.neighbors
      /\ \A r \in DOMAIN s.neighbors :
            t.neighbors[r] = [s.neighbors[r] EXCEPT !.am_interested =
                                IF r \in Q THEN get_interesting_pieces(s, r) # {} ELSE @]
  BY DEF SetInterest, IsStore
<1> HIDE DEF t
<1>2. ASSUME NEW r \in Peer, Knows(s, r), r \in Q
      PROVE  Nb(t, r) = [Nb(s, r) EXCEPT !.am_interested =
                            (Nb(s, r).bitfield \ s.my_bitfield # {})]
  <2>1. Nb(t, r) = t.neighbors[r] /\ Nb(s, r) = s.neighbors[r] /\ r \in DOMAIN s.neighbors
    BY <1>1, <1>2 DEF Nb, Knows
  <2>2. get_interesting_pieces(s, r) = Nb(s, r).bitfield \ s.my_bitfield
    BY <1>2, NbFacts
  <2> QED
    BY <1>1, <1>2, <2>1, <2>2
<1>3. ASSUME NEW r \in Peer, Knows(s, r), r \notin Q
      PROVE  Nb(t, r) = Nb(s, r)
  <2>1. Nb(t, r) = t.neighbors[r] /\ Nb(s, r) = s.neighbors[r] /\ r \in DOMAIN s.neighbors
    BY <1>1, <1>3 DEF Nb, Knows
  <2>2. s.neighbors[r] \in NeighborState
    BY <2>1 DEF IsStore
  <2>3. [s.neighbors[r] EXCEPT !.am_interested = @] = s.neighbors[r]
    BY <2>2 DEF NeighborState
  <2> QED
    BY <1>1, <1>3, <2>1, <2>3
<1>4. ASSUME NEW r \in Peer, ~Knows(s, r)
      PROVE  Nb(t, r) = Nb(s, r)
  BY <1>1, <1>4 DEF Nb, Knows
<1> QED
  BY <1>1, <1>2, <1>3, <1>4 DEF t

\* One message, or none.
LEMMA OneMessage ==
    ASSUME NEW x \in Message
    PROVE  /\ <<x>> \in Seq(Message) /\ Elems(<<x>>) = {x}
           /\ \A now : Choked(<<x>>, now) =
                 IF x.type \in {"CHOKE", "UNCHOKE"} THEN x.type = "CHOKE" ELSE now
           /\ \A now : Interested(<<x>>, now) =
                 IF x.type \in {"INTERESTED", "NOT_INTERESTED"} THEN x.type = "INTERESTED" ELSE now
           /\ \A V : ViewAfter(<<x>>, V) =
                 IF x.type = "HAVE" THEN V \cup {x.piece}
                 ELSE IF x.type = "BITFIELD" THEN x.bitfield ELSE V
<1>1. <<x>> \in Seq(Message) /\ Elems(<<x>>) = {x}
  BY ElemsShort
<1>2. ASSUME NEW now
      PROVE  /\ Choked(<<x>>, now) =
                   IF x.type \in {"CHOKE", "UNCHOKE"} THEN x.type = "CHOKE" ELSE now
             /\ Interested(<<x>>, now) =
                   IF x.type \in {"INTERESTED", "NOT_INTERESTED"} THEN x.type = "INTERESTED" ELSE now
  <2> DEFINE choked == Settles(<<x>>, "CHOKE", "UNCHOKE", now)
             interested == Settles(<<x>>, "INTERESTED", "NOT_INTERESTED", now)
  <2>1. choked = IF x.type \in {"CHOKE", "UNCHOKE"} THEN x.type = "CHOKE" ELSE now
    <3>1. CASE x.type \in {"CHOKE", "UNCHOKE"}
      <4>1. choked = Says(x, "CHOKE")
        BY <3>1, SettlesOne
      <4> QED
        BY <3>1, <4>1 DEF Says
    <3>2. CASE x.type \notin {"CHOKE", "UNCHOKE"}
      BY <3>2, SettlesSilent
    <3> QED
      BY <3>1, <3>2
  <2>2. interested = IF x.type \in {"INTERESTED", "NOT_INTERESTED"}
                     THEN x.type = "INTERESTED" ELSE now
    <3>1. CASE x.type \in {"INTERESTED", "NOT_INTERESTED"}
      <4>1. interested = Says(x, "INTERESTED")
        BY <3>1, SettlesOne
      <4> QED
        BY <3>1, <4>1 DEF Says
    <3>2. CASE x.type \notin {"INTERESTED", "NOT_INTERESTED"}
      BY <3>2, SettlesSilent
    <3> QED
      BY <3>1, <3>2
  <2> QED
    BY <2>1, <2>2 DEF Choked, Interested
<1>3. ASSUME NEW V
      PROVE  ViewAfter(<<x>>, V) = IF x.type = "HAVE" THEN V \cup {x.piece}
                                   ELSE IF x.type = "BITFIELD" THEN x.bitfield ELSE V
  <2>1. CASE x.type = "HAVE"
    <3>1. x = Have(x.piece) /\ x.piece \in Piece
      BY <2>1 DEF Message, Have, Signals
    <3> QED
      BY <2>1, <3>1, ViewShort
  <2>2. CASE x.type = "BITFIELD"
    <3>1. x = BitfieldMsg(x.bitfield) /\ x.bitfield \in SUBSET Piece
      BY <2>2 DEF Message, BitfieldMsg, Signals
    <3>2. ViewAfter(<<BitfieldMsg(x.bitfield)>>, V) = x.bitfield
      BY <3>1, ViewShort
    <3> QED
      BY <2>2, <3>1, <3>2
  <2>3. CASE x.type \notin {"HAVE", "BITFIELD"}
    BY <1>1, <2>3, ViewNone
  <2> QED
    BY <2>1, <2>2, <2>3
<1> QED
  BY <1>1, <1>2, <1>3

-----------------------------------------------------------------------------
(* The actions. *)

\* What a receive thread finds when it reads from q, q being up.
LEMMA Reading ==
    ASSUME IInv, LInv, NEW p \in Peer, NEW q \in Peer, NEW ty, Receives(p, q, ty), Up(q)
    PROVE  /\ q \in Peer \ {p} /\ Up(p)
           /\ LinkOK(p, q) /\ LinkOK(q, p)
           /\ ty # "HANDSHAKE" => Knows(ps[p], q) /\ q \in connections[p]
           /\ IsStore(ps[p]) /\ Held(p, q) \in NeighborState
           /\ Held(p, q) = IF Knows(ps[p], q) THEN ps[p].neighbors[q] ELSE NewNeighbor
<1>1. p # q /\ Up(p) /\ chan[q][p] # <<>> /\ Head(chan[q][p]).type = ty
  BY DEF Receives
<1>2. LinkOK(p, q) /\ LinkOK(q, p)
  BY <1>1 DEF LInv
<1>3. IsStore(ps[p])
  BY MyStore DEF Good
<1> QED
  BY <1>1, <1>2, <1>3, NbFacts DEF LinkOK, Greeted, Held, Nb

\* INTERESTED and NOT_INTERESTED: the flag is as it was told.
LEMMA ReceiveInterestLinks ==
    ASSUME IInv, IInv', LInv, NEW p \in Peer, NEW q \in Peer,
           ReceiveInterested(p, q) \/ ReceiveNotInterested(p, q)
    PROVE  LInv'
<1> DEFINE x == Head(chan[q][p])
<1>1. PICK b \in BOOLEAN :
         /\ ps' = [ps EXCEPT ![p] = set_peer_interested(@, q, b)]
         /\ Attached(p, q) /\ Receives(p, q, IF b THEN "INTERESTED" ELSE "NOT_INTERESTED")
         /\ Reply(p, q, OnlyTo(q, <<>>))
         /\ UNCHANGED <<status, netVars>>
  BY DEF ReceiveInterested, ReceiveNotInterested
<1> DEFINE s == ps[p]
           t == set_peer_interested(s, q, b)
           n == Held(p, q)
           m == Nb(t, q)
<1>2. IsStore(s) /\ x \in Message
  BY <1>1, MyStore, Received DEF Good
<1>3. Touches(s, t, q, [s.neighbors[q] EXCEPT !.peer_interested = b])
  BY <1>2, TouchesPeerFlags
<1>4. ps' = [ps EXCEPT ![p] = t]
  BY <1>1
<1> HIDE DEF t, s
<1>5. ASSUME Up(q)
      PROVE  Turn(p, q, t, <<x>>, <<>>)
  <2>1. /\ Knows(s, q) /\ n = s.neighbors[q] /\ n \in NeighborState
        /\ LinkOK(p, q)
    BY <1>1, <1>5, Reading DEF s
  <2>2. m = [n EXCEPT !.peer_interested = b] /\ t.my_bitfield = s.my_bitfield /\ Knows(t, q)
    BY <1>3, <2>1 DEF Touches, Knows
  <2>3. /\ m.peer_choking = n.peer_choking /\ m.peer_interested = b
        /\ m.bitfield = n.bitfield /\ m.am_choking = n.am_choking
        /\ m.am_interested = n.am_interested
        /\ m.outstanding_request = n.outstanding_request
    BY <2>1, <2>2 DEF NeighborState
  <2>4. x.type = IF b THEN "INTERESTED" ELSE "NOT_INTERESTED"
    BY <1>1 DEF Receives
  <2> HIDE DEF m, n, x
  <2>5. /\ n.am_interested = (n.bitfield \ s.my_bitfield # {})
        /\ n.outstanding_request # None => ~n.peer_choking
    BY <2>1 DEF LinkOK, FlagsTold, RequestTold, n, s
  <2>6. Hears(p, q, t, <<x>>)
    BY <1>2, <2>1, <2>2, <2>3, <2>4, OneMessage DEF Hears, n, m, s
  <2>7. Tells(p, q, t, <<>>)
    BY <2>1, <2>2, <2>3, <2>5, NoMessage DEF Tells, n, m, s
  <2>8. Asks(p, q, t, <<x>>, <<>>)
    BY <1>2, <2>3, <2>4, <2>5, OneMessage, NoMessage DEF Asks, n, m
  <2> QED
    BY <2>6, <2>7, <2>8 DEF Turn
<1> HIDE DEF x
<1>6. /\ t.my_bitfield = s.my_bitfield
      /\ \A r \in Peer : Knows(s, r) <=> Knows(t, r)
      /\ \A r \in Peer \ {p, q} : Nb(t, r) = Held(p, r)
  BY <1>3 DEF Touches, Knows, Held, s
<1> QED
  BY <1>1, <1>4, <1>5, <1>6, NoMessage, AnswerKeeps DEF x, s

\* CHOKE: the request that waits is given up.
LEMMA ReceiveChokeLinks ==
    ASSUME IInv, IInv', LInv, NEW p \in Peer, NEW q \in Peer, ReceiveChoke(p, q)
    PROVE  LInv'
<1> DEFINE x == Head(chan[q][p])
           s == ps[p]
           u == set_peer_choking(s, q, TRUE)
           t == clear_outstanding_request(u, q)
           n == Held(p, q)
           m == Nb(t, q)
<1>1. /\ ps' = [ps EXCEPT ![p] = t]
      /\ Attached(p, q) /\ Receives(p, q, "CHOKE") /\ Reply(p, q, OnlyTo(q, <<>>))
      /\ UNCHANGED <<status, netVars>>
  BY DEF ReceiveChoke
<1>2. IsStore(s) /\ x \in Message /\ x.type = "CHOKE"
  BY <1>1, MyStore, Received DEF Good
<1>3. IsStore(u)
  BY <1>1, MyStore, SetPeerChokingGood DEF GoodUpdate, Good
<1>4. /\ Touches(s, u, q, [s.neighbors[q] EXCEPT !.peer_choking = TRUE])
      /\ Touches(u, t, q, [u.neighbors[q] EXCEPT !.outstanding_request = None])
  BY <1>2, <1>3, TouchesPeerFlags, TouchesRequest
<1> HIDE DEF t, s, u
<1>5. ASSUME Up(q)
      PROVE  Turn(p, q, t, <<x>>, <<>>)
  <2>1. /\ Knows(s, q) /\ n = s.neighbors[q] /\ n \in NeighborState
        /\ LinkOK(p, q)
    BY <1>1, <1>5, Reading DEF s
  <2>2. /\ t.my_bitfield = s.my_bitfield /\ Knows(t, q) /\ Knows(u, q)
        /\ Nb(u, q) = [n EXCEPT !.peer_choking = TRUE]
        /\ m = [u.neighbors[q] EXCEPT !.outstanding_request = None]
        /\ Nb(u, q) = u.neighbors[q]
    BY <1>4, <2>1 DEF Touches, Knows, Nb
  <2>3. /\ m.peer_choking = TRUE /\ m.peer_interested = n.peer_interested
        /\ m.bitfield = n.bitfield /\ m.am_choking = n.am_choking
        /\ m.am_interested = n.am_interested
        /\ m.outstanding_request = None
    BY <2>1, <2>2 DEF NeighborState
  <2> HIDE DEF m, n, x
  <2>4. n.am_interested = (n.bitfield \ s.my_bitfield # {})
    BY <2>1 DEF LinkOK, FlagsTold, n, s
  <2>5. Hears(p, q, t, <<x>>)
    BY <1>2, <2>1, <2>2, <2>3, OneMessage DEF Hears, n, m, s
  <2>6. Tells(p, q, t, <<>>)
    BY <2>1, <2>2, <2>3, <2>4, NoMessage DEF Tells, n, m, s
  <2>7. Asks(p, q, t, <<x>>, <<>>)
    BY <1>2, <2>3, OneMessage, NoMessage DEF Asks, n, m
  <2> QED
    BY <2>5, <2>6, <2>7 DEF Turn
<1> HIDE DEF x
<1>6. /\ t.my_bitfield = s.my_bitfield
      /\ \A r \in Peer : Knows(s, r) <=> Knows(t, r)
      /\ \A r \in Peer \ {p, q} : Nb(t, r) = Held(p, r)
  BY <1>4 DEF Touches, Knows, Held, s
<1> QED
  BY <1>1, <1>5, <1>6, NoMessage, AnswerKeeps DEF x, s

\* PIECE, when it cannot be written: the request is cleared all the same.
LEMMA ReceivePieceWriteFailsLinks ==
    ASSUME IInv, IInv', LInv, NEW p \in Peer, NEW q \in Peer, ReceivePieceWriteFails(p, q)
    PROVE  LInv'
<1> DEFINE x == Head(chan[q][p])
           s == ps[p]
           t == clear_outstanding_request(s, q)
           n == Held(p, q)
           m == Nb(t, q)
<1>1. /\ ps' = [ps EXCEPT ![p] = t]
      /\ Attached(p, q) /\ Receives(p, q, "PIECE") /\ Reply(p, q, OnlyTo(q, <<>>))
      /\ UNCHANGED <<status, netVars>>
  BY DEF ReceivePieceWriteFails
<1>2. IsStore(s) /\ x \in Message /\ x.type = "PIECE"
  BY <1>1, MyStore, Received DEF Good
<1>3. Touches(s, t, q, [s.neighbors[q] EXCEPT !.outstanding_request = None])
  BY <1>2, TouchesRequest
<1> HIDE DEF t, s
<1>4. ASSUME Up(q)
      PROVE  Turn(p, q, t, <<x>>, <<>>)
  <2>1. /\ Knows(s, q) /\ n = s.neighbors[q] /\ n \in NeighborState
        /\ LinkOK(p, q)
    BY <1>1, <1>4, Reading DEF s
  <2>2. /\ t.my_bitfield = s.my_bitfield /\ Knows(t, q)
        /\ m = [n EXCEPT !.outstanding_request = None]
    BY <1>3, <2>1 DEF Touches, Knows, Nb
  <2>3. /\ m.peer_choking = n.peer_choking /\ m.peer_interested = n.peer_interested
        /\ m.bitfield = n.bitfield /\ m.am_choking = n.am_choking
        /\ m.am_interested = n.am_interested
        /\ m.outstanding_request = None
    BY <2>1, <2>2 DEF NeighborState
  <2> HIDE DEF m, n, x
  <2>4. n.am_interested = (n.bitfield \ s.my_bitfield # {})
    BY <2>1 DEF LinkOK, FlagsTold, n, s
  <2>5. Hears(p, q, t, <<x>>)
    BY <1>2, <2>1, <2>2, <2>3, OneMessage DEF Hears, n, m, s
  <2>6. Tells(p, q, t, <<>>)
    BY <2>1, <2>2, <2>3, <2>4, NoMessage DEF Tells, n, m, s
  <2>7. Asks(p, q, t, <<x>>, <<>>)
    BY <1>2, <2>3, OneMessage, NoMessage DEF Asks, n, m
  <2> QED
    BY <2>5, <2>6, <2>7 DEF Turn
<1> HIDE DEF x
<1>5. /\ t.my_bitfield = s.my_bitfield
      /\ \A r \in Peer : Knows(s, r) <=> Knows(t, r)
      /\ \A r \in Peer \ {p, q} : Nb(t, r) = Held(p, r)
  BY <1>3 DEF Touches, Knows, Held, s
<1> QED
  BY <1>1, <1>4, <1>5, NoMessage, AnswerKeeps DEF x, s

\* A piece is served unless the peer that wants it is choked, which it is told.
LEMMA ReceiveRequestLinks ==
    ASSUME IInv, IInv', LInv, NEW p \in Peer, NEW q \in Peer, ReceiveRequest(p, q)
    PROVE  LInv'
<1> DEFINE x == Head(chan[q][p])
           i == x.piece
           s == ps[p]
           serves == ~is_am_choking(s, q) /\ i \in s.my_bitfield
           sd == IF serves THEN <<PieceMsg(i)>> ELSE <<>>
           n == Held(p, q)
<1>1. /\ ps' = [ps EXCEPT ![p] = s]
      /\ Attached(p, q) /\ Receives(p, q, "REQUEST") /\ Reply(p, q, OnlyTo(q, sd))
      /\ UNCHANGED <<status, netVars>>
  BY IInvParts DEF ReceiveRequest
<1>2. IsStore(s) /\ x \in Message /\ x.type = "REQUEST" /\ i \in Piece
  <2>1. IsStore(s) /\ x \in Message /\ x.type = "REQUEST"
    BY <1>1, MyStore, Received DEF Good
  <2> QED
    BY <2>1 DEF Message, Signals
<1>3. /\ PieceMsg(i) \in Message /\ PieceMsg(i).type = "PIECE"
      /\ sd \in {<<>>, <<PieceMsg(i)>>}
  BY <1>2 DEF PieceMsg, Message
<1>4. /\ sd \in Seq(Message) /\ \A m \in Elems(sd) : m.type = "PIECE"
      /\ \A now : Choked(sd, now) = now /\ Interested(sd, now) = now /\ ViewAfter(sd, now) = now
      /\ serves => PieceMsg(i) \in Elems(sd)
  <2>1. CASE serves
    BY <1>3, <2>1, OneMessage
  <2>2. CASE ~serves
    BY <2>2, NoMessage
  <2> QED
    BY <2>1, <2>2
<1> HIDE DEF sd
<1>5. ASSUME Up(q)
      PROVE  Turn(p, q, s, <<x>>, sd)
  <2>1. Knows(s, q) /\ n \in NeighborState /\ LinkOK(p, q) /\ LinkOK(q, p) /\ q \in Peer \ {p}
    BY <1>1, <1>5, Reading DEF s
  <2>2. n = Nb(s, q)
    BY DEF Held
  <2>3. i \in s.my_bitfield
    <3>1. x \in Elems(chan[q][p])
      BY <1>1, Received, ElemsTail DEF Streams
    <3> QED
      BY <1>2, <2>1, <3>1 DEF LinkOK, RequestTold
  <2>4. is_am_choking(s, q) = n.am_choking
    BY <1>2, <2>2, NbFacts
  <2>5. n.am_choking \/ PieceMsg(i) \in Elems(sd)
    BY <1>4, <2>3, <2>4
  <2> HIDE DEF n, x, i, serves, s
  <2>6. /\ n.am_interested = (n.bitfield \ s.my_bitfield # {})
        /\ n.outstanding_request # None => ~n.peer_choking
    BY <2>1 DEF LinkOK, FlagsTold, RequestTold, n, s
  <2>7. Hears(p, q, s, <<x>>)
    BY <1>2, <2>1, <2>2, OneMessage DEF Hears, n
  <2>8. Tells(p, q, s, sd)
    BY <1>4, <2>1, <2>2, <2>6 DEF Tells, n, s
  <2>9. Asks(p, q, s, <<x>>, sd)
    BY <1>2, <1>4, <2>2, <2>5, <2>6, OneMessage DEF Asks, n, i
  <2> QED
    BY <2>7, <2>8, <2>9 DEF Turn
<1> HIDE DEF x, s
<1>6. /\ s.my_bitfield = ps[p].my_bitfield
      /\ \A r \in Peer : Knows(ps[p], r) <=> Knows(s, r)
      /\ \A r \in Peer \ {p, q} : Nb(s, r) = Held(p, r)
  BY DEF Held, s
<1> QED
  BY <1>1, <1>4, <1>5, <1>6, AnswerKeeps DEF x

\* The outcome o of asking q for a piece from store s: nothing, or a request.
Asked(s, q, o) ==
    \/ o.store = s /\ o.msgs = <<>>
    \/ \E i \in Piece :
          /\ Knows(s, q)
          /\ i \in s.neighbors[q].bitfield
          /\ ~is_peer_choking_us(s, q)
          /\ o.msgs = <<Request(i)>>
          /\ Touches(s, o.store, q, [s.neighbors[q] EXCEPT !.outstanding_request = i])

\* Whatever _request_next_piece does, it asks for a piece the neighbour has.
LEMMA OutcomesAsked ==
    ASSUME NEW s, IsStore(s), NEW q \in Peer, NEW o \in RequestOutcomes(s, q)
    PROVE  Asked(s, q, o)
<1> DEFINE picks == { i \in Candidates(s, q) : CanReserve(s, q, i) }
<1>1. CASE o = [store |-> s, msgs |-> <<>>]
  BY <1>1 DEF Asked
<1>2. CASE o # [store |-> s, msgs |-> <<>>]
  <2>1. /\ ~is_peer_choking_us(s, q)
        /\ \E i \in picks : o = [store |-> reserve_request(s, q, i), msgs |-> <<Request(i)>>]
    BY <1>2 DEF RequestOutcomes
  <2>2. PICK i \in picks : o = [store |-> reserve_request(s, q, i), msgs |-> <<Request(i)>>]
    BY <2>1
  <2>3. /\ Knows(s, q) /\ CanReserve(s, q, i)
        /\ i \in s.neighbors[q].bitfield
    BY <2>2 DEF Candidates, get_interesting_pieces
  <2>4. i \in Piece
    BY <2>3 DEF IsStore, NeighborState, Knows
  <2>5. /\ o.msgs = <<Request(i)>>
        /\ Touches(s, o.store, q, [s.neighbors[q] EXCEPT !.outstanding_request = i])
    BY <2>2, <2>3, TouchesRequest
  <2> QED
    BY <2>1, <2>3, <2>4, <2>5 DEF Asked
<1> QED
  BY <1>1, <1>2

\* Messages that say nothing of flags and pieces.
LEMMA SilentLetter ==
    ASSUME NEW c \in Seq(Message),
           \A m \in Elems(c) : m.type \in {"HANDSHAKE", "REQUEST", "PIECE", "EOF"}
    PROVE  \A now : Choked(c, now) = now /\ Interested(c, now) = now /\ ViewAfter(c, now) = now
<1>1. ASSUME NEW now
      PROVE  /\ Settles(c, "CHOKE", "UNCHOKE", now) = now
             /\ Settles(c, "INTERESTED", "NOT_INTERESTED", now) = now
  <2>1. \A m \in Elems(c) : m.type \notin {"CHOKE", "UNCHOKE"}
    OBVIOUS
  <2>2. \A m \in Elems(c) : m.type \notin {"INTERESTED", "NOT_INTERESTED"}
    OBVIOUS
  <2> QED
    BY <2>1, <2>2, SettlesNone
<1>2. ASSUME NEW now
      PROVE  ViewAfter(c, now) = now
  <2>1. \A m \in Elems(c) : m.type \notin {"HAVE", "BITFIELD"}
    OBVIOUS
  <2> QED
    BY <2>1, ViewNone
<1> QED
  BY <1>1, <1>2 DEF Choked, Interested

\* _sync_interest_for_peer brings the other end up to date.
LEMMA InterestMsgsTell ==
    ASSUME NEW s, IsStore(s), NEW q \in Peer
    PROVE  LET c == InterestMsgs(s, q)
               n == Nb(s, q)
           IN  /\ Interested(c, n.am_interested) = (n.bitfield \ s.my_bitfield # {})
               /\ \A now : Choked(c, now) = now /\ ViewAfter(c, now) = now
<1> DEFINE c == InterestMsgs(s, q)
           n == Nb(s, q)
           wants == n.bitfield \ s.my_bitfield # {}
<1>1. /\ get_interesting_pieces(s, q) # {} <=> wants
      /\ is_am_interested_in_peer(s, q) = n.am_interested
      /\ n.am_interested \in BOOLEAN
  BY NbFacts DEF NeighborState
<1>2. /\ Signal("INTERESTED") \in Message /\ Signal("NOT_INTERESTED") \in Message
      /\ Signal("INTERESTED").type = "INTERESTED"
      /\ Signal("NOT_INTERESTED").type = "NOT_INTERESTED"
  BY DEF Signal, Message, Signals
<1> HIDE DEF n
<1>3. CASE wants /\ ~n.am_interested
  <2>1. c = <<Signal("INTERESTED")>>
    BY <1>1, <1>3 DEF InterestMsgs
  <2> HIDE DEF c
  <2>2. Interested(c, n.am_interested) = TRUE
    BY <1>2, <2>1, OneMessage
  <2>3. \A now : Choked(c, now) = now /\ ViewAfter(c, now) = now
    BY <1>2, <2>1, OneMessage
  <2> QED
    BY <1>3, <2>2, <2>3 DEF c, n
<1>4. CASE ~wants /\ n.am_interested
  <2>1. c = <<Signal("NOT_INTERESTED")>>
    BY <1>1, <1>4 DEF InterestMsgs
  <2> HIDE DEF c
  <2>2. Interested(c, n.am_interested) = FALSE
    BY <1>2, <2>1, OneMessage
  <2>3. \A now : Choked(c, now) = now /\ ViewAfter(c, now) = now
    BY <1>2, <2>1, OneMessage
  <2> QED
    BY <1>4, <2>2, <2>3 DEF c, n
<1>5. CASE wants <=> n.am_interested
  <2>1. c = <<>>
    BY <1>1, <1>5 DEF InterestMsgs
  <2> HIDE DEF c
  <2>2. /\ Interested(c, n.am_interested) = n.am_interested
        /\ \A now : Choked(c, now) = now /\ ViewAfter(c, now) = now
    BY <2>1, NoMessage
  <2>3. n.am_interested = wants
    BY <1>1, <1>5
  <2> QED
    BY <2>2, <2>3 DEF c, n
<1> QED
  BY <1>1, <1>3, <1>4, <1>5

\* What p believes q has is there.
LEMMA BelievedThere ==
    ASSUME IInv, NEW p \in Peer, NEW q \in Peer
    PROVE  Held(p, q).bitfield \subseteq ps[q].my_bitfield
<1>1. Good(ps[p], p, Holdings) /\ Holdings[q] = ps[q].my_bitfield
  BY MyStore DEF Holdings
<1> QED
  BY <1>1 DEF Good, Sound, Knows, Held, Nb, NewNeighbor

\* UNCHOKE: the next request, if there is one.
LEMMA ReceiveUnchokeLinks ==
    ASSUME IInv, IInv', LInv, NEW p \in Peer, NEW q \in Peer, ReceiveUnchoke(p, q)
    PROVE  LInv'
<1> DEFINE x == Head(chan[q][p])
           s == ps[p]
           u == set_peer_choking(s, q, FALSE)
           n == Held(p, q)
<1>1. PICK o \in RequestOutcomes(u, q) :
         ps' = [ps EXCEPT ![p] = o.store] /\ Reply(p, q, OnlyTo(q, o.msgs))
  BY DEF ReceiveUnchoke
<1> DEFINE t == o.store
           m == Nb(t, q)
<1>2. Attached(p, q) /\ Receives(p, q, "UNCHOKE") /\ UNCHANGED <<status, netVars>>
  BY DEF ReceiveUnchoke
<1>3. IsStore(s) /\ x \in Message /\ x.type = "UNCHOKE"
  BY <1>2, MyStore, Received DEF Good
<1>4. IsStore(u)
  BY <1>2, MyStore, SetPeerChokingGood DEF GoodUpdate, Good
<1>5. /\ Touches(s, u, q, [s.neighbors[q] EXCEPT !.peer_choking = FALSE])
      /\ Asked(u, q, o)
  BY <1>3, <1>4, TouchesPeerFlags, OutcomesAsked
<1> HIDE DEF t, s, u
<1>6. /\ t.my_bitfield = s.my_bitfield
      /\ \A r \in Peer : Knows(s, r) <=> Knows(t, r)
      /\ \A r \in Peer \ {p, q} : Nb(t, r) = Held(p, r)
      /\ \A r \in Peer : Knows(s, r) <=> Knows(u, r)
  BY <1>5 DEF Touches, Asked, Knows, Held, s, t
<1>7. /\ o.msgs \in Seq(Message)
      /\ \A y \in Elems(o.msgs) : y.type = "REQUEST"
  <2>1. \A i \in Piece : Request(i) \in Message /\ Request(i).type = "REQUEST"
    BY DEF Request, Message
  <2>2. o.msgs = <<>> \/ \E y \in Message : y.type = "REQUEST" /\ o.msgs = <<y>>
    BY <1>5, <2>1 DEF Asked
  <2>3. CASE o.msgs = <<>>
    BY <2>3, NoMessage
  <2>4. ASSUME NEW y \in Message, y.type = "REQUEST", o.msgs = <<y>>
        PROVE  o.msgs \in Seq(Message) /\ Elems(o.msgs) = {y}
    BY <2>4, OneMessage
  <2> QED
    BY <2>2, <2>3, <2>4
<1>8. ASSUME Up(q)
      PROVE  Turn(p, q, t, <<x>>, o.msgs)
  <2>1. /\ Knows(s, q) /\ n = s.neighbors[q] /\ n \in NeighborState
        /\ LinkOK(p, q)
    BY <1>2, <1>8, Reading DEF s
  <2>2. /\ Knows(u, q) /\ Nb(u, q) = u.neighbors[q] /\ Knows(t, q)
        /\ Nb(u, q) = [n EXCEPT !.peer_choking = FALSE]
    BY <1>5, <1>6, <2>1 DEF Touches, Nb
  <2>3. \/ m = Nb(u, q) /\ o.msgs = <<>>
        \/ \E i \in Piece : /\ i \in Nb(u, q).bitfield
                            /\ o.msgs = <<Request(i)>>
                            /\ m = [Nb(u, q) EXCEPT !.outstanding_request = i]
    BY <1>5, <2>2 DEF Asked, Touches, t
  <2> HIDE DEF m, n, x, t
  <2>4. /\ m.peer_choking = FALSE /\ m.peer_interested = n.peer_interested
        /\ m.bitfield = n.bitfield /\ m.am_choking = n.am_choking
        /\ m.am_interested = n.am_interested
        /\ \/ m.outstanding_request = n.outstanding_request /\ o.msgs = <<>>
           \/ m.outstanding_request \in n.bitfield /\ o.msgs = <<Request(m.outstanding_request)>>
    BY <2>1, <2>2, <2>3, ZenonT(30) DEF NeighborState
  <2>5. n.am_interested = (n.bitfield \ s.my_bitfield # {})
    BY <2>1 DEF LinkOK, FlagsTold, n, s
  <2>6. Hears(p, q, t, <<x>>)
    BY <1>3, <2>1, <2>2, <2>4, OneMessage DEF Hears, n, m, s
  <2>7. Tells(p, q, t, o.msgs)
    <3>1. \A now : Choked(o.msgs, now) = now /\ Interested(o.msgs, now) = now
                      /\ ViewAfter(o.msgs, now) = now
      BY <1>7, SilentLetter
    <3> QED
      BY <1>6, <2>1, <2>2, <2>4, <2>5, <3>1 DEF Tells, n, m, s
  <2>8. Asks(p, q, t, <<x>>, o.msgs)
    <3>1. Elems(<<x>>) = {x}
      BY <1>3, OneMessage
    <3>2. m.outstanding_request # None =>
             \/ Request(m.outstanding_request) \in Elems(o.msgs)
             \/ n.outstanding_request = m.outstanding_request
      BY <2>4, ElemsShort
    <3>3. \A y \in Elems(o.msgs) : y.piece \in ps[q].my_bitfield
      <4>1. n.bitfield \subseteq ps[q].my_bitfield
        BY BelievedThere DEF n
      <4>2. \A i : Request(i).piece = i
        BY DEF Request
      <4>3. CASE o.msgs = <<>>
        BY <4>3, NoMessage
      <4>4. CASE o.msgs = <<Request(m.outstanding_request)>> /\ m.outstanding_request \in n.bitfield
        BY <4>1, <4>2, <4>4, ElemsShort
      <4> QED
        BY <2>4, <4>3, <4>4
    <3> QED
      BY <1>3, <2>4, <3>1, <3>2, <3>3 DEF Asks, n, m
  <2> QED
    BY <2>6, <2>7, <2>8 DEF Turn
<1> HIDE DEF x
<1> QED
  BY <1>1, <1>2, <1>6, <1>7, <1>8, AnswerKeeps DEF x, s, t

\* BITFIELD: the view is replaced, and the interest follows it.
LEMMA ReceiveBitfieldLinks ==
    ASSUME IInv, IInv', LInv, NEW p \in Peer, NEW q \in Peer, ReceiveBitfield(p, q)
    PROVE  LInv'
<1> DEFINE x == Head(chan[q][p])
           s == ps[p]
           b == x.bitfield
           u == update_neighbor_bitfield(s, q, b)
           t == SetInterest(u, {q})
           y == Signal(IF get_interesting_pieces(t, q) # {} THEN "INTERESTED"
                       ELSE "NOT_INTERESTED")
           n == Held(p, q)
           m == Nb(t, q)
<1>1. /\ ps' = [ps EXCEPT ![p] = t]
      /\ Attached(p, q) /\ Receives(p, q, "BITFIELD") /\ Reply(p, q, OnlyTo(q, <<y>>))
      /\ UNCHANGED <<status, netVars>>
  BY DEF ReceiveBitfield
<1>2. IsStore(s) /\ x \in Message /\ x.type = "BITFIELD" /\ b \in SUBSET Piece
  <2>1. IsStore(s) /\ x \in Message /\ x.type = "BITFIELD"
    BY <1>1, MyStore, Received DEF Good
  <2> QED
    BY <2>1 DEF Message, Signals
<1>3. IsStore(u)
  <2>1. b \subseteq Holdings[q]
    BY <1>1, <1>2, Received DEF MessageTrue, Holdings
  <2>2. q # p
    BY <1>1 DEF Receives
  <2> QED
    BY <1>2, <2>1, <2>2, MyStore, SetNeighborBitfieldGood
       DEF GoodUpdate, Good, update_neighbor_bitfield
<1>4. Touches(s, u, q, [s.neighbors[q] EXCEPT !.bitfield = b])
  BY <1>2, TouchesBitfield DEF update_neighbor_bitfield
<1>5. /\ t.my_bitfield = u.my_bitfield
      /\ DOMAIN t.neighbors = DOMAIN u.neighbors
      /\ \A r \in Peer :
            IF r \in {q} /\ Knows(u, r)
            THEN Nb(t, r) = [Nb(u, r) EXCEPT !.am_interested =
                                (Nb(u, r).bitfield \ u.my_bitfield # {})]
            ELSE Nb(t, r) = Nb(u, r)
  BY <1>3, NbSetInterest
<1>6. IsStore(t)
  <2>1. ps'[p] = t
    BY <1>1, IInvParts
  <2> QED
    BY <2>1 DEF IInv, TypeOK
<1>7. get_interesting_pieces(t, q) = m.bitfield \ t.my_bitfield
  BY <1>6, NbFacts
<1>8. /\ y \in Message
      /\ y.type = IF m.bitfield \ t.my_bitfield # {} THEN "INTERESTED" ELSE "NOT_INTERESTED"
  BY <1>7 DEF Signal, Message, Signals
<1> HIDE DEF t, s, u, y
<1>9. /\ t.my_bitfield = s.my_bitfield
      /\ \A r \in Peer : Knows(s, r) <=> Knows(t, r)
      /\ \A r \in Peer \ {p, q} : Nb(t, r) = Held(p, r)
      /\ \A r \in Peer : Knows(s, r) <=> Knows(u, r)
  BY <1>4, <1>5 DEF Touches, Knows, Held, s
<1>10. ASSUME Up(q)
      PROVE  Turn(p, q, t, <<x>>, <<y>>)
  <2>1. /\ Knows(s, q) /\ n = s.neighbors[q] /\ n \in NeighborState
        /\ LinkOK(p, q)
    BY <1>1, <1>10, Reading DEF s
  <2>2. /\ Knows(u, q) /\ Knows(t, q)
        /\ Nb(u, q) = [n EXCEPT !.bitfield = b]
        /\ m = [Nb(u, q) EXCEPT !.am_interested = (Nb(u, q).bitfield \ u.my_bitfield # {})]
        /\ u.my_bitfield = s.my_bitfield
    BY <1>4, <1>5, <1>9, <2>1 DEF Touches
  <2> HIDE DEF m, n, x, b
  <2>3. /\ m.peer_choking = n.peer_choking /\ m.peer_interested = n.peer_interested
        /\ m.bitfield = b /\ m.am_choking = n.am_choking
        /\ m.am_interested = (b \ s.my_bitfield # {})
        /\ m.outstanding_request = n.outstanding_request
    BY <2>1, <2>2 DEF NeighborState
  <2>4. n.outstanding_request # None => ~n.peer_choking
    BY <2>1 DEF LinkOK, RequestTold, n
  <2>5. Hears(p, q, t, <<x>>)
    BY <1>2, <2>1, <2>2, <2>3, OneMessage DEF Hears, n, m, s, b
  <2>6. Tells(p, q, t, <<y>>)
    <3>1. Interested(<<y>>, n.am_interested) = (y.type = "INTERESTED")
      BY <1>8, OneMessage
    <3>2. \A now : Choked(<<y>>, now) = now /\ ViewAfter(<<y>>, now) = now
      BY <1>8, OneMessage
    <3>3. m.am_interested = (m.bitfield \ t.my_bitfield # {})
      BY <1>9, <2>3
    <3>4. (y.type = "INTERESTED") = (m.bitfield \ t.my_bitfield # {})
      BY <1>8
    <3> QED
      BY <1>9, <2>1, <2>2, <2>3, <3>1, <3>2, <3>3, <3>4 DEF Tells, n, m, s
  <2>7. Asks(p, q, t, <<x>>, <<y>>)
    <3>1. Elems(<<x>>) = {x} /\ Elems(<<y>>) = {y}
      BY ElemsShort
    <3> QED
      BY <1>2, <1>8, <2>3, <2>4, <3>1 DEF Asks, n, m
  <2> QED
    BY <2>5, <2>6, <2>7 DEF Turn
<1>11. <<y>> \in Seq(Message)
  BY <1>8, OneMessage
<1> HIDE DEF x
<1> QED
  BY <1>1, <1>9, <1>10, <1>11, AnswerKeeps DEF x, s

\* HAVE: the view grows, and the interest follows it.
LEMMA ReceiveHaveLinks ==
    ASSUME IInv, IInv', LInv, NEW p \in Peer, NEW q \in Peer, ReceiveHave(p, q)
    PROVE  LInv'
<1> DEFINE x == Head(chan[q][p])
           s == ps[p]
           i == x.piece
           u == neighbor_set_piece(s, q, i)
           t == SetInterest(u, {q})
           sd == InterestMsgs(u, q)
           n == Held(p, q)
           m == Nb(t, q)
<1>1. /\ ps' = [ps EXCEPT ![p] = t]
      /\ Attached(p, q) /\ Receives(p, q, "HAVE") /\ Reply(p, q, OnlyTo(q, sd))
      /\ UNCHANGED <<status, netVars>>
  BY DEF ReceiveHave
<1>2. IsStore(s) /\ x \in Message /\ x.type = "HAVE" /\ i \in Piece
  <2>1. IsStore(s) /\ x \in Message /\ x.type = "HAVE"
    BY <1>1, MyStore, Received DEF Good
  <2> QED
    BY <2>1 DEF Message, Signals
<1>3. Touches(s, u, q, [s.neighbors[q] EXCEPT !.bitfield = s.neighbors[q].bitfield \cup {i}])
  <2>1. CASE Knows(s, q)
    BY <1>2, <2>1, TouchesBitfield DEF neighbor_set_piece
  <2>2. CASE ~Knows(s, q)
    BY <2>2 DEF neighbor_set_piece, Touches
  <2> QED
    BY <2>1, <2>2
<1>4. IsStore(u)
  <2> DEFINE b == s.neighbors[q].bitfield \cup {i}
  <2>1. CASE Knows(s, q)
    <3>1. b \subseteq Holdings[q] /\ b \in SUBSET Piece
      <4>1. i \in Holdings[q]
        BY <1>1, <1>2, Received DEF MessageTrue, Holdings
      <4>2. s.neighbors[q].bitfield \subseteq Holdings[q]
        BY <2>1, MyStore DEF Good, Sound, Knows
      <4> QED
        BY <4>1, <4>2, MyStore
    <3>2. q # p
      BY <1>1 DEF Receives
    <3> HIDE DEF b
    <3>3. IsStore(SetNeighborBitfield(s, q, b))
      BY <3>1, <3>2, MyStore, SetNeighborBitfieldGood DEF GoodUpdate, Good
    <3> QED
      BY <2>1, <3>3 DEF neighbor_set_piece, b
  <2>2. CASE ~Knows(s, q)
    BY <1>2, <2>2 DEF neighbor_set_piece
  <2> QED
    BY <2>1, <2>2
<1>5. /\ t.my_bitfield = u.my_bitfield
      /\ DOMAIN t.neighbors = DOMAIN u.neighbors
      /\ \A r \in Peer :
            IF r \in {q} /\ Knows(u, r)
            THEN Nb(t, r) = [Nb(u, r) EXCEPT !.am_interested =
                                (Nb(u, r).bitfield \ u.my_bitfield # {})]
            ELSE Nb(t, r) = Nb(u, r)
  BY <1>4, NbSetInterest
<1>6. /\ sd \in Seq(Message)
      /\ \A y \in Elems(sd) : y.type \in {"INTERESTED", "NOT_INTERESTED"}
      /\ Interested(sd, Nb(u, q).am_interested) = (Nb(u, q).bitfield \ u.my_bitfield # {})
      /\ \A now : Choked(sd, now) = now /\ ViewAfter(sd, now) = now
  BY <1>4, InterestMsgsType, InterestMsgsTell
<1> HIDE DEF t, s, u, sd
<1>7. /\ t.my_bitfield = s.my_bitfield
      /\ \A r \in Peer : Knows(s, r) <=> Knows(t, r)
      /\ \A r \in Peer \ {p, q} : Nb(t, r) = Held(p, r)
      /\ \A r \in Peer : Knows(s, r) <=> Knows(u, r)
  BY <1>3, <1>5 DEF Touches, Knows, Held, s
<1>8. ASSUME Up(q)
      PROVE  Turn(p, q, t, <<x>>, sd)
  <2>1. /\ Knows(s, q) /\ n = s.neighbors[q] /\ n \in NeighborState
        /\ LinkOK(p, q)
    BY <1>1, <1>8, Reading DEF s
  <2>2. /\ Knows(u, q) /\ Knows(t, q)
        /\ Nb(u, q) = [n EXCEPT !.bitfield = n.bitfield \cup {i}]
        /\ m = [Nb(u, q) EXCEPT !.am_interested = (Nb(u, q).bitfield \ u.my_bitfield # {})]
        /\ u.my_bitfield = s.my_bitfield
    BY <1>3, <1>5, <1>7, <2>1 DEF Touches
  <2> HIDE DEF m, n, x, i
  <2>3. /\ m.peer_choking = n.peer_choking /\ m.peer_interested = n.peer_interested
        /\ m.bitfield = n.bitfield \cup {i} /\ m.am_choking = n.am_choking
        /\ m.am_interested = (m.bitfield \ s.my_bitfield # {})
        /\ m.outstanding_request = n.outstanding_request
        /\ Nb(u, q).am_interested = n.am_interested
        /\ Nb(u, q).bitfield = m.bitfield
    BY <2>1, <2>2 DEF NeighborState
  <2>4. n.outstanding_request # None => ~n.peer_choking
    BY <2>1 DEF LinkOK, RequestTold, n
  <2>5. Hears(p, q, t, <<x>>)
    BY <1>2, <2>1, <2>2, <2>3, OneMessage DEF Hears, n, m, s, i
  <2>6. Tells(p, q, t, sd)
    BY <1>6, <1>7, <2>1, <2>2, <2>3 DEF Tells, n, m, s
  <2>7. Asks(p, q, t, <<x>>, sd)
    <3>1. Elems(<<x>>) = {x}
      BY ElemsShort
    <3> QED
      BY <1>2, <1>6, <2>3, <2>4, <3>1 DEF Asks, n, m
  <2> QED
    BY <2>5, <2>6, <2>7 DEF Turn
<1> HIDE DEF x
<1> QED
  BY <1>1, <1>6, <1>7, <1>8, AnswerKeeps DEF x, s

\* A link on which p says something of no consequence, its store unchanged.
LEMMA SilentTurn ==
    ASSUME IInv, LInv, NEW p \in Peer, NEW r \in Peer \ {p}, Up(p), Up(r),
           NEW c \in Seq(Message), \A x \in Elems(c) : x.type = "HANDSHAKE"
    PROVE  Turn(p, r, ps[p], <<>>, c)
<1> DEFINE n == Held(p, r)
<1>1. \A now : Choked(c, now) = now /\ Interested(c, now) = now /\ ViewAfter(c, now) = now
  BY SilentLetter
<1>2. FlagsTold(p, r) /\ RequestTold(p, r) /\ Nb(ps[p], r) = n
  BY DEF LInv, LinkOK, Held
<1> HIDE DEF n
<1>3. Hears(p, r, ps[p], <<>>)
  BY <1>2, NoMessage DEF Hears, n
<1>4. Tells(p, r, ps[p], c)
  BY <1>1, <1>2 DEF Tells, FlagsTold, n
<1>5. Asks(p, r, ps[p], <<>>, c)
  BY <1>2, NoMessage DEF Asks, RequestTold, n
<1> QED
  BY <1>3, <1>4, <1>5 DEF Turn

\* The letter that opens a connection.
LEMMA HandshakeLetter ==
    /\ Signal("HANDSHAKE") \in Message /\ Signal("HANDSHAKE").type = "HANDSHAKE"
    /\ <<Signal("HANDSHAKE")>> \in Seq(Message)
    /\ Elems(<<Signal("HANDSHAKE")>>) = {Signal("HANDSHAKE")}
    /\ Head(<<Signal("HANDSHAKE")>>) = Signal("HANDSHAKE")
<1>1. Signal("HANDSHAKE") \in Message /\ Signal("HANDSHAKE").type = "HANDSHAKE"
  BY DEF Signal, Message, Signals
<1> QED
  BY <1>1, OneMessage

\* A connection to an earlier peer: it finds our handshake in its backlog.
LEMMA ConnectLinks ==
    ASSUME IInv, IInv', LInv, NEW p \in Peer, Connect(p)
    PROVE  LInv'
<1> DEFINE q == next_peer[p]
           c == <<Signal("HANDSHAKE")>>
           sent == OnlyTo(q, c)
           heard == [r \in Peer |-> <<>>]
<1>1. q \in Peer /\ q # p
  <2>1. q \in Nat \ {0} /\ p \in 1 .. NumPeers /\ q < p /\ NumPeers \in Nat
    BY SwarmAssumption, MyStore DEF Connect, RestOK
  <2> HIDE DEF q
  <2>2. q \in 1 .. NumPeers /\ q # p
    BY <2>1
  <2> QED
    BY <2>2, SwarmAssumption
<1>2. /\ Up(p) /\ Up(q) /\ Transmit(p, sent) /\ UNCHANGED <<status, ps, incoming>>
      /\ connections' = [connections EXCEPT ![p] = @ \cup {q}]
      /\ backlog' = [backlog EXCEPT ![q] = @ \cup {p}]
  BY DEF Connect
<1>3. /\ sent \in Letters
      /\ \A r \in Peer : sent[r] = IF r = q THEN c ELSE <<>>
      /\ \A r \in Peer : heard[r] = <<>>
  BY <1>1, HandshakeLetter, OnlyToLetters DEF OnlyTo
<1>4. /\ c # <<>> /\ c \in Seq(Message) /\ Head(c).type = "HANDSHAKE"
      /\ \A x \in Elems(c) : x.type = "HANDSHAKE"
  BY HandshakeLetter
<1> HIDE DEF q, c, sent
<1>5. Exchange(p, ps[p], heard, sent)
  <2>1. ps' = [ps EXCEPT ![p] = ps[p]]
    BY <1>2, IInvParts
  <2> QED
    BY <1>2, <1>3, <2>1, TransmitExchange
<1>6. Connects(p, ps[p], sent)
  <2>1. \A r \in Peer \ {p} : Up(r) /\ Knows(ps[p], r) => r \in connections[p]
    BY <1>2 DEF LInv, LinkOK
  <2>2. \A r \in Peer : /\ connections'[r] = IF r = p THEN connections[p] \cup {q} ELSE connections[r]
                        /\ backlog'[r] = IF r = q THEN backlog[q] \cup {p} ELSE backlog[r]
    BY <1>2, MyStore DEF RestOK
  <2> QED
    BY <1>1, <1>2, <1>3, <1>4, <2>1, <2>2 DEF Connects, Attached, Up
<1>7. \A r \in Peer \ {p} : Up(r) => Turn(p, r, ps[p], heard[r], sent[r])
  BY <1>2, <1>3, <1>4, SilentTurn, NoMessage
<1> HIDE DEF heard
<1> QED
  BY <1>5, <1>6, <1>7, LinksKept

\* A connection from a later peer: our handshake is the answer.
LEMMA AcceptLinks ==
    ASSUME IInv, IInv', LInv, NEW p \in Peer, NEW q \in Peer, Accept(p, q)
    PROVE  LInv'
<1> DEFINE c == <<Signal("HANDSHAKE")>>
           sent == OnlyTo(q, c)
           heard == [r \in Peer |-> <<>>]
<1>1. /\ Up(p) /\ q \in backlog[p] /\ Transmit(p, sent) /\ UNCHANGED <<status, ps, connections>>
      /\ incoming' = [incoming EXCEPT ![p] = @ \cup {q}]
      /\ backlog' = [backlog EXCEPT ![p] = @ \ {q}]
  BY DEF Accept
<1>2. /\ sent \in Letters
      /\ \A r \in Peer : sent[r] = IF r = q THEN c ELSE <<>>
      /\ \A r \in Peer : heard[r] = <<>>
  BY HandshakeLetter, OnlyToLetters DEF OnlyTo
<1>3. /\ c # <<>> /\ c \in Seq(Message) /\ Head(c).type = "HANDSHAKE"
      /\ \A x \in Elems(c) : x.type = "HANDSHAKE"
  BY HandshakeLetter
<1> HIDE DEF c, sent
<1>4. Exchange(p, ps[p], heard, sent)
  <2>1. ps' = [ps EXCEPT ![p] = ps[p]]
    BY <1>1, IInvParts
  <2> QED
    BY <1>1, <1>2, <2>1, TransmitExchange
<1>5. Connects(p, ps[p], sent)
  <2>1. \A r \in Peer \ {p} : Up(r) /\ Knows(ps[p], r) => r \in connections[p]
    BY <1>1 DEF LInv, LinkOK
  <2>2. \A r \in Peer : /\ incoming'[r] = IF r = p THEN incoming[p] \cup {q} ELSE incoming[r]
                        /\ backlog'[r] = IF r = p THEN backlog[p] \ {q} ELSE backlog[r]
    BY <1>1, MyStore DEF RestOK
  <2>3. status[q] # "off"
    BY <1>1 DEF LInv, NotStarted
  <2> QED
    BY <1>1, <1>2, <1>3, <2>1, <2>2, <2>3 DEF Connects, Attached
<1>6. \A r \in Peer \ {p} : Up(r) => Turn(p, r, ps[p], heard[r], sent[r])
  BY <1>1, <1>2, <1>3, SilentTurn, NoMessage
<1> HIDE DEF heard
<1> QED
  BY <1>4, <1>5, <1>6, LinksKept

\* A step that touches nothing of the links.
LEMMA SameLinks ==
    ASSUME LInv, UNCHANGED <<status, ps, connections, incoming, backlog, chan>>
    PROVE  LInv'
  BY DEF LInv, LinkOK, Greeted, FlagsTold, ViewTold, RequestTold, Held, NotStarted,
     Attached, Up

\* HANDSHAKE: the neighbour is added, and hears our bitfield.
LEMMA ReceiveHandshakeLinks ==
    ASSUME IInv, IInv', LInv, NEW p \in Peer, NEW q \in Peer, ReceiveHandshake(p, q)
    PROVE  LInv'
<1> DEFINE x == Head(chan[q][p])
           s == ps[p]
           t == add_neighbor(s, q)
           sd == Greeting(s)
           sent == OnlyTo(q, sd)
           heard == OnlyTo(q, <<x>>)
           n == Held(p, q)
<1>1. /\ ps' = [ps EXCEPT ![p] = t]
      /\ Attached(p, q) /\ Receives(p, q, "HANDSHAKE") /\ Reply(p, q, sent)
      /\ UNCHANGED <<status, backlog>>
      /\ incoming' = [incoming EXCEPT ![p] = @ \ {q}]
      /\ connections' = [connections EXCEPT ![p] = @ \cup {q}]
  BY DEF ReceiveHandshake
<1>2. /\ IsStore(s) /\ x \in Message /\ x.type = "HANDSHAKE" /\ p # q /\ Up(p)
      /\ chan[q][p] # <<>>
  BY <1>1, MyStore, Received DEF Good, Receives
<1>3. /\ t.my_bitfield = s.my_bitfield
      /\ \A r \in Peer : Knows(t, r) <=> Knows(s, r) \/ r = q
      /\ \A r \in Peer : Nb(t, r) = Nb(s, r)
  BY <1>2 DEF add_neighbor, IsStore, Knows, Nb
<1>4. /\ sd \in Seq(Message)
      /\ \A m \in Elems(sd) : m.type = "BITFIELD"
      /\ \A now : Choked(sd, now) = now /\ Interested(sd, now) = now
      /\ \A V \in SUBSET s.my_bitfield : ViewAfter(sd, V) = s.my_bitfield
  <2> DEFINE b == s.my_bitfield
  <2>1. CASE b = {}
    <3>1. sd = <<>>
      BY <2>1 DEF Greeting
    <3> HIDE DEF sd
    <3> QED
      BY <2>1, <3>1, NoMessage
  <2>2. CASE b # {}
    <3>1. sd = <<BitfieldMsg(b)>>
      BY <2>2 DEF Greeting
    <3>2. BitfieldMsg(b) \in Message /\ BitfieldMsg(b).type = "BITFIELD" /\ BitfieldMsg(b).bitfield = b
      BY <1>2 DEF BitfieldMsg, Message, IsStore
    <3> HIDE DEF sd, b
    <3>3. sd \in Seq(Message) /\ \A m \in Elems(sd) : m.type = "BITFIELD"
      BY <3>1, <3>2, OneMessage
    <3>4. \A now : Choked(sd, now) = now /\ Interested(sd, now) = now
      BY <3>1, <3>2, OneMessage
    <3>5. \A V : ViewAfter(sd, V) = b
      BY <3>1, <3>2, OneMessage
    <3> QED
      BY <3>3, <3>4, <3>5 DEF b
  <2> QED
    BY <2>1, <2>2
<1>5. /\ sent \in Letters
      /\ \A r \in Peer : /\ sent[r] = IF r = q THEN sd ELSE <<>>
                         /\ heard[r] = IF r = q THEN <<x>> ELSE <<>>
  BY <1>4, OnlyToLetters DEF OnlyTo
<1> HIDE DEF sent, sd, t
<1>6. Exchange(p, t, heard, sent)
  BY <1>1, <1>3, <1>5, ReplyExchange
<1>7. Connects(p, t, sent)
  <2>1. \A r \in Peer \ {p} : Up(r) /\ Knows(s, r) => r \in connections[p]
    BY <1>2 DEF LInv, LinkOK
  <2>2. \A r \in Peer :
           /\ incoming'[r] = IF r = p THEN incoming[p] \ {q} ELSE incoming[r]
           /\ connections'[r] = IF r = p THEN connections[p] \cup {q} ELSE connections[r]
    BY <1>1, MyStore DEF RestOK
  <2>3. status[q] # "off"
    BY <1>2 DEF LInv, NotStarted
  <2>4. \A r \in Peer \ {p} : Attached(p, r)' => Attached(p, r)
    BY <1>1, <2>2 DEF Attached
  <2> QED
    BY <1>1, <1>3, <1>5, <2>1, <2>2, <2>3, <2>4 DEF Connects
<1>8. ASSUME Up(q)
      PROVE  Turn(p, q, t, <<x>>, sd)
  <2>1. LinkOK(p, q) /\ n = Nb(t, q) /\ Knows(t, q)
    BY <1>1, <1>3, <1>8, Reading DEF Held
  <2> HIDE DEF n, x, s
  <2>2. Hears(p, q, t, <<x>>)
    BY <1>2, <2>1, OneMessage DEF Hears, n
  <2>3. Tells(p, q, t, sd)
    <3>1. n.am_interested = (n.bitfield \ t.my_bitfield # {})
      BY <1>3, <2>1 DEF LinkOK, FlagsTold, n, s
    <3> QED
      BY <1>3, <1>4, <2>1, <3>1 DEF Tells, n, s
  <2>4. Asks(p, q, t, <<x>>, sd)
    <3>1. n.outstanding_request # None => ~n.peer_choking
      BY <2>1 DEF LinkOK, RequestTold, n
    <3>2. Elems(<<x>>) = {x}
      BY ElemsShort
    <3> QED
      BY <1>2, <1>4, <2>1, <3>1, <3>2 DEF Asks, n
  <2> QED
    BY <2>2, <2>3, <2>4 DEF Turn
<1>9. \A r \in Peer \ {p} : Up(r) => Turn(p, r, t, heard[r], sent[r])
  <2>1. ASSUME NEW r \in Peer \ {p, q}, Up(r)
        PROVE  Turn(p, r, t, <<>>, <<>>)
    BY <1>2, <1>3, <2>1, QuietTurn DEF Held
  <2> QED
    BY <1>5, <1>8, <2>1
<1> HIDE DEF heard
<1> QED
  BY <1>6, <1>7, <1>9, LinksKept

\* The end of a stream comes from a peer that is gone.
LEMMA ReceiveEofLinks ==
    ASSUME IInv, IInv', LInv, NEW p \in Peer, NEW q \in Peer, ReceiveEof(p, q)
    PROVE  LInv'
<1> DEFINE x == Head(chan[q][p])
           s == ps[p]
           t == IF q \in connections[p] THEN remove_neighbor(s, q) ELSE s
           sent == OnlyTo(q, <<>>)
           heard == OnlyTo(q, <<x>>)
<1>1. /\ ps' = [ps EXCEPT ![p] = t]
      /\ Attached(p, q) /\ Receives(p, q, "EOF") /\ Reply(p, q, sent)
      /\ UNCHANGED <<status, backlog>>
      /\ incoming' = [incoming EXCEPT ![p] = @ \ {q}]
      /\ connections' = [connections EXCEPT ![p] = @ \ {q}]
  BY DEF ReceiveEof
<1>2. /\ IsStore(s) /\ p # q /\ Up(p) /\ ~Up(q) /\ status[q] # "off"
  BY <1>1, MyStore, Received DEF Good, Receives, MessageTrue, Up
<1>3. /\ t.my_bitfield = s.my_bitfield
      /\ \A r \in Peer : Knows(t, r) => Knows(s, r)
      /\ \A r \in Peer \ {q} : (Knows(s, r) <=> Knows(t, r)) /\ Nb(t, r) = Nb(s, r)
  BY <1>2 DEF remove_neighbor, IsStore, Knows, Nb
<1>4. /\ sent \in Letters
      /\ \A r \in Peer : sent[r] = <<>> /\ (r # q => heard[r] = <<>>)
  BY NoMessage, OnlyToLetters DEF OnlyTo
<1> HIDE DEF sent, t
<1>5. Exchange(p, t, heard, sent)
  BY <1>1, <1>3, <1>4, ReplyExchange
<1>6. Connects(p, t, sent)
  <2>1. \A r \in Peer \ {p} : Up(r) /\ Knows(s, r) => r \in connections[p]
    BY <1>2 DEF LInv, LinkOK
  <2>2. \A r \in Peer :
           /\ incoming'[r] = IF r = p THEN incoming[p] \ {q} ELSE incoming[r]
           /\ connections'[r] = IF r = p THEN connections[p] \ {q} ELSE connections[r]
    BY <1>1, MyStore DEF RestOK
  <2>3. \A r \in Peer \ {p} : Attached(p, r)' => Attached(p, r)
    BY <2>2 DEF Attached
  <2> QED
    BY <1>1, <1>2, <1>3, <1>4, <2>1, <2>2, <2>3 DEF Connects
<1>7. \A r \in Peer \ {p} : Up(r) => Turn(p, r, t, heard[r], sent[r])
  <2>1. ASSUME NEW r \in Peer \ {p}, Up(r)
        PROVE  Turn(p, r, t, <<>>, <<>>) /\ r # q
    BY <1>2, <1>3, <2>1, QuietTurn DEF Held
  <2> QED
    BY <1>4, <2>1
<1> HIDE DEF heard
<1> QED
  BY <1>5, <1>6, <1>7, LinksKept

\* Whoever is choked or unchoked is told.
LEMMA RechokeLinks ==
    ASSUME IInv, IInv', LInv, NEW p \in Peer, NEW U, NEW C, Rechoke(p, U, C), Up(p),
           UNCHANGED <<status, netVars>>,
           \A r \in U : Knows(ps[p], r), U \cap C = {}
    PROVE  LInv'
<1> DEFINE s == ps[p]
           t == set_am_choking(s, U, C)
           sent == [q \in Peer |->
                      IF q \in U /\ is_am_choking(s, q) THEN <<Signal("UNCHOKE")>>
                      ELSE IF q \in C /\ ~is_am_choking(s, q) THEN <<Signal("CHOKE")>>
                      ELSE <<>>]
           heard == [r \in Peer |-> <<>>]
<1>1. ps' = [ps EXCEPT ![p] = t] /\ Transmit(p, sent)
  BY DEF Rechoke
<1>2. IsStore(s) /\ \A r \in U : Knows(s, r)
  BY MyStore DEF Good
<1>3. /\ t.my_bitfield = s.my_bitfield
      /\ \A r \in Peer : Knows(s, r) <=> Knows(t, r)
      /\ \A r \in Peer : Knows(s, r) =>
            Nb(t, r) = [Nb(s, r) EXCEPT !.am_choking = (@ \/ r \in C) /\ r \notin U]
      /\ \A r \in Peer : ~Knows(s, r) => Nb(t, r) = Nb(s, r)
  BY <1>2 DEF set_am_choking, Knows, Nb, IsStore
<1>4. \A r \in Peer : is_am_choking(s, r) = Nb(s, r).am_choking /\ Nb(s, r) \in NeighborState
  BY <1>2, NbFacts
<1>5. /\ Signal("UNCHOKE") \in Message /\ Signal("UNCHOKE").type = "UNCHOKE"
      /\ Signal("CHOKE") \in Message /\ Signal("CHOKE").type = "CHOKE"
  BY DEF Signal, Message, Signals
<1>6. ASSUME NEW r \in Peer
      PROVE  sent[r] = IF r \in U /\ Nb(s, r).am_choking THEN <<Signal("UNCHOKE")>>
                       ELSE IF r \in C /\ ~Nb(s, r).am_choking THEN <<Signal("CHOKE")>>
                       ELSE <<>>
  BY <1>4
<1>7. sent \in Letters
  <2>1. \A r \in Peer : sent[r] \in Seq(Message)
    BY <1>5, <1>6, OneMessage, NoMessage
  <2>2. sent = [r \in Peer |-> sent[r]]
    OBVIOUS
  <2> HIDE DEF sent
  <2> QED
    BY <2>1, <2>2 DEF Letters
<1> HIDE DEF sent, t, s
<1>8. Exchange(p, t, heard, sent)
  BY <1>1, <1>3, <1>7, TransmitExchange DEF s
<1>9. \A r \in Peer \ {p} : Up(r) /\ Knows(s, r) => r \in connections[p]
  BY DEF LInv, LinkOK, s
<1>10. Connects(p, t, sent)
  <2>1. \A r \in Peer : sent[r] # <<>> => Knows(s, r)
    <3>1. \A r \in Peer : ~Knows(s, r) => Nb(s, r).am_choking
      BY DEF Nb, NewNeighbor
    <3> QED
      BY <1>2, <1>6, <3>1
  <2> QED
    BY <1>3, <1>9, <2>1 DEF Connects, netVars, Attached, s
<1>11. ASSUME NEW r \in Peer \ {p}, Up(r)
       PROVE  Turn(p, r, t, <<>>, sent[r])
  <2> DEFINE n == Held(p, r)
             m == Nb(t, r)
             sd == sent[r]
  <2>1. n = Nb(s, r) /\ n \in NeighborState
    BY <1>4 DEF Held, s
  <2>2. /\ m.peer_choking = n.peer_choking /\ m.peer_interested = n.peer_interested
        /\ m.bitfield = n.bitfield
        /\ m.am_choking = IF Knows(s, r) THEN (n.am_choking \/ r \in C) /\ r \notin U
                          ELSE n.am_choking
        /\ m.am_interested = n.am_interested
        /\ m.outstanding_request = n.outstanding_request
    BY <1>3, <2>1 DEF NeighborState
  <2>3. ~Knows(s, r) => n.am_choking /\ r \notin U
    BY <1>2, <2>1 DEF Nb, NewNeighbor
  <2>4. /\ n.am_interested = (n.bitfield \ s.my_bitfield # {})
        /\ n.outstanding_request # None => ~n.peer_choking
    BY <1>11 DEF LInv, LinkOK, FlagsTold, RequestTold, s
  <2>5. sd = IF r \in U /\ n.am_choking THEN <<Signal("UNCHOKE")>>
             ELSE IF r \in C /\ ~n.am_choking THEN <<Signal("CHOKE")>>
             ELSE <<>>
    BY <1>6, <2>1
  <2> HIDE DEF m, n, sd
  <2>6. /\ \A now : Interested(sd, now) = now /\ ViewAfter(sd, now) = now
        /\ \A x \in Elems(sd) : x.type \in {"CHOKE", "UNCHOKE"}
    <3>1. CASE sd = <<>>
      BY <3>1, NoMessage
    <3>2. ASSUME NEW y \in Message, y.type \in {"CHOKE", "UNCHOKE"}, sd = <<y>>
          PROVE  /\ \A now : Interested(sd, now) = now /\ ViewAfter(sd, now) = now
                 /\ \A x \in Elems(sd) : x.type \in {"CHOKE", "UNCHOKE"}
      BY <3>2, OneMessage, ZenonT(30)
    <3> QED
      BY <1>5, <2>5, <3>1, <3>2
  <2>7. Choked(sd, n.am_choking) = m.am_choking
    <3>1. CASE r \in U /\ n.am_choking
      <4>1. m.am_choking = FALSE
        BY <2>2, <2>3, <3>1, <1>2
      <4>2. Choked(sd, n.am_choking) = FALSE
        BY <1>5, <2>5, <3>1, OneMessage
      <4> QED
        BY <4>1, <4>2
    <3>2. CASE ~(r \in U /\ n.am_choking) /\ r \in C /\ ~n.am_choking
      <4>1. m.am_choking = TRUE
        BY <2>2, <2>3, <3>2
      <4>2. Choked(sd, n.am_choking) = TRUE
        BY <1>5, <2>5, <3>2, OneMessage
      <4> QED
        BY <4>1, <4>2
    <3>3. CASE ~(r \in U /\ n.am_choking) /\ ~(r \in C /\ ~n.am_choking)
      <4>1. m.am_choking = n.am_choking
        BY <2>1, <2>2, <3>3 DEF NeighborState
      <4>2. Choked(sd, n.am_choking) = n.am_choking
        BY <2>5, <3>3, NoMessage
      <4> QED
        BY <4>1, <4>2
    <3> QED
      BY <3>1, <3>2, <3>3
  <2>8. Hears(p, r, t, <<>>)
    BY <1>3, <2>2, NoMessage DEF Hears, n, m, s
  <2>9. Tells(p, r, t, sd)
    BY <1>3, <2>2, <2>4, <2>6, <2>7 DEF Tells, n, m, s
  <2>10. Asks(p, r, t, <<>>, sd)
    BY <2>2, <2>4, <2>6, NoMessage DEF Asks, n, m
  <2> QED
    BY <2>8, <2>9, <2>10 DEF Turn, sd
<1>12. \A r \in Peer \ {p} : Up(r) => Turn(p, r, t, heard[r], sent[r])
  BY <1>11
<1> HIDE DEF heard
<1> QED
  BY <1>8, <1>10, <1>12, LinksKept

\* The timer of the preferred neighbours tells every change of a choke,
LEMMA SelectPreferredNeighborsLinks ==
    ASSUME IInv, IInv', LInv, NEW p \in Peer, SelectPreferredNeighbors(p)
    PROVE  LInv'
<1>1. PICK selected \in SUBSET get_interested_neighbors(ps[p]) :
         Rechoke(p, selected \cap connections[p],
                 connections[p] \ (selected \cup {optimistic_id[p]}))
  BY DEF SelectPreferredNeighbors
<1>2. \A r \in selected : Knows(ps[p], r)
  BY DEF get_interested_neighbors, Knows
<1>3. Up(p) /\ UNCHANGED <<status, netVars>>
  BY DEF SelectPreferredNeighbors, Tick
<1> DEFINE U == selected \cap connections[p]
           C == connections[p] \ (selected \cup {optimistic_id[p]})
<1>4. U \cap C = {} /\ \A r \in U : Knows(ps[p], r)
  BY <1>2
<1> HIDE DEF U, C
<1> QED
  BY <1>1, <1>3, <1>4, RechokeLinks DEF U, C

\* and so does the timer of the optimistic one.
LEMMA SelectOptimisticNeighborLinks ==
    ASSUME IInv, IInv', LInv, NEW p \in Peer, SelectOptimisticNeighbor(p)
    PROVE  LInv'
<1>1. PICK chosen \in get_choked_interested_neighbors(ps[p], preferred_ids[p]) :
         Rechoke(p, {chosen}, {optimistic_id[p]} \ ({None, chosen} \cup preferred_ids[p]))
  BY DEF SelectOptimisticNeighbor
<1>2. Knows(ps[p], chosen)
  BY DEF get_choked_interested_neighbors, get_interested_neighbors, Knows
<1>3. Up(p) /\ UNCHANGED <<status, netVars>>
  BY DEF SelectOptimisticNeighbor, Tick
<1> DEFINE U == {chosen}
           C == {optimistic_id[p]} \ ({None, chosen} \cup preferred_ids[p])
<1>4. U \cap C = {} /\ \A r \in U : Knows(ps[p], r)
  BY <1>2
<1> HIDE DEF U, C
<1> QED
  BY <1>1, <1>3, <1>4, RechokeLinks DEF U, C

\* A process starts.
LEMMA StartLinks ==
    ASSUME IInv, IInv', LInv, NEW p \in Peer, Start(p)
    PROVE  LInv'
<1>1. /\ \A r \in Peer : status'[r] = IF r = p THEN "up" ELSE status[r]
      /\ UNCHANGED <<ps, connections, incoming, backlog, chan>>
  BY MyStore DEF Start, netVars
<1>2. ASSUME NEW q \in Peer
      PROVE  /\ chan[p][q] = <<>> /\ chan[q][p] = <<>>
             /\ ~Knows(ps[p], q) /\ ~Knows(ps[q], p)
             /\ ~Attached(p, q) /\ ~Attached(q, p)
  BY DEF LInv, NotStarted, Start
<1>3. ASSUME NEW a \in Peer, NEW b \in Peer, chan[a][b] = <<>>, chan[b][a] = <<>>,
             ~Knows(ps[a], b), ~Knows(ps[b], a), ~Attached(a, b)
      PROVE  LinkOK(a, b)
  <2>1. Held(a, b) = NewNeighbor /\ Held(b, a) = NewNeighbor
    BY <1>3 DEF Held, Nb
  <2>2. /\ NewNeighbor.am_choking = TRUE /\ NewNeighbor.peer_choking = TRUE
        /\ NewNeighbor.am_interested = FALSE /\ NewNeighbor.peer_interested = FALSE
        /\ NewNeighbor.bitfield = {} /\ NewNeighbor.outstanding_request = None
    BY DEF NewNeighbor
  <2>3. Greeted(a, b) /\ ViewTold(a, b)
    BY <1>3 DEF Greeted, ViewTold
  <2>4. FlagsTold(a, b)
    BY <1>3, <2>1, <2>2, NoMessage DEF FlagsTold
  <2>5. RequestTold(a, b)
    BY <1>3, <2>1, <2>2, NoMessage DEF RequestTold
  <2> QED
    BY <1>3, <2>3, <2>4, <2>5 DEF LinkOK
<1>4. ASSUME NEW a \in Peer, NEW b \in Peer, a # b, Up(a)', Up(b)'
      PROVE  LinkOK(a, b)
  <2>1. CASE a = p \/ b = p
    BY <1>2, <1>3, <2>1
  <2>2. CASE a # p /\ b # p
    BY <1>1, <1>4, <2>2 DEF LInv, Up
  <2> QED
    BY <2>1, <2>2
<1>5. \A a, b \in Peer : LinkOK(a, b) => LinkOK(a, b)'
  BY <1>1 DEF LinkOK, Greeted, FlagsTold, ViewTold, RequestTold, Held, Attached
<1>6. \A a \in Peer : NotStarted(a)'
  BY <1>1 DEF LInv, NotStarted, Attached
<1> QED
  BY <1>4, <1>5, <1>6 DEF LInv

\* A process ends: it has no links any more.
LEMMA ExitLinks ==
    ASSUME IInv, LInv, NEW p \in Peer, NEW lost, Exit(p, lost), Up(p),
           NEW end \in {"stopped", "crashed"}, status' = [status EXCEPT ![p] = end]
    PROVE  LInv'
<1> DEFINE t == [NewStore(FALSE) EXCEPT !.my_bitfield = ps[p].my_bitfield]
<1>1. /\ \A r \in Peer : status'[r] = IF r = p THEN end ELSE status[r]
      /\ \A r \in Peer : ps'[r] = IF r = p THEN t ELSE ps[r]
      /\ \A r \in Peer : connections'[r] = IF r = p THEN {} ELSE connections[r]
      /\ \A r \in Peer : incoming'[r] = IF r = p THEN {} ELSE incoming[r]
      /\ \A r \in Peer : backlog'[r] = IF r = p THEN {} ELSE backlog[r]
  BY IInvParts DEF Exit, RestOK
<1>2. \A a, b \in Peer \ {p} : chan'[a][b] = chan[a][b]
  BY DEF Exit
<1>3. \A r \in Peer : ~Knows(t, r)
  BY DEF NewStore, Knows
<1> HIDE DEF t
<1>4. ASSUME NEW a \in Peer, NEW b \in Peer, a # b, Up(a)', Up(b)'
      PROVE  LinkOK(a, b)'
  <2>1. a # p /\ b # p /\ Up(a) /\ Up(b)
    BY <1>1, <1>4 DEF Up
  <2>2. LinkOK(a, b)
    BY <1>4, <2>1 DEF LInv
  <2> QED
    BY <1>1, <1>2, <2>1, <2>2
       DEF LinkOK, Greeted, FlagsTold, ViewTold, RequestTold, Held, Attached
<1>5. ASSUME NEW a \in Peer, status'[a] = "off", NEW q \in Peer
      PROVE  (/\ chan[a][q] = <<>> /\ chan[q][a] = <<>>
              /\ ~Knows(ps[a], q) /\ ~Knows(ps[q], a)
              /\ ~Attached(a, q) /\ ~Attached(q, a)
              /\ q \notin backlog[a] /\ a \notin backlog[q])'
  <2>1. a # p /\ status[a] = "off"
    BY <1>1, <1>5
  <2>2. /\ chan[a][q] = <<>> /\ chan[q][a] = <<>>
        /\ ~Knows(ps[a], q) /\ ~Knows(ps[q], a)
        /\ ~Attached(a, q) /\ ~Attached(q, a)
        /\ q \notin backlog[a] /\ a \notin backlog[q]
    BY <2>1 DEF LInv, NotStarted
  <2>3. chan'[a][q] = <<>> /\ chan'[q][a] = <<>>
    <3>1. CASE q # p
      BY <1>2, <2>1, <2>2, <3>1
    <3>2. CASE q = p
      BY <2>1, <2>2, <3>2 DEF Exit, Up
    <3> QED
      BY <3>1, <3>2
  <2> QED
    BY <1>1, <1>3, <2>1, <2>2, <2>3 DEF Attached
<1> QED
  BY <1>4, <1>5 DEF LInv, NotStarted

\* No process was started.
LEMMA InitLInv == Init => LInv
<1> SUFFICES ASSUME Init PROVE LInv
  OBVIOUS
<1>1. \A p \in Peer : status[p] = "off"
  BY DEF Init
<1>2. \A p, q \in Peer : chan[p][q] = <<>> /\ ~Knows(ps[p], q)
  BY DEF Init, NewStore, Knows
<1>3. \A p, q \in Peer : ~Attached(p, q) /\ q \notin backlog[p]
  BY DEF Init, Attached
<1> QED
  BY <1>1, <1>2, <1>3 DEF LInv, NotStarted, Up

\* A new piece is announced to every connection, and interest follows.
LEMMA ReceivePieceLinks ==
    ASSUME IInv, IInv', LInv, NEW p \in Peer, NEW q \in Peer, ReceivePiece(p, q)
    PROVE  LInv'
<1> DEFINE x == Head(chan[q][p])
           i == x.piece
           w == ps[p]
           v == clear_outstanding_request(w, q)
           s == mark_piece_downloaded(v, i)
           synced == SetInterest(s, connections[p])
           outcomes == IF has_complete_file(s) THEN {[store |-> synced, msgs |-> <<>>]}
                       ELSE RequestOutcomes(synced, q)
           Announce(r) == IF r \in connections[p] THEN <<Have(i)>> \o InterestMsgs(s, r) ELSE <<>>
           heard == OnlyTo(q, <<x>>)
<1>1. /\ Attached(p, q) /\ Receives(p, q, "PIECE")
      /\ UNCHANGED <<status, netVars>>
  BY DEF ReceivePiece
<1>2. PICK o \in outcomes :
         /\ ps' = [ps EXCEPT ![p] = o.store]
         /\ Reply(p, q, [r \in Peer |-> Announce(r) \o (IF r = q THEN o.msgs ELSE <<>>)])
  BY DEF ReceivePiece
<1> DEFINE sent == [r \in Peer |-> Announce(r) \o (IF r = q THEN o.msgs ELSE <<>>)]
           t == o.store
<1>3. /\ x \in Message /\ x.type = "PIECE" /\ i \in Piece /\ p # q /\ Up(p)
  <2>1. x \in Message /\ x.type = "PIECE" /\ p # q
    BY <1>1, Received
  <2> QED
    BY <1>1, <2>1 DEF Message, Signals, Receives
<1>4. Good(w, p, Holdings) /\ Good(v, p, Holdings) /\ Good(s, p, Holdings)
      /\ Good(synced, p, Holdings)
  <2>1. Good(w, p, Holdings) /\ Holdings \in [Peer -> SUBSET Piece]
    BY MyStore
  <2>2. Good(v, p, Holdings)
    BY <2>1, ClearOutstandingGood DEF GoodUpdate
  <2> HIDE DEF v
  <2>3. Good(s, p, Holdings)
    BY <1>3, <2>1, <2>2, MarkDownloadedGood
  <2> HIDE DEF s
  <2>4. Good(synced, p, Holdings)
    BY <2>3, SetInterestGood DEF GoodUpdate
  <2> QED
    BY <2>1, <2>2, <2>3, <2>4
<1>5. IsStore(w) /\ IsStore(v) /\ IsStore(s) /\ IsStore(synced)
  BY <1>4 DEF Good
<1>6. Touches(w, v, q, [w.neighbors[q] EXCEPT !.outstanding_request = None])
  BY <1>5, TouchesRequest
<1>7. /\ s.my_bitfield = v.my_bitfield \cup {i}
      /\ DOMAIN s.neighbors = DOMAIN v.neighbors
      /\ \A r \in Peer : Nb(s, r) = Nb(v, r)
  BY <1>5 DEF mark_piece_downloaded, IsStore, Nb, Knows
<1>8. /\ synced.my_bitfield = s.my_bitfield
      /\ DOMAIN synced.neighbors = DOMAIN s.neighbors
      /\ \A r \in Peer :
            IF r \in connections[p] /\ Knows(s, r)
            THEN Nb(synced, r) = [Nb(s, r) EXCEPT !.am_interested =
                                     (Nb(s, r).bitfield \ s.my_bitfield # {})]
            ELSE Nb(synced, r) = Nb(s, r)
  BY <1>5, NbSetInterest
<1>9. Asked(synced, q, o)
  <2>1. CASE has_complete_file(s)
    <3>1. o \in {[store |-> synced, msgs |-> <<>>]}
      BY <1>2, <2>1
    <3> HIDE DEF synced
    <3>2. o.store = synced /\ o.msgs = <<>>
      BY <3>1
    <3> QED
      BY <3>2 DEF Asked
  <2>2. CASE ~has_complete_file(s)
    <3>1. o \in RequestOutcomes(synced, q)
      BY <1>2, <2>2
    <3> HIDE DEF synced
    <3> QED
      BY <1>5, <3>1, OutcomesAsked
  <2> QED
    BY <2>1, <2>2
<1>10. \A r \in Peer :
          /\ InterestMsgs(s, r) \in Seq(Message)
          /\ \A y \in Elems(InterestMsgs(s, r)) : y.type \in {"INTERESTED", "NOT_INTERESTED"}
          /\ Interested(InterestMsgs(s, r), Nb(s, r).am_interested)
                = (Nb(s, r).bitfield \ s.my_bitfield # {})
          /\ \A now : /\ Choked(InterestMsgs(s, r), now) = now
                      /\ ViewAfter(InterestMsgs(s, r), now) = now
  BY <1>5, InterestMsgsType, InterestMsgsTell
<1> HIDE DEF w, v, s, synced, t
<1>11. /\ t.my_bitfield = w.my_bitfield \cup {i} /\ s.my_bitfield = t.my_bitfield
       /\ \A r \in Peer : Knows(w, r) <=> Knows(t, r)
       /\ \A r \in Peer : Knows(w, r) <=> Knows(s, r)
       /\ \A r \in Peer \ {q} : Nb(t, r) = Nb(synced, r) /\ Nb(s, r) = Nb(w, r)
  BY <1>6, <1>7, <1>8, <1>9 DEF Touches, Asked, Knows, t
<1>12. /\ o.msgs \in Seq(Message)
       /\ \A y \in Elems(o.msgs) : y.type = "REQUEST"
  <2>1. o.msgs = <<>> \/ \E y \in Message : y.type = "REQUEST" /\ o.msgs = <<y>>
    <3>1. \A j \in Piece : Request(j) \in Message /\ Request(j).type = "REQUEST"
      BY DEF Request, Message
    <3> QED
      BY <1>9, <3>1 DEF Asked
  <2>2. CASE o.msgs = <<>>
    BY <2>2, NoMessage
  <2>3. ASSUME NEW y \in Message, y.type = "REQUEST", o.msgs = <<y>>
        PROVE  o.msgs \in Seq(Message) /\ Elems(o.msgs) = {y}
    BY <2>3, OneMessage
  <2> QED
    BY <2>1, <2>2, <2>3
\* What r is told: the piece, the interest, and perhaps a request.
<1>13. ASSUME NEW r \in Peer
       PROVE  /\ sent[r] \in Seq(Message)
              /\ \A y \in Elems(sent[r]) :
                    \/ y.type \in {"HAVE", "INTERESTED", "NOT_INTERESTED"}
                    \/ r = q /\ y \in Elems(o.msgs)
              /\ r = q => Elems(o.msgs) \subseteq Elems(sent[r])
              /\ \A now : Choked(sent[r], now) = now
              /\ \A now : Interested(sent[r], now) =
                    IF r \in connections[p] THEN Interested(InterestMsgs(s, r), now) ELSE now
              /\ \A now : ViewAfter(sent[r], now) =
                    IF r \in connections[p] THEN now \cup {i} ELSE now
              /\ r \notin connections[p] /\ r # q => sent[r] = <<>>
  <2> DEFINE h == <<Have(i)>>
             g == InterestMsgs(s, r)
             a == Announce(r)
             e == IF r = q THEN o.msgs ELSE <<>>
  <2>1. /\ h \in Seq(Message) /\ \A y \in Elems(h) : y.type = "HAVE"
        /\ \A now : Choked(h, now) = now /\ Interested(h, now) = now
                    /\ ViewAfter(h, now) = now \cup {i}
    <3>1. Have(i) \in Message /\ Have(i).type = "HAVE" /\ Have(i).piece = i
      BY <1>3 DEF Have, Message
    <3> QED
      BY <3>1, OneMessage
  <2>2. /\ g \in Seq(Message) /\ \A y \in Elems(g) : y.type \in {"INTERESTED", "NOT_INTERESTED"}
        /\ \A now : Choked(g, now) = now /\ ViewAfter(g, now) = now
    BY <1>10
  <2>3. /\ e \in Seq(Message) /\ \A y \in Elems(e) : r = q /\ y \in Elems(o.msgs)
        /\ r = q => Elems(o.msgs) \subseteq Elems(e)
        /\ \A now : Choked(e, now) = now /\ Interested(e, now) = now /\ ViewAfter(e, now) = now
    <3>1. CASE r = q
      BY <1>12, <3>1, SilentLetter
    <3>2. CASE r # q
      BY <3>2, NoMessage
    <3> QED
      BY <3>1, <3>2
  <2>4. sent[r] = a \o e /\ a = IF r \in connections[p] THEN h \o g ELSE <<>>
    OBVIOUS
  <2> HIDE DEF h, g, a, e, sent
  <2>5. /\ h \o g \in Seq(Message) /\ Elems(h \o g) = Elems(h) \cup Elems(g)
        /\ \A now : /\ Choked(h \o g, now) = now
                    /\ Interested(h \o g, now) = Interested(g, now)
                    /\ ViewAfter(h \o g, now) = now \cup {i}
    <3>1. \A now : /\ Choked(h \o g, now) = Choked(g, Choked(h, now))
                   /\ Interested(h \o g, now) = Interested(g, Interested(h, now))
      BY <2>1, <2>2, SettlesConcat DEF Choked, Interested
    <3>2. \A now : ViewAfter(h \o g, now) = ViewAfter(g, ViewAfter(h, now))
      BY <2>1, <2>2, ViewConcat
    <3>3. h \o g \in Seq(Message) /\ Elems(h \o g) = Elems(h) \cup Elems(g)
      BY <2>1, <2>2, ElemsConcat
    <3> QED
      BY <2>1, <2>2, <3>1, <3>2, <3>3
  <2>6. /\ a \in Seq(Message)
        /\ \A y \in Elems(a) : y.type \in {"HAVE", "INTERESTED", "NOT_INTERESTED"}
        /\ \A now : Choked(a, now) = now
        /\ \A now : Interested(a, now) = IF r \in connections[p] THEN Interested(g, now) ELSE now
        /\ \A now : ViewAfter(a, now) = IF r \in connections[p] THEN now \cup {i} ELSE now
    <3>1. CASE r \in connections[p]
      BY <2>1, <2>2, <2>4, <2>5, <3>1
    <3>2. CASE r \notin connections[p]
      BY <2>4, <3>2, NoMessage
    <3> QED
      BY <3>1, <3>2
  <2>7. /\ a \o e \in Seq(Message) /\ Elems(a \o e) = Elems(a) \cup Elems(e)
        /\ \A now : Choked(a \o e, now) = Choked(e, Choked(a, now))
        /\ \A now : Interested(a \o e, now) = Interested(e, Interested(a, now))
        /\ \A now : ViewAfter(a \o e, now) = ViewAfter(e, ViewAfter(a, now))
    <3>1. \A now : /\ Choked(a \o e, now) = Choked(e, Choked(a, now))
                   /\ Interested(a \o e, now) = Interested(e, Interested(a, now))
      BY <2>3, <2>6, SettlesConcat DEF Choked, Interested
    <3>2. \A now : ViewAfter(a \o e, now) = ViewAfter(e, ViewAfter(a, now))
      BY <2>3, <2>6, ViewConcat
    <3>3. a \o e \in Seq(Message) /\ Elems(a \o e) = Elems(a) \cup Elems(e)
      BY <2>3, <2>6, ElemsConcat
    <3> QED
      BY <3>1, <3>2, <3>3
  <2>8. r \notin connections[p] /\ r # q => sent[r] = <<>>
    <3>1. r # q => e = <<>>
      BY DEF e
    <3> QED
      BY <2>4, <3>1, NoMessage, NothingThen
  <2> QED
    BY <2>3, <2>4, <2>6, <2>7, <2>8, ZenonT(30) DEF g
<1>14. /\ sent \in Letters
       /\ \A r \in Peer : heard[r] = IF r = q THEN <<x>> ELSE <<>>
  <2>1. sent = [r \in Peer |-> sent[r]]
    OBVIOUS
  <2> HIDE DEF sent
  <2> QED
    BY <1>13, <2>1 DEF Letters, OnlyTo
<1>15. Exchange(p, t, heard, sent)
  <2>1. w.my_bitfield \subseteq t.my_bitfield
    BY <1>11
  <2> HIDE DEF sent
  <2>2. Reply(p, q, sent) /\ ps' = [ps EXCEPT ![p] = t]
    BY <1>2 DEF sent, t
  <2> QED
    BY <1>1, <1>14, <2>1, <2>2, ReplyExchange DEF w
<1> HIDE DEF sent
<1>16. \A r \in Peer \ {p} : Up(r) /\ Knows(w, r) => r \in connections[p]
  BY <1>3 DEF LInv, LinkOK, w
<1>17. Connects(p, t, sent)
  <2>1. \A r \in Peer : sent[r] # <<>> => r \in connections[p] \/ r = q
    BY <1>13
  <2> QED
    BY <1>1, <1>11, <1>16, <2>1 DEF Connects, netVars, Attached, w
<1>18. ASSUME NEW r \in Peer \ {p}, Up(r)
       PROVE  Turn(p, r, t, heard[r], sent[r])
  <2> DEFINE n == Held(p, r)
             m == Nb(t, r)
             sd == sent[r]
  <2>1. n = Nb(w, r) /\ n \in NeighborState
    BY <1>5, NbFacts DEF Held, w
  <2>2. LinkOK(p, r)
    BY <1>3, <1>18 DEF LInv
  <2>3. r = q => Knows(w, q)
    BY <1>1, <1>18, Reading DEF w
  <2>4. /\ r \in connections[p] /\ ~Knows(w, r) => n = NewNeighbor
        /\ Knows(w, r) => r \in connections[p]
        /\ ~Knows(w, r) => n = NewNeighbor
    BY <1>16, <1>18, <2>1 DEF Nb
  <2>5. Nb(s, r) = IF r = q THEN [n EXCEPT !.outstanding_request = None] ELSE n
    BY <1>6, <1>7, <2>1, <2>3 DEF Touches, Nb
  <2>6. /\ Nb(s, r).am_interested = n.am_interested /\ Nb(s, r).bitfield = n.bitfield
        /\ Nb(s, r).peer_choking = n.peer_choking
        /\ Nb(s, r).peer_interested = n.peer_interested
        /\ Nb(s, r).am_choking = n.am_choking
        /\ Nb(s, r).outstanding_request = IF r = q THEN None ELSE n.outstanding_request
        /\ Nb(s, r) \in NeighborState
    BY <1>5, <2>1, <2>5, NbFacts DEF NeighborState
  <2>7. /\ Nb(synced, r).am_interested = (n.bitfield \ t.my_bitfield # {})
        /\ Nb(synced, r).bitfield = n.bitfield
        /\ Nb(synced, r).peer_choking = n.peer_choking
        /\ Nb(synced, r).peer_interested = n.peer_interested
        /\ Nb(synced, r).am_choking = n.am_choking
        /\ Nb(synced, r).outstanding_request = IF r = q THEN None ELSE n.outstanding_request
        /\ Nb(synced, r) \in NeighborState
    <3>1. CASE Knows(w, r)
      <4>1. Nb(synced, r) = [Nb(s, r) EXCEPT !.am_interested =
                               (Nb(s, r).bitfield \ s.my_bitfield # {})]
        BY <1>8, <1>11, <2>4, <3>1
      <4>2. n.bitfield \ t.my_bitfield = Nb(s, r).bitfield \ s.my_bitfield
        BY <1>11, <2>6
      <4> QED
        BY <2>6, <4>1, <4>2 DEF NeighborState
    <3>2. CASE ~Knows(w, r)
      <4>1. Nb(synced, r) = Nb(s, r) /\ n = NewNeighbor
        BY <1>8, <1>11, <2>4, <3>2
      <4>2. n.am_interested = FALSE /\ n.bitfield = {}
        BY <4>1 DEF NewNeighbor
      <4> QED
        BY <2>6, <4>1, <4>2
    <3> QED
      BY <3>1, <3>2
  <2>8. /\ m.am_interested = (n.bitfield \ t.my_bitfield # {})
        /\ m.bitfield = n.bitfield
        /\ m.peer_choking = n.peer_choking
        /\ m.peer_interested = n.peer_interested
        /\ m.am_choking = n.am_choking
        /\ r # q => m.outstanding_request = n.outstanding_request
        /\ r = q /\ m.outstanding_request # None =>
              /\ ~n.peer_choking
              /\ m.outstanding_request \in n.bitfield
              /\ o.msgs = <<Request(m.outstanding_request)>>
    <3>1. CASE r # q
      BY <1>11, <1>18, <2>7, <3>1
    <3>2. CASE r = q /\ o.store = synced
      BY <2>7, <3>2 DEF t
    <3>3. CASE r = q /\ o.store # synced
      <4>1. PICK j \in Piece :
               /\ Knows(synced, q) /\ j \in synced.neighbors[q].bitfield
               /\ ~is_peer_choking_us(synced, q)
               /\ o.msgs = <<Request(j)>>
               /\ Touches(synced, o.store, q,
                          [synced.neighbors[q] EXCEPT !.outstanding_request = j])
        BY <1>9, <3>3 DEF Asked
      <4>2. Nb(synced, q) = synced.neighbors[q]
            /\ m = [Nb(synced, q) EXCEPT !.outstanding_request = j]
            /\ is_peer_choking_us(synced, q) = Nb(synced, q).peer_choking
        BY <1>5, <3>3, <4>1, NbFacts DEF Touches, Nb, t
      <4>3. /\ m.am_interested = Nb(synced, q).am_interested
            /\ m.bitfield = Nb(synced, q).bitfield
            /\ m.peer_choking = Nb(synced, q).peer_choking
            /\ m.peer_interested = Nb(synced, q).peer_interested
            /\ m.am_choking = Nb(synced, q).am_choking
            /\ m.outstanding_request = j
        BY <2>7, <3>3, <4>2 DEF NeighborState
      <4> HIDE DEF m, n
      <4> QED
        BY <2>7, <3>3, <4>1, <4>2, <4>3
    <3> QED
      BY <3>1, <3>2, <3>3
  <2>9. /\ heard[r] = IF r = q THEN <<x>> ELSE <<>>
        /\ Elems(heard[r]) \subseteq {x}
        /\ \A now : Choked(heard[r], now) = now /\ Interested(heard[r], now) = now
                    /\ ViewAfter(heard[r], now) = now
    <3>1. heard[r] = IF r = q THEN <<x>> ELSE <<>>
      BY <1>14
    <3> HIDE DEF heard
    <3>2. CASE r = q
      BY <1>3, <3>1, <3>2, OneMessage
    <3>3. CASE r # q
      BY <3>1, <3>3, NoMessage
    <3> QED
      BY <3>1, <3>2, <3>3
  <2> HIDE DEF m, n, sd, heard
  <2>10. Hears(p, r, t, heard[r])
    BY <1>11, <2>3, <2>8, <2>9 DEF Hears, n, m, w
  <2>11. Tells(p, r, t, sd)
    <3>1. Choked(sd, n.am_choking) = m.am_choking
      BY <1>13, <2>8 DEF sd
    <3>2. Interested(sd, n.am_interested) = m.am_interested
      <4>1. CASE r \in connections[p]
        <5>1. Interested(sd, n.am_interested) = Interested(InterestMsgs(s, r), n.am_interested)
          BY <1>13, <4>1 DEF sd
        <5>2. Interested(InterestMsgs(s, r), n.am_interested) = (n.bitfield \ t.my_bitfield # {})
          BY <1>10, <1>11, <2>6
        <5> QED
          BY <2>8, <5>1, <5>2
      <4>2. CASE r \notin connections[p]
        <5>1. Interested(sd, n.am_interested) = n.am_interested
          BY <1>13, <4>2 DEF sd
        <5>2. n.am_interested = FALSE /\ n.bitfield = {}
          BY <2>4, <4>2 DEF NewNeighbor
        <5>3. m.am_interested = FALSE
          BY <2>8, <5>2
        <5> QED
          BY <5>1, <5>2, <5>3
      <4> QED
        BY <4>1, <4>2
    <3>3. m.am_interested = (m.bitfield \ t.my_bitfield # {})
      BY <2>8
    <3>4. Knows(w, r) => ViewAfter(sd, w.my_bitfield) = t.my_bitfield
      BY <1>11, <1>13, <2>4 DEF sd
    <3> QED
      BY <1>11, <3>1, <3>2, <3>3, <3>4 DEF Tells, n, m, w
  <2>12. Asks(p, r, t, heard[r], sd)
    <3>1. n.outstanding_request # None => ~n.peer_choking
      BY <2>2 DEF LinkOK, RequestTold, n
    <3>2. m.outstanding_request # None =>
             /\ ~m.peer_choking
             /\ \/ Request(m.outstanding_request) \in Elems(sd)
                \/ /\ n.outstanding_request = m.outstanding_request
                   /\ heard[r] = <<>>
      <4>1. CASE r # q
        BY <2>8, <2>9, <3>1, <4>1
      <4>2. CASE r = q
        <5>1. ASSUME m.outstanding_request # None
              PROVE  Request(m.outstanding_request) \in Elems(sd)
          <6>1. o.msgs = <<Request(m.outstanding_request)>>
            BY <2>8, <4>2, <5>1
          <6>2. Request(m.outstanding_request) \in Elems(o.msgs)
            BY <6>1, ElemsShort
          <6>3. Elems(o.msgs) \subseteq Elems(sd)
            BY <1>13, <4>2 DEF sd
          <6> QED
            BY <6>2, <6>3
        <5> QED
          BY <2>8, <4>2, <5>1
      <4> QED
        BY <4>1, <4>2
    <3>3. ASSUME NEW y \in Elems(sd), y.type = "REQUEST"
          PROVE  y.piece \in ps[r].my_bitfield
      <4>1. r = q /\ y \in Elems(o.msgs)
        BY <1>13, <3>3 DEF sd
      <4>2. PICK j \in synced.neighbors[q].bitfield : o.msgs = <<Request(j)>> /\ Knows(synced, q)
        BY <1>9, <4>1, NoMessage DEF Asked
      <4>3. y = Request(j) /\ y.piece = j
        BY <4>1, <4>2, ElemsShort DEF Request
      <4>4. j \in n.bitfield
        BY <2>7, <4>1, <4>2 DEF Nb
      <4> QED
        BY <4>1, <4>3, <4>4, BelievedThere DEF n
    <3> QED
      BY <1>3, <2>9, <3>2, <3>3, NoMessage DEF Asks, n, m
  <2> QED
    BY <2>10, <2>11, <2>12 DEF Turn, sd
<1> HIDE DEF heard
<1> QED
  BY <1>15, <1>17, <1>18, LinksKept


\* Every step keeps the links.
LEMMA NextLInv == IInv /\ LInv /\ [Next]_vars => LInv'
<1> SUFFICES ASSUME IInv, LInv, [Next]_vars PROVE LInv'
  OBVIOUS
<1>1. IInv'
  BY NextIInv
<1>2. CASE UNCHANGED vars
  BY <1>2, SameLinks DEF vars, netVars
<1>3. ASSUME NEW p \in Peer, Start(p) PROVE LInv'
  BY <1>1, <1>3, StartLinks
<1>4. ASSUME NEW p \in Peer, Connect(p) PROVE LInv'
  BY <1>1, <1>4, ConnectLinks
<1>5. ASSUME NEW p \in Peer, GiveUp(p) PROVE LInv'
  BY <1>5, SameLinks DEF GiveUp
<1>6. ASSUME NEW p \in Peer, SelectPreferredNeighbors(p) PROVE LInv'
  BY <1>1, <1>6, SelectPreferredNeighborsLinks
<1>7. ASSUME NEW p \in Peer, SelectOptimisticNeighbor(p) PROVE LInv'
  BY <1>1, <1>7, SelectOptimisticNeighborLinks
<1>8. ASSUME NEW p \in Peer, Stop(p) PROVE LInv'
  BY <1>8, ExitLinks DEF Stop
<1>9. ASSUME NEW p \in Peer, Crash(p) PROVE LInv'
  <2>1. PICK lost \in [Peer -> 0 .. MaxLost] : Exit(p, lost)
    BY <1>9 DEF Crash
  <2> QED
    BY <1>9, <2>1, ExitLinks DEF Crash
<1>10. ASSUME NEW p \in Peer, NEW q \in Peer, Accept(p, q) PROVE LInv'
  BY <1>1, <1>10, AcceptLinks
<1>11. ASSUME NEW p \in Peer, NEW q \in Peer, Receive(p, q) PROVE LInv'
  BY <1>1, <1>11, ReceiveHandshakeLinks, ReceiveBitfieldLinks, ReceiveInterestLinks,
     ReceiveChokeLinks, ReceiveUnchokeLinks, ReceiveHaveLinks, ReceiveRequestLinks,
     ReceivePieceLinks, ReceiveEofLinks DEF Receive
<1>12. ASSUME NEW p \in Peer, NEW q \in Peer, ReceivePieceWriteFails(p, q) PROVE LInv'
  BY <1>1, <1>12, ReceivePieceWriteFailsLinks
<1> QED
  BY <1>2, <1>3, <1>4, <1>5, <1>6, <1>7, <1>8, <1>9, <1>10, <1>11, <1>12 DEF Next

-----------------------------------------------------------------------------

\* The inductive invariant of the links holds in every state of every run.
THEOREM LinkInvariance == Spec => []LInv
  BY InitLInv, NextLInv, Invariance, PTL DEF Spec

\* The link between two peers that know each other, and the queries about it.
LEMMA LinkedOK ==
    ASSUME IInv, LInv, NEW p \in Peer, NEW q \in Peer, Linked(p, q)
    PROVE  /\ LinkOK(p, q) /\ Knows(ps[p], q)
           /\ IsStore(ps[p]) /\ IsStore(ps[q])
<1>1. Good(ps[p], p, Holdings) /\ Good(ps[q], q, Holdings)
  BY MyStore
<1>2. p # q
  BY <1>1 DEF Good, Sound, Knows, Linked
<1> QED
  BY <1>1, <1>2 DEF Linked, LInv, Good

\* A request to a live neighbour waits for something that is under way: the
\* handlers of REQUEST, PIECE and CHOKE, and the timers that choke while a
\* request travels, never lose it (peer_network.py:721-766, 650-668).
THEOREM RequestsAnswered == Spec => []RequestAnswered
<1>1. ASSUME IInv, LInv, NEW p \in Peer, NEW q \in Peer, Linked(p, q),
             Outstanding(ps[p], q) # None
      PROVE  LET i == Outstanding(ps[p], q) IN
             \/ Request(i) \in Elems(chan[p][q])
             \/ PieceMsg(i) \in Elems(chan[q][p])
             \/ Signal("CHOKE") \in Elems(chan[q][p])
  BY <1>1, LinkedOK, NbFacts DEF LinkOK, RequestTold, Held
<1>2. IInv /\ LInv => RequestAnswered
  BY <1>1 DEF RequestAnswered
<1> QED
  BY <1>2, Invariance, LinkInvariance, PTL

\* The two flags a choke is kept in, am_choking here and peer_choking there,
\* agree once the stream is read (state.py:79-81).
THEOREM ChokesAgree == Spec => []ChokeAgreement
<1>1. ASSUME IInv, LInv, NEW p \in Peer, NEW q \in Peer, Linked(p, q)
      PROVE  Settles(chan[p][q], "CHOKE", "UNCHOKE", is_peer_choking_us(ps[q], p))
                = is_am_choking(ps[p], q)
  <2>1. /\ is_peer_choking_us(ps[q], p) = Held(q, p).peer_choking
        /\ is_am_choking(ps[p], q) = Held(p, q).am_choking
    BY <1>1, LinkedOK, NbFacts DEF Held
  <2> QED
    BY <1>1, <2>1, LinkedOK DEF LinkOK, FlagsTold, Choked
<1>2. IInv /\ LInv => ChokeAgreement
  BY <1>1 DEF ChokeAgreement
<1> QED
  BY <1>2, Invariance, LinkInvariance, PTL

\* A neighbour counts us as interested exactly when it has, as far as we know,
\* a piece we lack, once the stream is read (_sync_interest_for_peer).
THEOREM InterestsAgree == Spec => []InterestAgreement
<1>1. ASSUME IInv, LInv, NEW p \in Peer, NEW q \in Peer, Linked(p, q)
      PROVE  Settles(chan[p][q], "INTERESTED", "NOT_INTERESTED",
                     p \in get_interested_neighbors(ps[q]))
                = (get_interesting_pieces(ps[p], q) # {})
  <2>1. /\ (p \in get_interested_neighbors(ps[q])) = Held(q, p).peer_interested
        /\ get_interesting_pieces(ps[p], q) = Held(p, q).bitfield \ ps[p].my_bitfield
    BY <1>1, LinkedOK, NbFacts DEF Held
  <2> QED
    BY <1>1, <2>1, LinkedOK DEF LinkOK, FlagsTold, Interested
<1>2. IInv /\ LInv => InterestAgreement
  BY <1>1 DEF InterestAgreement
<1> QED
  BY <1>2, Invariance, LinkInvariance, PTL

\* What a neighbour believes we have becomes what we have once the stream is
\* read: no HAVE is lost around a handshake (peer_network.py:391-403, 605-616).
THEOREM ViewsAgree == Spec => []ViewsConverge
<1>1. ASSUME IInv, LInv, NEW p \in Peer, NEW q \in Peer, Linked(p, q)
      PROVE  ViewAfter(chan[p][q],
                       IF Knows(ps[q], p) THEN ps[q].neighbors[p].bitfield ELSE {})
                = ps[p].my_bitfield
  <2>1. (IF Knows(ps[q], p) THEN ps[q].neighbors[p].bitfield ELSE {}) = Held(q, p).bitfield
    BY DEF Held, Nb, NewNeighbor
  <2> QED
    BY <1>1, <2>1, LinkedOK DEF LinkOK, ViewTold
<1>2. IInv /\ LInv => ViewsConverge
  BY <1>1 DEF ViewsConverge
<1> QED
  BY <1>2, Invariance, LinkInvariance, PTL

=============================================================================
