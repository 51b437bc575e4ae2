---------------------------- MODULE RfLibProofs ----------------------------
(***************************************************************************)
(* The programs of rf-lib.c and rf-test.c, for every width of the words    *)
(* and every list of settings.                                             *)
(*                                                                         *)
(* A program is a list of accesses put together from transfers of a word;  *)
(* its length depends on the lists, so the proof never looks at it access  *)
(* by access.  It is shown to be a chain: what comes after an access       *)
(* inside a transfer is the next access of the same transfer, and nothing  *)
(* jumps into one.  Then the state is described by the access to come:     *)
(*                                                                         *)
(*   AdfInv   before access j of a transfer to the ADF4002 it has shifted  *)
(*            in the bits sent by then, whatever was in it before;         *)
(*   OwnInv   the chip a program resets and then talks to has since taken  *)
(*            the bits of the words sent to it and nothing else;           *)
(*   IdleInv  any other chip does not listen, unless a program killed      *)
(*            within a transfer has left it selected;                      *)
(*   ModeInv  before access i of rf_init its board has every setting the   *)
(*            accesses before i make.                                      *)
(***************************************************************************)
EXTENDS RfLib, WellFoundedInduction, TLAPS

(* Induction: the theorem of the library has an operator as a parameter.   *)
LEMMA NatSetInduction ==
  ASSUME NEW S, 0 \in S, \A n \in Nat : n \in S => n + 1 \in S
  PROVE  Nat \subseteq S
<1> DEFINE T == Nat \ S
           R == {ss \in Nat \X Nat : ss[1] < ss[2]}
<1>1. SUFFICES ASSUME T # {} PROVE FALSE
      OBVIOUS
<1>0. IsWellFoundedOn(R, Nat)
      BY NatLessThanWellFounded DEF OpToRel
<1> HIDE DEF R
<1>2. PICK x \in T : \A y \in T : ~(<<y, x>> \in R)
      BY <1>1, <1>0, WFMin, Zenon
<1>3. x \in Nat /\ x # 0 /\ x - 1 \in Nat
      BY <1>2
<1>4. <<x - 1, x>> \in R
      BY <1>3 DEF R
<1>5. x - 1 \in S
      BY <1>2, <1>3, <1>4
<1>. QED BY <1>2, <1>3, <1>5

-----------------------------------------------------------------------------
(* Two sequences one after the other. *)
Joined(c, a, b) == c = a \o b

LEMMA Concatenated ==
  ASSUME NEW T, NEW a \in Seq(T), NEW b \in Seq(T), NEW c, Joined(c, a, b)
  PROVE  /\ c \in Seq(T) /\ Len(c) = Len(a) + Len(b)
         /\ \A j \in 1 .. Len(a) : c[j] = a[j]
         /\ \A j \in 1 .. Len(b) : c[Len(a) + j] = b[j]
BY DEF Joined

(* FlattenSeq: what it has put together after i of the sequences; the      *)
(* recursion has a solution. *)
LEMMA Flattening ==
  ASSUME NEW s, Len(s) \in Nat \ {0}
  PROVE  \E f : /\ FlattenSeq(s) = f[Len(s)] /\ f[1] = s[1]
                /\ \A i \in 1 .. Len(s) : i > 1 => f[i] = f[i - 1] \o s[i]
<1> DEFINE N == Len(s)
           Known(f, i) == IF i = 1 THEN s[i] ELSE f[i - 1] \o s[i]
           Solves(f, k) == DOMAIN f = 1 .. k /\ f = [i \in 1 .. k |-> f[i]]
                           /\ \A i \in 1 .. k : f[i] = Known(f, i)
           S == {k \in Nat : \E f : Solves(f, k)}
<1>1. \E f : Solves(f, 0)
  <2> DEFINE f == [i \in 1 .. 0 |-> 0]
  <2>1. Solves(f, 0)
        OBVIOUS
  <2>. QED BY <2>1
<1>2. ASSUME NEW k \in Nat, \E f : Solves(f, k)
      PROVE  \E f : Solves(f, k + 1)
  <2>1. PICK f : Solves(f, k)
        BY <1>2
  <2> DEFINE last == IF k = 0 THEN s[1] ELSE f[k] \o s[k + 1]
             g == [i \in 1 .. k + 1 |-> IF i = k + 1 THEN last ELSE f[i]]
  <2>2. ASSUME NEW i \in 1 .. k + 1 PROVE g[i] = Known(g, i)
    <3>1. CASE i = k + 1
      <4>1. g[i] = last
            BY <3>1
      <4>2. k # 0 => g[i - 1] = f[k] /\ i # 1
            BY <3>1
      <4>. QED BY <3>1, <4>1, <4>2
    <3>2. CASE i \in 1 .. k
      <4>0. i \in 1 .. k + 1 /\ i # k + 1
            BY <3>2
      <4>1. g[i] = f[i]
            BY <4>0
      <4>3. f[i] = Known(f, i)
            BY <2>1, <3>2, Zenon
      <4>2. i # 1 => g[i - 1] = f[i - 1]
            BY <3>2
      <4>. QED BY <4>1, <4>2, <4>3
    <3>. QED BY <3>1, <3>2
  <2>3. DOMAIN g = 1 .. k + 1 /\ g = [i \in 1 .. k + 1 |-> g[i]]
        OBVIOUS
  <2>4. Solves(g, k + 1)
        BY <2>2, <2>3
  <2>. QED BY <2>4
<1>3. N \in S
  <2>0. 0 \in S
        BY <1>1
  <2>4. ASSUME NEW n \in Nat, n \in S PROVE n + 1 \in S
    <3>1. \E f : Solves(f, n)
          BY <2>4
    <3>2. \E f : Solves(f, n + 1)
          BY <1>2, <3>1
    <3>3. n + 1 \in Nat
          OBVIOUS
    <3>. QED BY <3>2, <3>3, Zenon
  <2>1. 0 \in S /\ \A n \in Nat : n \in S => n + 1 \in S
        BY <2>0, <2>4
  <2>2. Nat \subseteq S
        BY <2>1, NatSetInduction
  <2>. QED BY <2>2
<1>4. PICK f : Solves(f, N)
      BY <1>3
<1>5. f = [i \in 1 .. N |-> Known(f, i)]
      BY <1>4, Zenon
<1> DEFINE flatten == CHOOSE ff : ff = [i \in 1 .. N |-> Known(ff, i)]
<1>6. flatten = [i \in 1 .. N |-> Known(flatten, i)]
      BY <1>5, Zenon
<1>7. FlattenSeq(s) = flatten[N]
      BY DEF FlattenSeq
<1> HIDE DEF flatten
<1>8. \A i \in 1 .. N : flatten[i] = Known(flatten, i)
      BY <1>6, Zenon
<1>9. flatten[1] = s[1]
  <2>1. 1 \in 1 .. N
        OBVIOUS
  <2>. QED BY <1>8, <2>1
<1>10. \A i \in 1 .. N : i > 1 => flatten[i] = flatten[i - 1] \o s[i]
  <2>1. ASSUME NEW i \in 1 .. N, i > 1
        PROVE  flatten[i] = flatten[i - 1] \o s[i]
    <3>1. i # 1
          BY <2>1
    <3>. QED BY <1>8, <3>1, Zenon
  <2>. QED BY <2>1
<1>. QED BY <1>7, <1>9, <1>10

(* Sequences of a set that is closed under concatenation stay in it. *)
LEMMA FlattenClosed ==
  ASSUME NEW T, \A a, b \in T : a \o b \in T,
         NEW s \in Seq(T), s # <<>>
  PROVE  /\ FlattenSeq(s) \in T
         /\ \/ FlattenSeq(s) = s[Len(s)]
            \/ \E front \in T : FlattenSeq(s) = front \o s[Len(s)]
<1>1. Len(s) \in Nat \ {0} /\ \A i \in 1 .. Len(s) : s[i] \in T
      OBVIOUS
<1>2. PICK f : /\ FlattenSeq(s) = f[Len(s)] /\ f[1] = s[1]
               /\ \A i \in 1 .. Len(s) : i > 1 => f[i] = f[i - 1] \o s[i]
      BY <1>1, Flattening
<1> DEFINE S == {k \in Nat : k + 1 <= Len(s) => f[k + 1] \in T}
<1>3. \A k \in Nat : k \in S
  <2>1. 0 \in S
        BY <1>1, <1>2
  <2>2. ASSUME NEW k \in Nat, k \in S PROVE k + 1 \in S
    <3>1. CASE k + 2 <= Len(s)
      <4>1. f[k + 1] \in T /\ k + 2 \in 1 .. Len(s) /\ k + 2 > 1
            BY <1>1, <2>2, <3>1
      <4>2. f[k + 2] = f[(k + 2) - 1] \o s[k + 2] /\ s[k + 2] \in T
            BY <1>1, <1>2, <4>1
      <4>3. (k + 2) - 1 = k + 1 /\ (k + 1) + 1 = k + 2
            OBVIOUS
      <4>4. f[k + 2] \in T
            BY <4>1, <4>2, <4>3
      <4>. QED BY <4>3, <4>4
    <3>2. CASE ~(k + 2 <= Len(s))
          BY <1>1, <3>2
    <3>. QED BY <3>1, <3>2
  <2>. QED BY <2>1, <2>2, NatSetInduction
<1>4. ASSUME NEW i \in 1 .. Len(s) PROVE f[i] \in T
  <2>1. i - 1 \in Nat /\ (i - 1) + 1 = i /\ i <= Len(s)
        BY <1>1
  <2>. QED BY <1>3, <2>1
<1>5. FlattenSeq(s) \in T
  <2>1. Len(s) \in 1 .. Len(s)
        BY <1>1
  <2>. QED BY <1>2, <1>4, <2>1
<1>6. CASE Len(s) = 1
  <2>1. FlattenSeq(s) = s[Len(s)]
        BY <1>2, <1>6
  <2>. QED BY <1>5, <2>1
<1>7. CASE Len(s) > 1
  <2>1. Len(s) \in 1 .. Len(s) /\ Len(s) - 1 \in 1 .. Len(s)
        BY <1>1, <1>7
  <2>2. PICK before : before = f[Len(s) - 1]
        OBVIOUS
  <2>3. before \in T
        BY <1>4, <2>1, <2>2
  <2>4. FlattenSeq(s) = before \o s[Len(s)]
        BY <1>2, <1>7, <2>1, <2>2
  <2>5. \E front \in T : FlattenSeq(s) = front \o s[Len(s)]
        BY <2>3, <2>4, Zenon
  <2>. QED BY <1>5, <2>5, Zenon
<1>8. Len(s) = 1 \/ Len(s) > 1
  <2>1. PICK n : n = Len(s)
        OBVIOUS
  <2>2. n \in Nat /\ n # 0
        BY <1>1, <2>1
  <2>3. n = 1 \/ n > 1
        BY <2>2
  <2>. QED BY <2>1, <2>3
<1>. QED BY <1>6, <1>7, <1>8, Zenon

(* Of sequences of three, where each element comes to lie. *)
LEMMA FlattenThrees ==
  ASSUME NEW T, NEW s \in Seq(Seq(T)), s # <<>>,
         \A i \in 1 .. Len(s) : Len(s[i]) = 3
  PROVE  /\ FlattenSeq(s) \in Seq(T) /\ Len(FlattenSeq(s)) = 3 * Len(s)
         /\ \A i \in 1 .. Len(s) :
              /\ FlattenSeq(s)[3 * i - 2] = s[i][1]
              /\ FlattenSeq(s)[3 * i - 1] = s[i][2]
              /\ FlattenSeq(s)[3 * i] = s[i][3]
<1>1. Len(s) \in Nat \ {0} /\ \A i \in 1 .. Len(s) : s[i] \in Seq(T)
      OBVIOUS
<1>2. PICK f : /\ FlattenSeq(s) = f[Len(s)] /\ f[1] = s[1]
               /\ \A i \in 1 .. Len(s) : i > 1 => f[i] = f[i - 1] \o s[i]
      BY <1>1, Flattening
<1> DEFINE Threes(q, i) == q[3 * i - 2] = s[i][1] /\ q[3 * i - 1] = s[i][2]
                           /\ q[3 * i] = s[i][3]
           Good(q, n) == /\ q \in Seq(T) /\ Len(q) = 3 * n
                         /\ \A i \in 1 .. n : Threes(q, i)
           S == {k \in Nat : k + 1 <= Len(s) => Good(f[k + 1], k + 1)}
<1>3. Good(f[1], 1)
  <2>1. 1 \in 1 .. Len(s)
        BY <1>1
  <2>2. s[1] \in Seq(T) /\ Len(s[1]) = 3
        BY <1>1, <2>1
  <2>. QED BY <1>2, <2>2
<1>4. ASSUME NEW k \in Nat, k + 2 <= Len(s), Good(f[k + 1], k + 1)
      PROVE  Good(f[k + 2], k + 2)
  <2>0. PICK n : n = Len(s)
        OBVIOUS
  <2>00. n \in Nat /\ k + 2 <= n
        BY <1>1, <1>4, <2>0, Zenon
  <2>1. k + 2 \in 1 .. Len(s) /\ k + 2 > 1 /\ (k + 2) - 1 = k + 1
        BY <2>0, <2>00
  <2>2. /\ s[k + 2] \in Seq(T) /\ Len(s[k + 2]) = 3
        /\ f[k + 2] = f[k + 1] \o s[k + 2]
        BY <1>1, <1>2, <2>1
  <2>3. PICK a, b : a = f[k + 1] /\ b = s[k + 2]
        OBVIOUS
  <2>4. a \in Seq(T) /\ Len(a) = 3 * (k + 1) /\ b \in Seq(T) /\ Len(b) = 3
        BY <1>4, <2>2, <2>3
  <2>7. \A i \in 1 .. k + 1 : Threes(a, i)
        BY <1>4, <2>3
  <2>5. PICK c : Joined(c, a, b)
        BY DEF Joined
  <2>6. /\ c \in Seq(T) /\ Len(c) = Len(a) + Len(b)
        /\ \A j \in 1 .. Len(a) : c[j] = a[j]
        /\ \A j \in 1 .. Len(b) : c[Len(a) + j] = b[j]
    <3>1. a \in Seq(T) /\ b \in Seq(T)
          BY <2>4
    <3>. QED BY <3>1, <2>5, Concatenated
  <2>8. Len(c) = 3 * (k + 2)
        BY <2>4, <2>6
  <2>9. ASSUME NEW i \in 1 .. k + 2 PROVE Threes(c, i)
    <3>1. CASE i \in 1 .. k + 1
      <4>1. 3 * i - 2 \in 1 .. Len(a) /\ 3 * i - 1 \in 1 .. Len(a) /\ 3 * i \in 1 .. Len(a)
            BY <2>4, <3>1
      <4>2. Threes(a, i)
            BY <2>7, <3>1
      <4>. QED BY <2>6, <4>1, <4>2
    <3>2. CASE i = k + 2
      <4>1. \A j \in 1 .. 3 : c[3 * (k + 1) + j] = b[j]
            BY <2>4, <2>6
      <4>2. /\ 3 * i - 2 = 3 * (k + 1) + 1 /\ 3 * i - 1 = 3 * (k + 1) + 2
            /\ 3 * i = 3 * (k + 1) + 3
            BY <3>2
      <4>3. 1 \in 1 .. 3 /\ 2 \in 1 .. 3 /\ 3 \in 1 .. 3
            OBVIOUS
      <4>4. c[3 * i - 2] = b[1] /\ c[3 * i - 1] = b[2] /\ c[3 * i] = b[3]
            BY <4>1, <4>2, <4>3
      <4>. QED BY <2>3, <3>2, <4>4
    <3>. QED BY <3>1, <3>2
  <2>10. f[k + 2] = c
        BY <2>2, <2>3, <2>5 DEF Joined
  <2>. QED BY <2>6, <2>8, <2>9, <2>10
<1>5. \A k \in Nat : k \in S
  <2>1. 0 \in S
        BY <1>3
  <2>2. ASSUME NEW k \in Nat, k \in S PROVE k + 1 \in S
    <3> HIDE DEF Good
    <3>1. k + 1 \in Nat /\ (k + 1) + 1 = k + 2
          OBVIOUS
    <3>2. k + 2 <= Len(s) => Good(f[k + 2], k + 2)
          BY <1>1, <1>4, <2>2
    <3>. QED BY <3>1, <3>2
  <2>. QED BY <2>1, <2>2, NatSetInduction
<1>6. Len(s) - 1 \in Nat /\ (Len(s) - 1) + 1 = Len(s)
      BY <1>1
<1>7. Good(f[Len(s)], Len(s))
  <2> HIDE DEF Good
  <2>. QED BY <1>1, <1>5, <1>6
<1>. QED BY <1>2, <1>7

-----------------------------------------------------------------------------
(* Transfers: the accesses of spi_txrx and adf4002_write, one by one.      *)
Words == [1 .. WordBits -> {0, 1}]
TransferLen == 3 * WordBits + 3

Part(pin, value, chip, word, j) ==
  [op |-> "set", pin |-> pin, value |-> value, chip |-> chip, word |-> word,
   at |-> j]

(* The accesses gpio_set can make, before they are said to be about a word. *)
Plain == [op : {"set"}, pin : Pins \cup {"PLL_SDIO"}, value : Nat,
          chip : {"none"}, word : {<<>>}, at : {0}]

LEMMA SetIsPlain ==
  ASSUME NEW pin \in Pins \cup {"PLL_SDIO"}, NEW v \in Nat
  PROVE  Set(pin, v) \in Plain
BY DEF Set, Plain

LEMMA AboutParts ==
  ASSUME NEW ops \in Seq(Plain), NEW chip, NEW word
  PROVE  /\ DOMAIN About(ops, chip, word) = 1 .. Len(ops)
         /\ About(ops, chip, word) = [i \in 1 .. Len(ops) |-> About(ops, chip, word)[i]]
         /\ \A i \in 1 .. Len(ops) :
              About(ops, chip, word)[i] = Part(ops[i].pin, ops[i].value, chip, word, i)
<1>1. DOMAIN ops = 1 .. Len(ops)
      OBVIOUS
<1>2. ASSUME NEW i \in 1 .. Len(ops)
      PROVE  [ops[i] EXCEPT !.chip = chip, !.word = word, !.at = i]
               = Part(ops[i].pin, ops[i].value, chip, word, i)
  <2>1. ops[i] \in Plain
        OBVIOUS
  <2>2. PICK a : a = ops[i]
        OBVIOUS
  <2>3. a \in Plain
        BY <2>1, <2>2
  <2>4. [a EXCEPT !.chip = chip, !.word = word, !.at = i]
          = Part(a.pin, a.value, chip, word, i)
    <3>1. PICK pin \in Pins \cup {"PLL_SDIO"}, v \in Nat : a = Set(pin, v)
          BY <2>3 DEF Plain, Set
    <3>2. [Set(pin, v) EXCEPT !.chip = chip, !.word = word, !.at = i]
            = Part(pin, v, chip, word, i)
      <4>1. PICK r : r = [Set(pin, v) EXCEPT !.chip = chip, !.word = word, !.at = i]
            OBVIOUS
      <4>2. /\ r.op = "set" /\ r.pin = pin /\ r.value = v
            /\ r.chip = chip /\ r.word = word /\ r.at = i
            BY <4>1 DEF Set
      <4>3. DOMAIN r = {"op", "pin", "value", "chip", "word", "at"}
            BY <4>1 DEF Set
      <4>4. r = [x \in {"op", "pin", "value", "chip", "word", "at"} |-> r[x]]
            BY <4>1, <4>3
      <4>5. r = Part(pin, v, chip, word, i)
            BY <4>2, <4>4 DEF Part
      <4>. QED BY <4>1, <4>5
    <3>3. a.pin = pin /\ a.value = v
          BY <3>1 DEF Set
    <3>. QED BY <3>1, <3>2, <3>3
  <2>. QED BY <2>2, <2>4
<1>. QED BY <1>1, <1>2 DEF About

Triples(f) == /\ f \in [1 .. WordBits -> Seq(Plain)]
              /\ \A i \in 1 .. WordBits : Len(f[i]) = 3

Framed(ops, a, b, f, z) == ops = <<a, b>> \o FlattenSeq(f) \o <<z>>

(* The bits of a word, three accesses each, between two and one. *)
LEMMA BitwiseParts ==
  ASSUME NEW f, Triples(f),
         NEW a \in Plain, NEW b \in Plain, NEW z \in Plain,
         NEW ops, Framed(ops, a, b, f, z)
  PROVE  /\ ops \in Seq(Plain) /\ Len(ops) = TransferLen
         /\ ops[1] = a /\ ops[2] = b /\ ops[TransferLen] = z
         /\ \A k \in 1 .. WordBits :
              /\ ops[3 * k] = f[k][1] /\ ops[3 * k + 1] = f[k][2]
              /\ ops[3 * k + 2] = f[k][3]
<1>1. f \in Seq(Seq(Plain)) /\ Len(f) = WordBits /\ f # <<>>
      BY WordBitsAssumption DEF Triples
<1>2. PICK q : q = FlattenSeq(f)
      OBVIOUS
<1>3. /\ q \in Seq(Plain) /\ Len(q) = 3 * WordBits
      /\ \A k \in 1 .. WordBits :
           q[3 * k - 2] = f[k][1] /\ q[3 * k - 1] = f[k][2] /\ q[3 * k] = f[k][3]
      BY <1>1, <1>2, FlattenThrees DEF Triples
<1>4. PICK p, ab, last : ab = <<a, b>> /\ p = ab \o q /\ last = <<z>>
      OBVIOUS
<1>5. /\ p \in Seq(Plain) /\ Len(p) = 3 * WordBits + 2
      /\ p[1] = a /\ p[2] = b
      /\ \A j \in 1 .. 3 * WordBits : p[2 + j] = q[j]
  <2>1. ab \in Seq(Plain) /\ Len(ab) = 2 /\ ab[1] = a /\ ab[2] = b
        BY <1>4
  <2>2. q \in Seq(Plain) /\ p = ab \o q
        BY <1>3, <1>4
  <2>3. /\ p \in Seq(Plain) /\ Len(p) = Len(ab) + Len(q)
        /\ \A j \in 1 .. Len(ab) : p[j] = ab[j]
        /\ \A j \in 1 .. Len(q) : p[Len(ab) + j] = q[j]
    <3>1. ab \in Seq(Plain) /\ q \in Seq(Plain)
          BY <2>1, <2>2
    <3>2. Joined(p, ab, q)
          BY <2>2 DEF Joined
    <3>. QED BY <3>1, <3>2, Concatenated
  <2>. QED BY <1>3, <2>1, <2>3, WordBitsAssumption
<1>6. ops = p \o last
      BY <1>2, <1>4 DEF Framed
<1>7. /\ ops \in Seq(Plain) /\ Len(ops) = TransferLen
      /\ ops[TransferLen] = z
      /\ \A j \in 1 .. 3 * WordBits + 2 : ops[j] = p[j]
  <2>1. last \in Seq(Plain) /\ Len(last) = 1 /\ last[1] = z
        BY <1>4
  <2>2. p \in Seq(Plain)
        BY <1>5
  <2>3. /\ ops \in Seq(Plain) /\ Len(ops) = Len(p) + Len(last)
        /\ \A j \in 1 .. Len(p) : ops[j] = p[j]
        /\ \A j \in 1 .. Len(last) : ops[Len(p) + j] = last[j]
    <3>1. p \in Seq(Plain) /\ last \in Seq(Plain)
          BY <2>1, <2>2
    <3>2. Joined(ops, p, last)
          BY <1>6 DEF Joined
    <3>. QED BY <3>1, <3>2, Concatenated
  <2>4. Len(ops) = TransferLen /\ TransferLen = Len(p) + 1
        BY <1>5, <2>1, <2>3, WordBitsAssumption DEF TransferLen
  <2>5. \A j \in 1 .. 3 * WordBits + 2 : ops[j] = p[j]
        BY <1>5, <2>3
  <2>6. ops[Len(p) + 1] = last[1]
        BY <2>1, <2>3
  <2>. QED BY <2>1, <2>3, <2>4, <2>5, <2>6
<1>8. ASSUME NEW k \in 1 .. WordBits
      PROVE  /\ ops[3 * k] = f[k][1] /\ ops[3 * k + 1] = f[k][2]
             /\ ops[3 * k + 2] = f[k][3]
  <2>1. /\ 3 * k - 2 \in 1 .. 3 * WordBits /\ 3 * k - 1 \in 1 .. 3 * WordBits
        /\ 3 * k \in 1 .. 3 * WordBits
        BY WordBitsAssumption
  <2>2. /\ 2 + (3 * k - 2) = 3 * k /\ 2 + (3 * k - 1) = 3 * k + 1
        /\ 2 + 3 * k = 3 * k + 2
        /\ 3 * k \in 1 .. 3 * WordBits + 2 /\ 3 * k + 1 \in 1 .. 3 * WordBits + 2
        /\ 3 * k + 2 \in 1 .. 3 * WordBits + 2
        BY WordBitsAssumption
  <2>3. /\ p[3 * k] = q[3 * k - 2] /\ p[3 * k + 1] = q[3 * k - 1]
        /\ p[3 * k + 2] = q[3 * k]
        BY <1>5, <2>1, <2>2
  <2>. QED BY <1>3, <1>7, <2>2, <2>3
<1>9. ops[1] = a /\ ops[2] = b
  <2>1. 1 \in 1 .. 3 * WordBits + 2 /\ 2 \in 1 .. 3 * WordBits + 2
        BY WordBitsAssumption
  <2>. QED BY <1>5, <1>7, <2>1
<1>. QED BY <1>7, <1>8, <1>9

(* A list of accesses of the length of a transfer, about one word. *)
Transfer(t, chip, word) ==
  /\ DOMAIN t = 1 .. TransferLen
  /\ t = [j \in 1 .. TransferLen |-> t[j]]
  /\ \A j \in 1 .. TransferLen : t[j] = Part(t[j].pin, t[j].value, chip, word, j)

LEMMA TransferParts ==
  ASSUME NEW f, Triples(f),
         NEW a \in Plain, NEW b \in Plain, NEW z \in Plain,
         NEW ops, Framed(ops, a, b, f, z),
         NEW chip, NEW word, NEW t, t = About(ops, chip, word)
  PROVE  /\ Transfer(t, chip, word)
         /\ t[1] = Part(a.pin, a.value, chip, word, 1)
         /\ t[2] = Part(b.pin, b.value, chip, word, 2)
         /\ t[TransferLen] = Part(z.pin, z.value, chip, word, TransferLen)
         /\ \A k \in 1 .. WordBits :
              /\ t[3 * k] = Part(f[k][1].pin, f[k][1].value, chip, word, 3 * k)
              /\ t[3 * k + 1] = Part(f[k][2].pin, f[k][2].value, chip, word, 3 * k + 1)
              /\ t[3 * k + 2] = Part(f[k][3].pin, f[k][3].value, chip, word, 3 * k + 2)
<1>1. /\ ops \in Seq(Plain) /\ Len(ops) = TransferLen
      /\ ops[1] = a /\ ops[2] = b /\ ops[TransferLen] = z
      /\ \A k \in 1 .. WordBits :
           /\ ops[3 * k] = f[k][1] /\ ops[3 * k + 1] = f[k][2]
           /\ ops[3 * k + 2] = f[k][3]
      BY BitwiseParts
<1>2. ops \in Seq(Plain) /\ Len(ops) = TransferLen
      BY <1>1
<1>3. /\ DOMAIN t = 1 .. TransferLen /\ t = [i \in 1 .. TransferLen |-> t[i]]
      /\ \A i \in 1 .. TransferLen : t[i] = Part(ops[i].pin, ops[i].value, chip, word, i)
      BY <1>2, AboutParts
<1>4. Transfer(t, chip, word)
  <2>1. ASSUME NEW i \in 1 .. TransferLen
        PROVE  t[i] = Part(t[i].pin, t[i].value, chip, word, i)
    <3>1. PICK p, v : p = ops[i].pin /\ v = ops[i].value
          OBVIOUS
    <3>2. t[i] = Part(p, v, chip, word, i)
          BY <1>3, <3>1
    <3>3. t[i].pin = p /\ t[i].value = v
          BY <3>2 DEF Part
    <3>. QED BY <3>2, <3>3
  <2>. QED BY <1>3, <2>1 DEF Transfer
<1>5. /\ t[1] = Part(a.pin, a.value, chip, word, 1)
      /\ t[2] = Part(b.pin, b.value, chip, word, 2)
      /\ t[TransferLen] = Part(z.pin, z.value, chip, word, TransferLen)
  <2>1. 1 \in 1 .. TransferLen /\ 2 \in 1 .. TransferLen /\ TransferLen \in 1 .. TransferLen
        BY WordBitsAssumption DEF TransferLen
  <2>. QED BY <1>1, <1>3, <2>1
<1>6. ASSUME NEW k \in 1 .. WordBits
      PROVE  /\ t[3 * k] = Part(f[k][1].pin, f[k][1].value, chip, word, 3 * k)
             /\ t[3 * k + 1] = Part(f[k][2].pin, f[k][2].value, chip, word, 3 * k + 1)
             /\ t[3 * k + 2] = Part(f[k][3].pin, f[k][3].value, chip, word, 3 * k + 2)
  <2>1. /\ 3 * k \in 1 .. TransferLen /\ 3 * k + 1 \in 1 .. TransferLen
        /\ 3 * k + 2 \in 1 .. TransferLen
        BY WordBitsAssumption DEF TransferLen
  <2>2. /\ ops[3 * k] = f[k][1] /\ ops[3 * k + 1] = f[k][2]
        /\ ops[3 * k + 2] = f[k][3]
        BY <1>1
  <2>. QED BY <1>3, <2>1, <2>2
<1>. QED BY <1>4, <1>5, <1>6

(* spi_txrx: SCLK low, the chip selected, then each bit of the word and a  *)
(* pulse of SCLK, the chip deselected. *)
LEMMA SpiParts ==
  ASSUME NEW c \in SpiChips, NEW w \in Words, NEW t, t = spi_txrx(c, w)
  PROVE  /\ Transfer(t, c, w)
         /\ t[1] = Part("PLL_SCLK", 0, c, w, 1)
         /\ t[2] = Part(cs_n(c), 0, c, w, 2)
         /\ t[TransferLen] = Part(cs_n(c), 1, c, w, TransferLen)
         /\ \A k \in 1 .. WordBits :
              /\ t[3 * k] = Part("PLL_SDIO", w[k] * Mask, c, w, 3 * k)
              /\ t[3 * k + 1] = Part("PLL_SCLK", 1, c, w, 3 * k + 1)
              /\ t[3 * k + 2] = Part("PLL_SCLK", 0, c, w, 3 * k + 2)
<1> DEFINE f == [i \in DOMAIN w |-> SpiBit(w[i])]
           a == Set("PLL_SCLK", 0)
           b == Set(cs_n(c), 0)
           z == Set(cs_n(c), 1)
           ops == <<a, b>> \o FlattenSeq(f) \o <<z>>
<1>1. DOMAIN w = 1 .. WordBits /\ cs_n(c) \in Pins /\ "PLL_SCLK" \in Pins
      BY DEF Words, cs_n, Pins
<1>2. a \in Plain /\ b \in Plain /\ z \in Plain /\ Set("PLL_SCLK", 1) \in Plain
      BY <1>1, SetIsPlain
<1>3. ASSUME NEW i \in 1 .. WordBits PROVE Set("PLL_SDIO", w[i] * Mask) \in Plain
  <2>1. w[i] * Mask \in Nat
        BY WordsAssumption DEF Words
  <2>. QED BY <2>1, SetIsPlain
<1>4. ASSUME NEW i \in 1 .. WordBits
      PROVE  /\ f[i] \in Seq(Plain) /\ Len(f[i]) = 3
             /\ f[i][1] = Set("PLL_SDIO", w[i] * Mask)
             /\ f[i][2] = Set("PLL_SCLK", 1) /\ f[i][3] = Set("PLL_SCLK", 0)
      BY <1>1, <1>2, <1>3 DEF SpiBit
<1>5. Triples(f)
      BY <1>1, <1>4 DEF Triples
<1>6. Framed(ops, a, b, f, z) /\ t = About(ops, c, w)
      BY DEF Framed, spi_txrx
<1>7. /\ a.pin = "PLL_SCLK" /\ a.value = 0 /\ b.pin = cs_n(c) /\ b.value = 0
      /\ z.pin = cs_n(c) /\ z.value = 1
      BY DEF Set
<1>8. ASSUME NEW k \in 1 .. WordBits
      PROVE  /\ f[k][1].pin = "PLL_SDIO" /\ f[k][1].value = w[k] * Mask
             /\ f[k][2].pin = "PLL_SCLK" /\ f[k][2].value = 1
             /\ f[k][3].pin = "PLL_SCLK" /\ f[k][3].value = 0
  <2>1. /\ f[k][1] = Set("PLL_SDIO", w[k] * Mask) /\ f[k][2] = Set("PLL_SCLK", 1)
        /\ f[k][3] = Set("PLL_SCLK", 0)
    <3> HIDE DEF f
    <3>. QED BY <1>4
  <2> HIDE DEF f
  <2>. QED BY <2>1 DEF Set
<1>9. a \in Plain /\ b \in Plain /\ z \in Plain
      BY <1>2
<1> HIDE DEF a, b, f, z, ops
<1>10. /\ Transfer(t, c, w)
       /\ t[1] = Part(a.pin, a.value, c, w, 1)
       /\ t[2] = Part(b.pin, b.value, c, w, 2)
       /\ t[TransferLen] = Part(z.pin, z.value, c, w, TransferLen)
       /\ \A k \in 1 .. WordBits :
            /\ t[3 * k] = Part(f[k][1].pin, f[k][1].value, c, w, 3 * k)
            /\ t[3 * k + 1] = Part(f[k][2].pin, f[k][2].value, c, w, 3 * k + 1)
            /\ t[3 * k + 2] = Part(f[k][3].pin, f[k][3].value, c, w, 3 * k + 2)
       BY <1>5, <1>6, <1>9, TransferParts
<1>11. /\ t[1] = Part("PLL_SCLK", 0, c, w, 1)
       /\ t[2] = Part(cs_n(c), 0, c, w, 2)
       /\ t[TransferLen] = Part(cs_n(c), 1, c, w, TransferLen)
       BY <1>7, <1>10
<1>12. ASSUME NEW k \in 1 .. WordBits
       PROVE  /\ t[3 * k] = Part("PLL_SDIO", w[k] * Mask, c, w, 3 * k)
              /\ t[3 * k + 1] = Part("PLL_SCLK", 1, c, w, 3 * k + 1)
              /\ t[3 * k + 2] = Part("PLL_SCLK", 0, c, w, 3 * k + 2)
       BY <1>8, <1>10
<1>. QED BY <1>10, <1>11, <1>12

(* adf4002_write: the latch closed, each bit and a pulse of ADF_CLK, the   *)
(* latch opened. *)
LEMMA AdfParts ==
  ASSUME NEW w \in Words, NEW t, t = adf4002_write(w)
  PROVE  /\ Transfer(t, "adf", w)
         /\ t[1] = Part("ADF_CLK", 0, "adf", w, 1)
         /\ t[2] = Part("ADF_LE", 0, "adf", w, 2)
         /\ t[TransferLen] = Part("ADF_LE", 1, "adf", w, TransferLen)
         /\ \A k \in 1 .. WordBits :
              /\ t[3 * k] = Part("ADF_DATA", w[k], "adf", w, 3 * k)
              /\ t[3 * k + 1] = Part("ADF_CLK", 1, "adf", w, 3 * k + 1)
              /\ t[3 * k + 2] = Part("ADF_CLK", 0, "adf", w, 3 * k + 2)
<1> DEFINE f == [i \in DOMAIN w |-> AdfBit(w[i])]
           a == Set("ADF_CLK", 0)
           b == Set("ADF_LE", 0)
           z == Set("ADF_LE", 1)
           ops == <<a, b>> \o FlattenSeq(f) \o <<z>>
<1>1. DOMAIN w = 1 .. WordBits /\ {"ADF_CLK", "ADF_LE", "ADF_DATA"} \subseteq Pins
      BY DEF Words, Pins
<1>2. a \in Plain /\ b \in Plain /\ z \in Plain /\ Set("ADF_CLK", 1) \in Plain
      BY <1>1, SetIsPlain
<1>3. ASSUME NEW i \in 1 .. WordBits PROVE Set("ADF_DATA", w[i]) \in Plain
  <2>1. w[i] \in Nat
        BY DEF Words
  <2>. QED BY <1>1, <2>1, SetIsPlain
<1>4. ASSUME NEW i \in 1 .. WordBits
      PROVE  /\ f[i] \in Seq(Plain) /\ Len(f[i]) = 3
             /\ f[i][1] = Set("ADF_DATA", w[i])
             /\ f[i][2] = Set("ADF_CLK", 1) /\ f[i][3] = Set("ADF_CLK", 0)
      BY <1>1, <1>2, <1>3 DEF AdfBit
<1>5. Triples(f)
      BY <1>1, <1>4 DEF Triples
<1>6. Framed(ops, a, b, f, z) /\ t = About(ops, "adf", w)
      BY DEF Framed, adf4002_write
<1>7. /\ a.pin = "ADF_CLK" /\ a.value = 0 /\ b.pin = "ADF_LE" /\ b.value = 0
      /\ z.pin = "ADF_LE" /\ z.value = 1
      BY DEF Set
<1>8. ASSUME NEW k \in 1 .. WordBits
      PROVE  /\ f[k][1].pin = "ADF_DATA" /\ f[k][1].value = w[k]
             /\ f[k][2].pin = "ADF_CLK" /\ f[k][2].value = 1
             /\ f[k][3].pin = "ADF_CLK" /\ f[k][3].value = 0
  <2>1. /\ f[k][1] = Set("ADF_DATA", w[k]) /\ f[k][2] = Set("ADF_CLK", 1)
        /\ f[k][3] = Set("ADF_CLK", 0)
    <3> HIDE DEF f
    <3>. QED BY <1>4
  <2> HIDE DEF f
  <2>. QED BY <2>1 DEF Set
<1>9. a \in Plain /\ b \in Plain /\ z \in Plain
      BY <1>2
<1> HIDE DEF a, b, f, z, ops
<1>10. /\ Transfer(t, "adf", w)
       /\ t[1] = Part(a.pin, a.value, "adf", w, 1)
       /\ t[2] = Part(b.pin, b.value, "adf", w, 2)
       /\ t[TransferLen] = Part(z.pin, z.value, "adf", w, TransferLen)
       /\ \A k \in 1 .. WordBits :
            /\ t[3 * k] = Part(f[k][1].pin, f[k][1].value, "adf", w, 3 * k)
            /\ t[3 * k + 1] = Part(f[k][2].pin, f[k][2].value, "adf", w, 3 * k + 1)
            /\ t[3 * k + 2] = Part(f[k][3].pin, f[k][3].value, "adf", w, 3 * k + 2)
       BY <1>5, <1>6, <1>9, TransferParts
<1>11. /\ t[1] = Part("ADF_CLK", 0, "adf", w, 1)
       /\ t[2] = Part("ADF_LE", 0, "adf", w, 2)
       /\ t[TransferLen] = Part("ADF_LE", 1, "adf", w, TransferLen)
       BY <1>7, <1>10
<1>12. ASSUME NEW k \in 1 .. WordBits
       PROVE  /\ t[3 * k] = Part("ADF_DATA", w[k], "adf", w, 3 * k)
              /\ t[3 * k + 1] = Part("ADF_CLK", 1, "adf", w, 3 * k + 1)
              /\ t[3 * k + 2] = Part("ADF_CLK", 0, "adf", w, 3 * k + 2)
       BY <1>8, <1>10
<1>. QED BY <1>10, <1>11, <1>12

-----------------------------------------------------------------------------
(* Programs.  In a program a transfer is never interrupted: after each of  *)
(* its accesses but the last comes the next one, and nothing goes to the   *)
(* middle of one.                                                          *)
Place(a) == IF a.op = "set" THEN a.at ELSE 0

Inside(a) == Place(a) > 0 /\ Place(a) < TransferLen

Follows(a, b) ==
  IF Inside(a) THEN /\ b.op = "set" /\ b.at = a.at + 1
                    /\ b.chip = a.chip /\ b.word = a.word
  ELSE Place(b) \in {0, 1}

Chains(S) == {s \in Seq(S) : /\ Len(s) \in Nat \ {0}
                             /\ Place(s[1]) \in {0, 1}
                             /\ ~Inside(s[Len(s)])
                             /\ \A i \in 1 .. Len(s) - 1 : Follows(s[i], s[i + 1])}

LEMMA ChainsJoin ==
  ASSUME NEW S, NEW a \in Chains(S), NEW b \in Chains(S)
  PROVE  a \o b \in Chains(S)
<1>1. /\ a \in Seq(S) /\ Len(a) \in Nat \ {0} /\ Place(a[1]) \in {0, 1}
      /\ ~Inside(a[Len(a)]) /\ \A i \in 1 .. Len(a) - 1 : Follows(a[i], a[i + 1])
      /\ b \in Seq(S) /\ Len(b) \in Nat \ {0} /\ Place(b[1]) \in {0, 1}
      /\ ~Inside(b[Len(b)]) /\ \A i \in 1 .. Len(b) - 1 : Follows(b[i], b[i + 1])
      BY DEF Chains
<1>2. PICK c : Joined(c, a, b)
      BY DEF Joined
<1>3. PICK m, n : m = Len(a) /\ n = Len(b) /\ m \in Nat \ {0} /\ n \in Nat \ {0}
      BY <1>1
<1>4. a \in Seq(S) /\ b \in Seq(S)
      BY <1>1
<1>5. /\ c \in Seq(S) /\ Len(c) = m + n
      /\ \A j \in 1 .. m : c[j] = a[j]
      /\ \A j \in 1 .. n : c[m + j] = b[j]
  <2>1. /\ c \in Seq(S) /\ Len(c) = Len(a) + Len(b)
        /\ \A j \in 1 .. Len(a) : c[j] = a[j]
        /\ \A j \in 1 .. Len(b) : c[Len(a) + j] = b[j]
        BY <1>2, <1>4, Concatenated
  <2>. QED BY <1>3, <2>1
<1>6. Place(c[1]) \in {0, 1}
  <2>1. c[1] = a[1]
        BY <1>3, <1>5
  <2>. QED BY <1>1, <2>1
<1>7. ~Inside(c[Len(c)])
  <2>1. c[m + n] = b[n]
        BY <1>3, <1>5
  <2>. QED BY <1>1, <1>3, <1>5, <2>1
<1>8. ASSUME NEW i \in 1 .. (m + n) - 1 PROVE Follows(c[i], c[i + 1])
  <2>1. CASE i < m
    <3>1. c[i] = a[i] /\ c[i + 1] = a[i + 1] /\ i \in 1 .. m - 1
          BY <1>3, <1>5, <2>1
    <3>. QED BY <1>1, <1>3, <3>1
  <2>2. CASE i = m
    <3>1. c[i] = a[m]
          BY <1>3, <1>5, <2>2
    <3>2. c[i + 1] = b[1]
          BY <1>3, <1>5, <2>2
    <3>. QED BY <1>1, <1>3, <3>1, <3>2 DEF Follows
  <2>3. CASE i > m
    <3>1. PICK k : k = i - m
          OBVIOUS
    <3>2. k \in 1 .. n - 1 /\ i = m + k /\ i + 1 = m + (k + 1)
          BY <1>3, <2>3, <3>1
    <3>3. c[m + k] = b[k] /\ c[m + (k + 1)] = b[k + 1]
          BY <1>3, <1>5, <3>2
    <3>. QED BY <1>1, <1>3, <3>2, <3>3
  <2>. QED BY <1>3, <2>1, <2>2, <2>3
<1>9. c \in Chains(S)
  <2>1. \A i \in 1 .. Len(c) - 1 : Follows(c[i], c[i + 1])
        BY <1>3, <1>5, <1>8
  <2>2. c \in Seq(S) /\ Len(c) \in Nat \ {0}
        BY <1>3, <1>5
  <2>. QED BY <1>6, <1>7, <2>1, <2>2 DEF Chains
<1>. QED BY <1>2, <1>9 DEF Joined

LEMMA ChainsFlatten ==
  ASSUME NEW S, NEW s \in Seq(Chains(S)), s # <<>>
  PROVE  /\ FlattenSeq(s) \in Chains(S)
         /\ \/ FlattenSeq(s) = s[Len(s)]
            \/ \E front \in Chains(S) : FlattenSeq(s) = front \o s[Len(s)]
<1> DEFINE T == Chains(S)
<1>1. \A a, b \in T : a \o b \in T
      BY ChainsJoin
<1>2. s \in Seq(T)
      OBVIOUS
<1> HIDE DEF T
<1>3. /\ FlattenSeq(s) \in T
      /\ \/ FlattenSeq(s) = s[Len(s)]
         \/ \E front \in T : FlattenSeq(s) = front \o s[Len(s)]
      BY <1>1, <1>2, FlattenClosed
<1>. QED BY <1>3 DEF T

(* What is not part of a transfer may come in any order. *)
LEMMA SingleChain ==
  ASSUME NEW S, NEW s \in Seq(S), Len(s) \in Nat \ {0},
         \A i \in 1 .. Len(s) : Place(s[i]) = 0
  PROVE  s \in Chains(S)
<1>1. \A i \in 1 .. Len(s) : ~Inside(s[i])
      BY DEF Inside
<1>2. 1 \in 1 .. Len(s) /\ Len(s) \in 1 .. Len(s)
      OBVIOUS
<1>3. ASSUME NEW i \in 1 .. Len(s) - 1 PROVE Follows(s[i], s[i + 1])
  <2>1. i \in 1 .. Len(s) /\ i + 1 \in 1 .. Len(s)
        OBVIOUS
  <2>. QED BY <1>1, <2>1 DEF Follows
<1>. QED BY <1>1, <1>2, <1>3 DEF Chains

LEMMA TransferChain ==
  ASSUME NEW t, NEW chip, NEW word, Transfer(t, chip, word),
         NEW S, \A j \in 1 .. TransferLen : t[j] \in S
  PROVE  t \in Chains(S)
<1>1. TransferLen \in Nat \ {0, 1}
      BY WordBitsAssumption DEF TransferLen
<1>2. t \in Seq(S) /\ Len(t) = TransferLen
      BY <1>1 DEF Transfer
<1>3. ASSUME NEW j \in 1 .. TransferLen
      PROVE  /\ t[j].op = "set" /\ t[j].at = j /\ t[j].chip = chip
             /\ t[j].word = word /\ Place(t[j]) = j
  <2>1. PICK p, v : t[j] = Part(p, v, chip, word, j)
        BY DEF Transfer
  <2>. QED BY <2>1 DEF Part, Place
<1>4. ~Inside(t[TransferLen]) /\ Place(t[1]) = 1
      BY <1>1, <1>3 DEF Inside
<1>5. ASSUME NEW j \in 1 .. TransferLen - 1 PROVE Follows(t[j], t[j + 1])
  <2>1. j \in 1 .. TransferLen /\ j + 1 \in 1 .. TransferLen /\ j > 0 /\ j < TransferLen
        BY <1>1
  <2>2. Inside(t[j])
        BY <1>3, <2>1 DEF Inside
  <2>. QED BY <1>3, <2>1, <2>2 DEF Follows
<1>. QED BY <1>1, <1>2, <1>4, <1>5 DEF Chains

(* The accesses of the programs, by kind. *)
SpiAccesses(c) == UNION {{spi_txrx(c, w)[j] : j \in 1 .. TransferLen} : w \in Words}
AdfAccesses == UNION {{adf4002_write(w)[j] : j \in 1 .. TransferLen} : w \in Words}
Writes == UNION {{Write(r, v) : v \in Values[r]} : r \in Registers}
Jumps == {Skip(n) : n \in Nat} \cup {Poll(n[1], n[2]) : n \in Nat \X Nat}

(* Those of a program that talks to the SPI chip c, without its jumps. *)
Accesses(c) == SpiAccesses(c) \cup AdfAccesses \cup Writes
               \cup {Set("ADF_CE", 1), Reads}

LEMMA SpiChain ==
  ASSUME NEW c \in SpiChips, NEW w \in Words
  PROVE  /\ spi_txrx(c, w) \in Chains(SpiAccesses(c))
         /\ Len(spi_txrx(c, w)) = TransferLen
<1>1. PICK t : t = spi_txrx(c, w)
      OBVIOUS
<1>2. Transfer(t, c, w)
      BY <1>1, SpiParts
<1>3. \A j \in 1 .. TransferLen : t[j] \in SpiAccesses(c)
      BY <1>1 DEF SpiAccesses
<1>4. t \in Chains(SpiAccesses(c))
      BY <1>2, <1>3, TransferChain
<1>5. Len(t) = TransferLen
      BY <1>2, WordBitsAssumption DEF Transfer, TransferLen
<1>. QED BY <1>1, <1>4, <1>5

LEMMA AdfChain ==
  ASSUME NEW w \in Words
  PROVE  /\ adf4002_write(w) \in Chains(AdfAccesses)
         /\ Len(adf4002_write(w)) = TransferLen
<1>1. PICK t : t = adf4002_write(w)
      OBVIOUS
<1>2. Transfer(t, "adf", w)
      BY <1>1, AdfParts
<1>3. \A j \in 1 .. TransferLen : t[j] \in AdfAccesses
      BY <1>1 DEF AdfAccesses
<1>4. t \in Chains(AdfAccesses)
      BY <1>2, <1>3, TransferChain
<1>5. Len(t) = TransferLen
      BY <1>2, WordBitsAssumption DEF Transfer, TransferLen
<1>. QED BY <1>1, <1>4, <1>5

LEMMA ChainsGrow ==
  ASSUME NEW S, NEW U, S \subseteq U
  PROVE  Chains(S) \subseteq Chains(U)
<1>1. Seq(S) \subseteq Seq(U)
      OBVIOUS
<1>. QED BY <1>1 DEF Chains

LastAdfWord == AdfWords[Len(AdfWords)]

LEMMA WordsKnown ==
  /\ AdfWords \in Seq(Words) /\ Len(AdfWords) \in Nat \ {0}
  /\ SysRegs \in Seq(Words) /\ Len(SysRegs) \in Nat \ {0} /\ SysRegs[1] \in Words
  /\ LastAdfWord \in Words /\ AnyWord \in Words
<1>1. /\ AdfWords \in Seq(Words) /\ Len(AdfWords) \in Nat \ {0}
      /\ SysRegs \in Seq(Words) /\ Len(SysRegs) \in Nat \ {0}
      BY WordsAssumption DEF Words
<1>2. SysRegs[1] \in Words /\ LastAdfWord \in Words
      BY <1>1 DEF LastAdfWord
<1>3. AnyWord \in Words
      BY DEF AnyWord, Words
<1>. QED BY <1>1, <1>2, <1>3

(* adf4002_configure ends with the transfer of its last word. *)
AdfLen == Len(adf4002_configure)

LEMMA AdfConfigure ==
  ASSUME NEW t, t = adf4002_configure
  PROVE  /\ t \in Chains(AdfAccesses \cup {Set("ADF_CE", 1)})
         /\ AdfLen \in Nat /\ AdfLen > TransferLen /\ Len(t) = AdfLen
         /\ t[1] = Set("ADF_CE", 1)
         /\ \A i \in 2 .. AdfLen : t[i] \in AdfAccesses
         /\ t[AdfLen] = adf4002_write(LastAdfWord)[TransferLen]
<1> DEFINE f == [i \in DOMAIN AdfWords |-> adf4002_write(AdfWords[i])]
           last == adf4002_write(LastAdfWord)
           S == AdfAccesses \cup {Set("ADF_CE", 1)}
<1>1. /\ f \in Seq(Chains(AdfAccesses)) /\ f # <<>>
      /\ f[Len(f)] = last
  <2>1. ASSUME NEW i \in 1 .. Len(AdfWords) PROVE f[i] \in Chains(AdfAccesses)
    <3>1. AdfWords[i] \in Words
          BY WordsKnown
    <3>. QED BY <3>1, AdfChain
  <2>2. DOMAIN f = 1 .. Len(AdfWords) /\ Len(AdfWords) \in Nat \ {0}
        BY WordsKnown
  <2>3. Len(f) = Len(AdfWords) /\ f \in Seq(Chains(AdfAccesses))
        BY <2>1, <2>2
  <2>4. f[Len(AdfWords)] = last
        BY <2>2 DEF LastAdfWord
  <2>. QED BY <2>2, <2>3, <2>4
<1>2. last \in Chains(AdfAccesses) /\ Len(last) = TransferLen
      BY WordsKnown, AdfChain
<1> HIDE DEF f, last
<1>3. PICK q : q = FlattenSeq(f)
      OBVIOUS
<1>4. /\ q \in Chains(AdfAccesses)
      /\ q = last \/ \E front \in Chains(AdfAccesses) : q = front \o last
      BY <1>1, <1>3, ChainsFlatten
<1>5. TransferLen \in Nat \ {0}
      BY WordBitsAssumption DEF TransferLen
<1>6. /\ q \in Seq(AdfAccesses) /\ Len(q) \in Nat /\ Len(q) >= TransferLen
      /\ q[Len(q)] = last[TransferLen]
  <2>1. q \in Seq(AdfAccesses) /\ Len(q) \in Nat
        BY <1>4 DEF Chains
  <2>2. CASE q = last
        BY <1>2, <1>5, <2>1, <2>2
  <2>3. ASSUME NEW front \in Chains(AdfAccesses), q = front \o last
        PROVE  Len(q) >= TransferLen /\ q[Len(q)] = last[TransferLen]
    <3>1. front \in Seq(AdfAccesses) /\ last \in Seq(AdfAccesses)
          BY <1>2 DEF Chains
    <3>2. Joined(q, front, last)
          BY <2>3 DEF Joined
    <3>3. /\ Len(q) = Len(front) + Len(last)
          /\ \A j \in 1 .. Len(last) : q[Len(front) + j] = last[j]
          BY <3>1, <3>2, Concatenated
    <3>4. Len(front) \in Nat
          BY <3>1
    <3>. QED BY <1>2, <1>5, <3>3, <3>4
  <2>. QED BY <1>4, <2>1, <2>2, <2>3
<1>7. PICK ce : ce = <<Set("ADF_CE", 1)>>
      OBVIOUS
<1>8. Joined(t, ce, q)
      BY <1>3, <1>7 DEF Joined, adf4002_configure, f
<1>9. /\ ce \in Seq(S) /\ Len(ce) = 1 /\ ce[1] = Set("ADF_CE", 1)
      BY <1>7
<1>10. ce \in Chains(S)
  <2>1. Place(Set("ADF_CE", 1)) = 0
        BY DEF Place, Set
  <2>2. \A i \in 1 .. Len(ce) : Place(ce[i]) = 0
        BY <1>9, <2>1
  <2> HIDE DEF S
  <2>. QED BY <1>9, <2>2, SingleChain
<1>11. t \in Chains(S)
  <2>1. q \in Chains(S)
        BY <1>4, ChainsGrow
  <2> HIDE DEF S
  <2>2. ce \o q \in Chains(S)
        BY <1>10, <2>1, ChainsJoin
  <2>. QED BY <1>8, <2>2 DEF Joined
<1>12. /\ Len(t) = 1 + Len(q)
       /\ t[1] = Set("ADF_CE", 1)
       /\ \A j \in 1 .. Len(q) : t[1 + j] = q[j]
  <2>1. q \in Seq(S)
        BY <1>6
  <2>2. ce \in Seq(S)
        BY <1>9
  <2>3. /\ Len(t) = Len(ce) + Len(q)
        /\ \A j \in 1 .. Len(ce) : t[j] = ce[j]
        /\ \A j \in 1 .. Len(q) : t[Len(ce) + j] = q[j]
        BY <1>8, <2>1, <2>2, Concatenated
  <2> HIDE DEF S
  <2>. QED BY <1>9, <2>3
<1>13. AdfLen = Len(t)
      BY DEF AdfLen
<1>14. ASSUME NEW i \in 2 .. Len(t) PROVE t[i] \in AdfAccesses
  <2>1. PICK j : j = i - 1
        OBVIOUS
  <2>2. j \in 1 .. Len(q) /\ i = 1 + j
        BY <1>6, <1>12, <2>1
  <2>3. t[1 + j] = q[j] /\ q[j] \in AdfAccesses
        BY <1>6, <1>12, <2>2
  <2>. QED BY <2>2, <2>3
<1>15. t[Len(t)] = last[TransferLen]
  <2>1. Len(q) \in 1 .. Len(q)
        BY <1>5, <1>6
  <2>. QED BY <1>6, <1>12, <2>1
<1>16. AdfLen \in Nat /\ AdfLen > TransferLen
      BY <1>5, <1>6, <1>12, <1>13
<1>. QED BY <1>11, <1>12, <1>13, <1>14, <1>15, <1>16 DEF last

LEMMA SysWritesChain ==
  ASSUME NEW words \in Seq(Words), words # <<>>
  PROVE  /\ SysWrites(words) \in Chains(SpiAccesses("sys"))
<1> DEFINE f == [i \in DOMAIN words |-> ad951x_write_reg("sys", words[i])]
<1>1. ASSUME NEW i \in 1 .. Len(words) PROVE f[i] \in Chains(SpiAccesses("sys"))
  <2>1. words[i] \in Words /\ "sys" \in SpiChips
        BY DEF SpiChips
  <2>. QED BY <2>1, SpiChain DEF ad951x_write_reg
<1>2. DOMAIN f = 1 .. Len(words) /\ Len(words) \in Nat \ {0}
      OBVIOUS
<1>3. f \in Seq(Chains(SpiAccesses("sys"))) /\ f # <<>>
      BY <1>1, <1>2
<1>4. SysWrites(words) = FlattenSeq(f)
      BY DEF SysWrites
<1> HIDE DEF f
<1>. QED BY <1>3, <1>4, ChainsFlatten

LEMMA SpiAccess ==
  ASSUME NEW c \in SpiChips, NEW a \in SpiAccesses(c)
  PROVE  /\ a.op = "set" /\ a.chip = c /\ a.at \in 1 .. TransferLen /\ a.word \in Words
         /\ a = spi_txrx(c, a.word)[a.at]
<1>1. PICK w \in Words, j \in 1 .. TransferLen : a = spi_txrx(c, w)[j]
      BY DEF SpiAccesses
<1>2. PICK t : t = spi_txrx(c, w)
      OBVIOUS
<1>3. Transfer(t, c, w)
      BY <1>2, SpiParts
<1>4. PICK p, v : a = Part(p, v, c, w, j)
      BY <1>1, <1>2, <1>3 DEF Transfer
<1>5. a.op = "set" /\ a.chip = c /\ a.at = j /\ a.word = w
      BY <1>4 DEF Part
<1>. QED BY <1>1, <1>5

LEMMA AdfAccess ==
  ASSUME NEW a \in AdfAccesses
  PROVE  /\ a.op = "set" /\ a.chip = "adf" /\ a.at \in 1 .. TransferLen /\ a.word \in Words
         /\ a = adf4002_write(a.word)[a.at]
<1>1. PICK w \in Words, j \in 1 .. TransferLen : a = adf4002_write(w)[j]
      BY DEF AdfAccesses
<1>2. PICK t : t = adf4002_write(w)
      OBVIOUS
<1>3. Transfer(t, "adf", w)
      BY <1>2, AdfParts
<1>4. PICK p, v : a = Part(p, v, "adf", w, j)
      BY <1>1, <1>2, <1>3 DEF Transfer
<1>5. a.op = "set" /\ a.chip = "adf" /\ a.at = j /\ a.word = w
      BY <1>4 DEF Part
<1>. QED BY <1>1, <1>5

LEMMA AccessOps ==
  ASSUME NEW c \in SpiChips, NEW a \in Accesses(c)
  PROVE  a.op \in {"set", "write", "read"}
<1>1. CASE a \in SpiAccesses(c) \cup AdfAccesses
      BY <1>1, SpiAccess, AdfAccess
<1>2. CASE a \in Writes
      BY <1>2 DEF Writes, Write
<1>3. CASE a \in {Set("ADF_CE", 1), Reads}
      BY <1>3 DEF Set, Reads
<1>. QED BY <1>1, <1>2, <1>3 DEF Accesses

(* A program that resets chip c and then talks to it, so far: its jumps go *)
(* to the beginning of a transfer, or d accesses beyond its end. *)
Lands(p, q) == q \in 3 .. Len(p) /\ Place(p[q]) \in {0, 1}

Ahead(p, d) ==
  \A i \in 1 .. Len(p) :
    /\ p[i].op = "skip" => p[i].n \in Nat /\ i + p[i].n = Len(p) + d
    /\ p[i].op = "poll" => /\ p[i].on \in Nat /\ i + p[i].on = Len(p) + d
                           /\ p[i].back \in Nat /\ Lands(p, i - p[i].back)

Resets(c) == {Set(reset_n(c), 0), Set(reset_n(c), 1)}

Addresses(p, c) ==
  /\ p \in Chains(Accesses(c) \cup Jumps \cup Resets(c)) /\ Len(p) > 2
  /\ p[1] = Set(reset_n(c), 0) /\ p[2] = Set(reset_n(c), 1)
  /\ p[3] \in SpiAccesses(c) /\ p[3].at = 1
  /\ \A i \in 3 .. Len(p) : p[i] \in Accesses(c) \cup Jumps

LEMMA AheadJoins ==
  ASSUME NEW c \in SpiChips, NEW p \in Seq(Accesses(c) \cup Jumps \cup Resets(c)),
         NEW b \in Seq(Accesses(c)), NEW d \in Nat, NEW e \in Nat, e = Len(b) + d,
         Ahead(p, e)
  PROVE  Ahead(p \o b, d)
<1>1. PICK q : Joined(q, p, b)
      BY DEF Joined
<1>2. PICK m, n : m = Len(p) /\ n = Len(b) /\ m \in Nat /\ n \in Nat
      OBVIOUS
<1>3. /\ Len(q) = m + n
      /\ \A j \in 1 .. m : q[j] = p[j]
      /\ \A j \in 1 .. n : q[m + j] = b[j]
  <2> DEFINE S == Accesses(c) \cup Jumps \cup Resets(c)
  <2>1. p \in Seq(S) /\ b \in Seq(S)
        OBVIOUS
  <2> HIDE DEF S
  <2>2. /\ Len(q) = Len(p) + Len(b)
        /\ \A j \in 1 .. Len(p) : q[j] = p[j]
        /\ \A j \in 1 .. Len(b) : q[Len(p) + j] = b[j]
        BY <1>1, <2>1, Concatenated
  <2>. QED BY <1>2, <2>2
<1>4. ASSUME NEW i \in 1 .. m + n
      PROVE  /\ q[i].op = "skip" => q[i].n \in Nat /\ i + q[i].n = (m + n) + d
             /\ q[i].op = "poll" => /\ q[i].on \in Nat /\ i + q[i].on = (m + n) + d
                                    /\ q[i].back \in Nat /\ Lands(q, i - q[i].back)
  <2>1. CASE i \in 1 .. m
    <3>1. q[i] = p[i]
          BY <1>3, <2>1
    <3>2. /\ p[i].op = "skip" => p[i].n \in Nat /\ i + p[i].n = m + e
          /\ p[i].op = "poll" => /\ p[i].on \in Nat /\ i + p[i].on = m + e
                                 /\ p[i].back \in Nat /\ Lands(p, i - p[i].back)
          BY <1>2, <2>1 DEF Ahead
    <3>3. m + e = (m + n) + d
          BY <1>2
    <3>4. \A x : Lands(p, x) => Lands(q, x)
          BY <1>2, <1>3 DEF Lands
    <3>. QED BY <3>1, <3>2, <3>3, <3>4
  <2>2. CASE i > m
    <3>1. PICK j : j = i - m
          OBVIOUS
    <3>2. j \in 1 .. n /\ i = m + j
          BY <1>2, <2>2, <3>1
    <3>5. q[m + j] = b[j]
          BY <1>3, <3>2
    <3>6. b[j] \in Accesses(c)
          BY <1>2, <3>2
    <3>3. q[m + j] = b[j] /\ b[j] \in Accesses(c)
          BY <3>5, <3>6
    <3>4. q[i].op \in {"set", "write", "read"}
          BY <3>2, <3>3, AccessOps
    <3>. QED BY <3>4
  <2>. QED BY <1>2, <2>1, <2>2
<1>5. Ahead(q, d)
      BY <1>3, <1>4 DEF Ahead
<1>. QED BY <1>1, <1>5 DEF Joined

LEMMA AddressesJoins ==
  ASSUME NEW c \in SpiChips, NEW p, Addresses(p, c), NEW b \in Chains(Accesses(c) \cup Jumps)
  PROVE  Addresses(p \o b, c)
<1> DEFINE U == Accesses(c) \cup Jumps
           S == U \cup Resets(c)
<1>1. p \in Chains(S) /\ b \in Chains(S)
  <2>1. Chains(U) \subseteq Chains(S)
        BY ChainsGrow
  <2>. QED BY <2>1 DEF Addresses
<1>2. p \o b \in Chains(S)
  <2> HIDE DEF S
  <2>. QED BY <1>1, ChainsJoin
<1>3. PICK q : Joined(q, p, b)
      BY DEF Joined
<1>4. PICK m, n : m = Len(p) /\ n = Len(b)
      OBVIOUS
<1>5. m \in Nat /\ m > 2 /\ n \in Nat
      BY <1>1, <1>4 DEF Addresses, Chains
<1>6. /\ Len(q) = m + n
      /\ \A j \in 1 .. m : q[j] = p[j]
      /\ \A j \in 1 .. n : q[m + j] = b[j]
  <2>1. p \in Seq(S) /\ b \in Seq(S)
        BY <1>1 DEF Chains
  <2> HIDE DEF S
  <2>2. /\ Len(q) = Len(p) + Len(b)
        /\ \A j \in 1 .. Len(p) : q[j] = p[j]
        /\ \A j \in 1 .. Len(b) : q[Len(p) + j] = b[j]
        BY <1>3, <2>1, Concatenated
  <2>. QED BY <1>4, <2>2
<1>7. q[1] = p[1] /\ q[2] = p[2] /\ q[3] = p[3]
      BY <1>5, <1>6
<1>8. ASSUME NEW i \in 3 .. m + n PROVE q[i] \in U
  <2>1. CASE i <= m
        BY <1>4, <1>5, <1>6, <2>1 DEF Addresses
  <2>2. CASE i > m
    <3>1. PICK j : j = i - m
          OBVIOUS
    <3>2. j \in 1 .. n /\ i = m + j
          BY <1>5, <2>2, <3>1
    <3>3. b[j] \in U
      <4>1. b \in Seq(U)
            BY DEF Chains
      <4> HIDE DEF U
      <4>. QED BY <1>4, <3>2, <4>1
    <3> HIDE DEF U
    <3>. QED BY <1>6, <3>2, <3>3
  <2>. QED BY <1>5, <2>1, <2>2
<1>9. q \in Chains(S)
      BY <1>2, <1>3 DEF Joined
<1>10. Addresses(q, c)
      BY <1>5, <1>6, <1>7, <1>8, <1>9 DEF Addresses
<1>. QED BY <1>3, <1>10 DEF Joined

(* The reset of a chip and the first access of a program to it. *)
LEMMA ResetsFirst ==
  ASSUME NEW c \in SpiChips, NEW b \in Chains(SpiAccesses(c)), b[1].at = 1
  PROVE  /\ Addresses(<<Set(reset_n(c), 0), Set(reset_n(c), 1)>> \o b, c)
         /\ \A d \in Nat : Ahead(<<Set(reset_n(c), 0), Set(reset_n(c), 1)>> \o b, d)
<1> DEFINE S == Accesses(c) \cup Jumps \cup Resets(c)
<1>1. PICK r : r = <<Set(reset_n(c), 0), Set(reset_n(c), 1)>>
      OBVIOUS
<1>2. PICK p : Joined(p, r, b)
      BY DEF Joined
<1>3. /\ r \in Seq(S) /\ Len(r) = 2 /\ r[1] = Set(reset_n(c), 0) /\ r[2] = Set(reset_n(c), 1)
      BY <1>1 DEF Resets
<1>4. \A i \in 1 .. Len(r) : r[i].op = "set" /\ Place(r[i]) = 0
      BY <1>3 DEF Place, Set
<1>5. b \in Chains(S) /\ b \in Seq(S)
  <2>1. Chains(SpiAccesses(c)) \subseteq Chains(S)
        BY ChainsGrow DEF Accesses
  <2>. QED BY <2>1 DEF Chains
<1>6. b \in Seq(SpiAccesses(c)) /\ Len(b) \in Nat \ {0}
      BY DEF Chains
<1>7. p \in Chains(S)
  <2>3. r \in Seq(S) /\ Len(r) \in Nat \ {0}
        BY <1>3
  <2>4. \A i \in 1 .. Len(r) : Place(r[i]) = 0
        BY <1>4
  <2> HIDE DEF S
  <2>1. r \in Chains(S)
        BY <2>3, <2>4, SingleChain
  <2>2. r \o b \in Chains(S)
        BY <1>5, <2>1, ChainsJoin
  <2>. QED BY <1>2, <2>2 DEF Joined
<1>8. PICK n : n = Len(b) /\ n \in Nat \ {0}
      BY <1>6
<1>9. /\ Len(p) = 2 + n
      /\ p[1] = r[1] /\ p[2] = r[2]
      /\ \A j \in 1 .. n : p[2 + j] = b[j]
  <2> HIDE DEF S
  <2>1. r \in Seq(S) /\ b \in Seq(S)
        BY <1>3, <1>5
  <2>2. /\ Len(p) = Len(r) + Len(b)
        /\ \A j \in 1 .. Len(r) : p[j] = r[j]
        /\ \A j \in 1 .. Len(b) : p[Len(r) + j] = b[j]
        BY <1>2, <2>1, Concatenated
  <2>. QED BY <1>3, <1>8, <2>2
<1>10. ASSUME NEW i \in 3 .. Len(p)
       PROVE  p[i] \in SpiAccesses(c) /\ p[i].op = "set"
  <2>1. PICK j : j = i - 2
        OBVIOUS
  <2>2. j \in 1 .. n /\ i = 2 + j
        BY <1>8, <1>9, <2>1
  <2>3. p[2 + j] = b[j]
        BY <1>9, <2>2
  <2>4. b[j] \in SpiAccesses(c)
        BY <1>6, <1>8, <2>2
  <2>. QED BY <2>2, <2>3, <2>4, SpiAccess
<1>11. p[3] = b[1] /\ Len(p) > 2
  <2>1. p[2 + 1] = b[1]
        BY <1>8, <1>9
  <2>. QED BY <1>8, <1>9, <2>1
<1>12. Addresses(p, c)
  <2>1. 3 \in 3 .. Len(p)
        BY <1>8, <1>9
  <2>2. p[3] \in SpiAccesses(c) /\ p[3].at = 1
        BY <1>10, <1>11, <2>1
  <2>3. \A i \in 3 .. Len(p) : p[i] \in Accesses(c) \cup Jumps
        BY <1>10 DEF Accesses
  <2>. QED BY <1>3, <1>7, <1>9, <1>11, <2>2, <2>3 DEF Addresses
<1>13. ASSUME NEW i \in 1 .. Len(p) PROVE p[i].op = "set"
  <2>1. CASE i \in {1, 2}
        BY <1>3, <1>4, <1>9, <2>1
  <2>2. CASE i \notin {1, 2}
    <3>1. i \in 3 .. Len(p)
          BY <1>8, <1>9, <2>2
    <3>. QED BY <1>10, <3>1
  <2>. QED BY <2>1, <2>2
<1>14. \A d \in Nat : Ahead(p, d)
      BY <1>13 DEF Ahead
<1>. QED BY <1>1, <1>2, <1>12, <1>14 DEF Joined

(* The first access of a transfer. *)
LEMMA SysWritesBegin ==
  ASSUME NEW words \in Seq(Words), words # <<>>
  PROVE  SysWrites(words)[1].at = 1
<1>1. SysWrites(words) \in Chains(SpiAccesses("sys"))
      BY SysWritesChain
<1>2. PICK s : s = SysWrites(words)
      OBVIOUS
<1>3. s \in Seq(SpiAccesses("sys")) /\ Len(s) \in Nat \ {0} /\ Place(s[1]) \in {0, 1}
      BY <1>1, <1>2 DEF Chains
<1>4. s[1] \in SpiAccesses("sys") /\ "sys" \in SpiChips
      BY <1>3 DEF SpiChips
<1>5. s[1].op = "set" /\ s[1].at \in 1 .. TransferLen
      BY <1>4, SpiAccess
<1>. QED BY <1>2, <1>3, <1>5 DEF Place

(* One jump at the end of a program. *)
LEMMA JumpJoins ==
  ASSUME NEW c \in SpiChips, NEW p, Addresses(p, c), NEW a \in Jumps,
         NEW d \in Nat, NEW e \in Nat, e = d + 1, Ahead(p, e),
         a.op = "skip" => a.n = d,
         a.op = "poll" => a.on = d /\ Lands(p, (Len(p) + 1) - a.back)
  PROVE  Addresses(p \o <<a>>, c) /\ Ahead(p \o <<a>>, d)
<1> DEFINE S == Accesses(c) \cup Jumps
           U == S \cup Resets(c)
<1>1. PICK b : b = <<a>>
      OBVIOUS
<1>2. b \in Seq(S) /\ Len(b) = 1 /\ b[1] = a /\ b \in Seq(U)
      BY <1>1
<1>3. a.op \in {"skip", "poll"} /\ (a.op = "skip" => a.n \in Nat)
      /\ (a.op = "poll" => a.on \in Nat /\ a.back \in Nat)
      BY DEF Jumps, Skip, Poll
<1>4. b \in Chains(S)
  <2>1. \A i \in 1 .. Len(b) : Place(b[i]) = 0
        BY <1>2, <1>3 DEF Place
  <2>2. b \in Seq(S) /\ Len(b) \in Nat \ {0}
        BY <1>2
  <2> HIDE DEF S
  <2>. QED BY <2>1, <2>2, SingleChain
<1>5. Addresses(p \o b, c)
      BY <1>4, AddressesJoins
<1>6. PICK q : Joined(q, p, b)
      BY DEF Joined
<1>7. PICK m : m = Len(p) /\ m \in Nat
  <2>1. Len(p) \in Nat
        BY DEF Addresses, Chains
  <2>. QED BY <2>1
<1>8. /\ Len(q) = m + 1
      /\ \A j \in 1 .. m : q[j] = p[j]
      /\ q[m + 1] = a
  <2>1. p \in Seq(U)
        BY DEF Addresses, Chains
  <2> HIDE DEF S, U
  <2>2. b \in Seq(U)
        BY <1>2
  <2>3. /\ Len(q) = Len(p) + Len(b)
        /\ \A j \in 1 .. Len(p) : q[j] = p[j]
        /\ \A j \in 1 .. Len(b) : q[Len(p) + j] = b[j]
        BY <1>6, <2>1, <2>2, Concatenated
  <2>. QED BY <1>2, <1>7, <2>3
<1>9. \A x : Lands(p, x) => Lands(q, x)
      BY <1>7, <1>8 DEF Lands
<1>10. ASSUME NEW i \in 1 .. m + 1
       PROVE  /\ q[i].op = "skip" => q[i].n \in Nat /\ i + q[i].n = (m + 1) + d
              /\ q[i].op = "poll" => /\ q[i].on \in Nat /\ i + q[i].on = (m + 1) + d
                                     /\ q[i].back \in Nat /\ Lands(q, i - q[i].back)
  <2>1. CASE i \in 1 .. m
    <3>1. q[i] = p[i]
          BY <1>8, <2>1
    <3>2. /\ p[i].op = "skip" => p[i].n \in Nat /\ i + p[i].n = m + e
          /\ p[i].op = "poll" => /\ p[i].on \in Nat /\ i + p[i].on = m + e
                                 /\ p[i].back \in Nat /\ Lands(p, i - p[i].back)
          BY <1>7, <2>1 DEF Ahead
    <3>3. m + e = (m + 1) + d
          BY <1>7
    <3>. QED BY <1>9, <3>1, <3>2, <3>3
  <2>2. CASE i = m + 1
    <3>1. q[i] = a
          BY <1>8, <2>2
    <3>. QED BY <1>3, <1>7, <1>9, <2>2, <3>1
  <2>. QED BY <1>7, <2>1, <2>2
<1>11. Ahead(q, d)
      BY <1>8, <1>10 DEF Ahead
<1>. QED BY <1>1, <1>5, <1>6, <1>11 DEF Joined

LEMMA TransfersJoin ==
  ASSUME NEW c \in SpiChips, NEW p, Addresses(p, c), NEW b \in Chains(SpiAccesses(c)),
         NEW d \in Nat, NEW e \in Nat, e = Len(b) + d, Ahead(p, e)
  PROVE  Addresses(p \o b, c) /\ Ahead(p \o b, d)
<1>1. b \in Chains(Accesses(c) \cup Jumps) /\ b \in Seq(Accesses(c))
  <2>1. /\ Chains(SpiAccesses(c)) \subseteq Chains(Accesses(c) \cup Jumps)
        /\ Chains(SpiAccesses(c)) \subseteq Chains(Accesses(c))
        BY ChainsGrow DEF Accesses
  <2>. QED BY <2>1 DEF Chains
<1>2. p \in Seq(Accesses(c) \cup Jumps \cup Resets(c))
      BY DEF Addresses, Chains
<1>3. Addresses(p \o b, c)
      BY <1>1, AddressesJoins
<1>4. Ahead(p \o b, d)
      BY <1>1, <1>2, AheadJoins
<1>. QED BY <1>3, <1>4

LEMMA Ad9516Init == Addresses(ad9516_init, "sys") /\ Ahead(ad9516_init, 0)
<1> DEFINE first == SysRegs[1]
           two   == SysWrites(<<first, first>>)
           rd    == ad951x_read_reg("sys")
           id    == rd \o rd
           table == SysWrites(SysRegs \o <<first, first>>)
           sync  == SysWrites(<<first, first, first, first>>)
           N     == Len(table) + Len(rd) + 1 + Len(sync)
           r     == <<Set("PLL_SYS_RESET_N", 0), Set("PLL_SYS_RESET_N", 1)>>
           C     == Chains(SpiAccesses("sys"))
           p1 == r \o two
           p2 == p1 \o id
           p3 == p2 \o <<Skip(N)>>
           p4 == p3 \o table
           p5 == p4 \o rd
           p6 == p5 \o <<Poll(Len(rd), Len(sync))>>
           p7 == p6 \o sync
<1>0. "sys" \in SpiChips /\ reset_n("sys") = "PLL_SYS_RESET_N"
      BY DEF SpiChips, reset_n
<1>1. two \in C /\ table \in C /\ sync \in C /\ two[1].at = 1
  <2>1. /\ <<first, first>> \in Seq(Words) /\ <<first, first>> # <<>>
        /\ <<first, first, first, first>> \in Seq(Words)
        /\ <<first, first, first, first>> # <<>>
        BY WordsKnown
  <2>2. SysRegs \o <<first, first>> \in Seq(Words) /\ SysRegs \o <<first, first>> # <<>>
        BY <2>1, WordsKnown
  <2>. QED BY <2>1, <2>2, SysWritesChain, SysWritesBegin
<1>2. rd \in C
      BY <1>0, WordsKnown, SpiChain DEF ad951x_read_reg
<1>3. id \in C
  <2> HIDE DEF rd
  <2>. QED BY <1>2, ChainsJoin
<1>4. /\ Len(table) \in Nat /\ Len(rd) \in Nat \ {0} /\ Len(sync) \in Nat /\ Len(id) \in Nat
      /\ Place(rd[1]) \in {0, 1}
  <2> HIDE DEF rd, table, sync, id
  <2>. QED BY <1>1, <1>2, <1>3 DEF Chains
<1>5. ad9516_init = p7
      BY DEF ad9516_init
<1> HIDE DEF first, two, rd, id, table, sync, r
<1>6. Addresses(p1, "sys") /\ \A d \in Nat : Ahead(p1, d)
      BY <1>0, <1>1, ResetsFirst DEF r
<1>7. N \in Nat
      BY <1>4
<1> HIDE DEF p1
<1>8. Addresses(p2, "sys") /\ Ahead(p2, N + 1)
  <2>1. Ahead(p1, Len(id) + (N + 1)) /\ N + 1 \in Nat /\ Len(id) + (N + 1) \in Nat
        BY <1>4, <1>6, <1>7
  <2> HIDE DEF N
  <2>. QED BY <1>0, <1>3, <1>6, <2>1, TransfersJoin
<1> HIDE DEF p2
<1>9. Addresses(p3, "sys") /\ Ahead(p3, N)
  <2> HIDE DEF N
  <2>1. /\ Skip(N) \in Jumps /\ Skip(N).op = "skip" /\ Skip(N).n = N
        BY <1>7 DEF Jumps, Skip
  <2>. QED BY <1>0, <1>7, <1>8, <2>1, JumpJoins
<1> HIDE DEF p3
<1> DEFINE M == Len(rd) + (1 + Len(sync))
<1>10. Addresses(p4, "sys") /\ Ahead(p4, M)
  <2>1. N = Len(table) + M /\ M \in Nat
        BY <1>4
  <2> HIDE DEF N, M
  <2>. QED BY <1>0, <1>1, <1>7, <1>9, <2>1, TransfersJoin
<1> HIDE DEF p4
<1>11. Addresses(p5, "sys") /\ Ahead(p5, 1 + Len(sync))
  <2>1. 1 + Len(sync) \in Nat /\ M \in Nat
        BY <1>4
  <2>. QED BY <1>0, <1>2, <1>10, <2>1, TransfersJoin
<1>12. Lands(p5, (Len(p5) + 1) - Len(rd))
  <2> DEFINE S == Accesses("sys") \cup Jumps \cup Resets("sys")
  <2>1. PICK q : Joined(q, p4, rd)
        BY DEF Joined
  <2>2. p4 \in Seq(S)
        BY <1>10 DEF Addresses, Chains
  <2>3. rd \in Seq(S)
    <3>1. rd \in Seq(SpiAccesses("sys"))
          BY <1>2 DEF Chains
    <3>2. SpiAccesses("sys") \subseteq S
          BY DEF Accesses
    <3> HIDE DEF S
    <3>. QED BY <3>1, <3>2
  <2> HIDE DEF S
  <2>4. /\ Len(q) = Len(p4) + Len(rd)
        /\ \A j \in 1 .. Len(rd) : q[Len(p4) + j] = rd[j]
        BY <2>1, <2>2, <2>3, Concatenated
  <2>5. Len(p4) \in Nat /\ Len(p4) > 2
        BY <1>10, <2>2 DEF Addresses
  <2>6. (Len(q) + 1) - Len(rd) = Len(p4) + 1 /\ Len(p4) + 1 \in 3 .. Len(q)
        BY <1>4, <2>4, <2>5
  <2>7. q[Len(p4) + 1] = rd[1]
        BY <1>4, <2>4
  <2>8. Lands(q, (Len(q) + 1) - Len(rd))
        BY <1>4, <2>6, <2>7 DEF Lands
  <2>. QED BY <2>1, <2>8 DEF Joined
<1> HIDE DEF p5
<1>13. Addresses(p6, "sys") /\ Ahead(p6, Len(sync))
  <2> DEFINE a == Poll(Len(rd), Len(sync))
  <2>1. /\ a \in Jumps /\ a.op = "poll" /\ a.on = Len(sync) /\ a.back = Len(rd)
    <3>1. a = Poll(<<Len(rd), Len(sync)>>[1], <<Len(rd), Len(sync)>>[2])
          OBVIOUS
    <3>2. <<Len(rd), Len(sync)>> \in Nat \X Nat
          BY <1>4
    <3>3. a \in Jumps
          BY <3>1, <3>2 DEF Jumps
    <3>. QED BY <3>3 DEF Poll
  <2>2. 1 + Len(sync) = Len(sync) + 1 /\ Len(sync) \in Nat /\ Len(sync) + 1 \in Nat
        BY <1>4
  <2>3. p6 = p5 \o <<a>>
        OBVIOUS
  <2> HIDE DEF a, p6
  <2>4. /\ a.op = "skip" => a.n = Len(sync)
        /\ a.op = "poll" => a.on = Len(sync) /\ Lands(p5, (Len(p5) + 1) - a.back)
        BY <1>12, <2>1
  <2>. QED BY <1>0, <1>11, <2>1, <2>2, <2>3, <2>4, JumpJoins
<1> HIDE DEF p6
<1>14. Addresses(p7, "sys") /\ Ahead(p7, 0)
  <2>1. Len(sync) = Len(sync) + 0 /\ Len(sync) \in Nat
        BY <1>4
  <2>. QED BY <1>0, <1>1, <1>13, <2>1, TransfersJoin
<1>. QED BY <1>5, <1>14

LEMMA Ad9510Init == Addresses(ad9510_init, "vcxo") /\ Ahead(ad9510_init, 0)
                    /\ ~Inside(ad9510_init[Len(ad9510_init)])
<1>1. "vcxo" \in SpiChips /\ reset_n("vcxo") = "PLL_VCXO_FUNCTION"
      BY DEF SpiChips, reset_n
<1>2. PICK t : t = spi_txrx("vcxo", SysRegs[1])
      OBVIOUS
<1>3. t \in Chains(SpiAccesses("vcxo")) /\ SysRegs[1] \in Words
      BY <1>1, <1>2, WordsKnown, SpiChain
<1>4. t[1].at = 1
  <2>1. t[1] = Part("PLL_SCLK", 0, "vcxo", SysRegs[1], 1)
        BY <1>1, <1>2, <1>3, SpiParts
  <2>. QED BY <2>1 DEF Part
<1>5. ad9510_init = <<Set("PLL_VCXO_FUNCTION", 0), Set("PLL_VCXO_FUNCTION", 1)>> \o t
      BY <1>2 DEF ad9510_init, ad951x_write_reg
<1>6. Addresses(ad9510_init, "vcxo") /\ Ahead(ad9510_init, 0)
      BY <1>1, <1>3, <1>4, <1>5, ResetsFirst
<1>. QED BY <1>6 DEF Addresses, Chains

(* Jumps and what skips an access go to the beginning of a transfer, to an *)
(* access outside of them, or to the end. *)
Reaches(p, q) == q = Len(p) + 1 \/ Lands(p, q)

JumpsLand(p) ==
  \A i \in 1 .. Len(p) :
    /\ p[i].op = "skip" => p[i].n \in Nat /\ Reaches(p, i + 1 + p[i].n)
    /\ p[i].op = "poll" => /\ p[i].on \in Nat /\ Reaches(p, i + 1 + p[i].on)
                           /\ p[i].back \in Nat /\ Reaches(p, i - p[i].back)
    /\ p[i].op = "halt" => Reaches(p, i + 2)

LEMMA AddressesOps ==
  ASSUME NEW c \in SpiChips, NEW p, Addresses(p, c), NEW i \in 1 .. Len(p)
  PROVE  p[i].op \in {"set", "write", "read", "skip", "poll"}
<1>1. p[i] \in Accesses(c) \cup Jumps \cup Resets(c)
  <2>1. p \in Seq(Accesses(c) \cup Jumps \cup Resets(c))
        BY DEF Addresses, Chains
  <2>. QED BY <2>1
<1>2. CASE p[i] \in Accesses(c)
      BY <1>2, AccessOps
<1>3. CASE p[i] \in Jumps
      BY <1>3 DEF Jumps, Skip, Poll
<1>4. CASE p[i] \in Resets(c)
      BY <1>4 DEF Resets, Set
<1>. QED BY <1>1, <1>2, <1>3, <1>4

LEMMA AheadLands ==
  ASSUME NEW c \in SpiChips, NEW p, Addresses(p, c), Ahead(p, 0)
  PROVE  JumpsLand(p)
<1>1. Len(p) \in Nat
      BY DEF Addresses, Chains
<1>2. ASSUME NEW i \in 1 .. Len(p)
      PROVE  /\ p[i].op = "skip" => p[i].n \in Nat /\ Reaches(p, i + 1 + p[i].n)
             /\ p[i].op = "poll" => /\ p[i].on \in Nat /\ Reaches(p, i + 1 + p[i].on)
                                    /\ p[i].back \in Nat /\ Reaches(p, i - p[i].back)
             /\ p[i].op # "halt"
  <2>1. p[i].op # "halt"
        BY AddressesOps
  <2>2. /\ p[i].op = "skip" => p[i].n \in Nat /\ i + p[i].n = Len(p) + 0
        /\ p[i].op = "poll" => /\ p[i].on \in Nat /\ i + p[i].on = Len(p) + 0
                               /\ p[i].back \in Nat /\ Lands(p, i - p[i].back)
        BY DEF Ahead
  <2>3. CASE p[i].op = "skip"
    <3>0. PICK x, y : x = p[i].n /\ y = Len(p)
          OBVIOUS
    <3>2. x \in Nat /\ y \in Nat /\ i + x = y + 0
          BY <1>1, <2>2, <2>3, <3>0
    <3>3. i + 1 + x = y + 1
          BY <3>2
    <3>1. i + 1 + p[i].n = Len(p) + 1
          BY <3>0, <3>3
    <3>. QED BY <2>1, <2>2, <2>3, <3>1 DEF Reaches
  <2>4. CASE p[i].op = "poll"
    <3>0. PICK x, y : x = p[i].on /\ y = Len(p)
          OBVIOUS
    <3>2. x \in Nat /\ y \in Nat /\ i + x = y + 0
          BY <1>1, <2>2, <2>4, <3>0
    <3>3. i + 1 + x = y + 1
          BY <3>2
    <3>1. i + 1 + p[i].on = Len(p) + 1
          BY <3>0, <3>3
    <3>. QED BY <2>1, <2>2, <2>4, <3>1 DEF Reaches
  <2>. QED BY <2>1, <2>3, <2>4
<1>. QED BY <1>2 DEF JumpsLand

LEMMA JumpsLandJoins ==
  ASSUME NEW c \in SpiChips, NEW p, Addresses(p, c), JumpsLand(p),
         NEW b \in Chains(Accesses(c))
  PROVE  Addresses(p \o b, c) /\ JumpsLand(p \o b)
<1>1. b \in Chains(Accesses(c) \cup Jumps) /\ b \in Seq(Accesses(c))
  <2>1. Chains(Accesses(c)) \subseteq Chains(Accesses(c) \cup Jumps)
        BY ChainsGrow
  <2>. QED BY <2>1 DEF Chains
<1>2. Addresses(p \o b, c)
      BY <1>1, AddressesJoins
<1>3. PICK q : Joined(q, p, b)
      BY DEF Joined
<1>4. PICK m, n : m = Len(p) /\ n = Len(b) /\ m \in Nat /\ m > 2 /\ n \in Nat \ {0}
      BY DEF Addresses, Chains
<1>5. /\ Len(q) = m + n
      /\ \A j \in 1 .. m : q[j] = p[j]
      /\ \A j \in 1 .. n : q[m + j] = b[j]
  <2> DEFINE S == Accesses(c) \cup Jumps \cup Resets(c)
  <2>1. p \in Seq(S)
        BY DEF Addresses, Chains
  <2>2. b \in Seq(S)
        BY <1>1
  <2> HIDE DEF S
  <2>3. /\ Len(q) = Len(p) + Len(b)
        /\ \A j \in 1 .. Len(p) : q[j] = p[j]
        /\ \A j \in 1 .. Len(b) : q[Len(p) + j] = b[j]
        BY <1>3, <2>1, <2>2, Concatenated
  <2>. QED BY <1>4, <2>3
<1>6. ASSUME NEW x, Reaches(p, x) PROVE Reaches(q, x)
  <2>1. CASE Lands(p, x)
        BY <1>4, <1>5, <2>1 DEF Lands, Reaches
  <2>2. CASE x = m + 1
    <3>1. q[m + 1] = b[1] /\ x \in 3 .. Len(q)
          BY <1>4, <1>5, <2>2
    <3>2. Place(b[1]) \in {0, 1}
          BY DEF Chains
    <3>. QED BY <2>2, <3>1, <3>2 DEF Lands, Reaches
  <2>. QED BY <1>4, <1>6, <2>1, <2>2 DEF Reaches
<1>7. ASSUME NEW i \in 1 .. m + n
      PROVE  /\ q[i].op = "skip" => q[i].n \in Nat /\ Reaches(q, i + 1 + q[i].n)
             /\ q[i].op = "poll" => /\ q[i].on \in Nat /\ Reaches(q, i + 1 + q[i].on)
                                    /\ q[i].back \in Nat /\ Reaches(q, i - q[i].back)
             /\ q[i].op = "halt" => Reaches(q, i + 2)
  <2>1. CASE i \in 1 .. m
    <3>1. q[i] = p[i]
          BY <1>5, <2>1
    <3>2. /\ p[i].op = "skip" => p[i].n \in Nat /\ Reaches(p, i + 1 + p[i].n)
          /\ p[i].op = "poll" => /\ p[i].on \in Nat /\ Reaches(p, i + 1 + p[i].on)
                                 /\ p[i].back \in Nat /\ Reaches(p, i - p[i].back)
          /\ p[i].op = "halt" => Reaches(p, i + 2)
          BY <1>4, <2>1 DEF JumpsLand
    <3>. QED BY <1>6, <3>1, <3>2
  <2>2. CASE i > m
    <3>1. PICK j : j = i - m
          OBVIOUS
    <3>2. j \in 1 .. n /\ i = m + j
          BY <1>4, <2>2, <3>1
    <3>3. q[m + j] = b[j]
          BY <1>5, <3>2
    <3>4. b[j] \in Accesses(c)
          BY <1>1, <1>4, <3>2
    <3>5. q[i].op \in {"set", "write", "read"}
          BY <3>2, <3>3, <3>4, AccessOps
    <3>. QED BY <3>5
  <2>. QED BY <1>4, <2>1, <2>2
<1>8. JumpsLand(q)
      BY <1>5, <1>7 DEF JumpsLand
<1>. QED BY <1>2, <1>3, <1>8 DEF Joined

LEMMA WriteAccess ==
  ASSUME NEW r \in Registers, NEW v \in Values[r]
  PROVE  /\ Write(r, v) \in Writes /\ Place(Write(r, v)) = 0
         /\ \A c : Write(r, v) \in Accesses(c)
BY DEF Writes, Accesses, Place, Write

(* Lists of settings. *)
LEMMA Settings ==
  /\ reset_core \in Chains(Writes) /\ Len(reset_core) = 4
  /\ set_center_freq \in Chains(Writes) /\ Len(set_center_freq) = 2
<1>1. /\ Write("RSTR", "PLL_RST") \in Writes /\ Place(Write("RSTR", "PLL_RST")) = 0
      /\ Write("RSTR", "SW_RST") \in Writes /\ Place(Write("RSTR", "SW_RST")) = 0
      /\ Write("RSTR", "0") \in Writes /\ Place(Write("RSTR", "0")) = 0
      /\ Write("FREQ_HI", "tune") \in Writes /\ Place(Write("FREQ_HI", "tune")) = 0
      /\ Write("FREQ_LO", "tune") \in Writes /\ Place(Write("FREQ_LO", "tune")) = 0
      BY WriteAccess DEF Registers, Values
<1>2. reset_core \in Chains(Writes) /\ Len(reset_core) = 4
  <2>1. /\ reset_core \in Seq(Writes) /\ Len(reset_core) = 4 /\ Len(reset_core) \in Nat \ {0}
        /\ \A i \in 1 .. Len(reset_core) : Place(reset_core[i]) = 0
        BY <1>1 DEF reset_core
  <2>. QED BY <2>1, SingleChain
<1>3. set_center_freq \in Chains(Writes) /\ Len(set_center_freq) = 2
  <2>1. /\ set_center_freq \in Seq(Writes) /\ Len(set_center_freq) = 2
        /\ Len(set_center_freq) \in Nat \ {0}
        /\ \A i \in 1 .. Len(set_center_freq) : Place(set_center_freq[i]) = 0
        BY <1>1 DEF set_center_freq
  <2>. QED BY <2>1, SingleChain
<1>. QED BY <1>2, <1>3

LEMMA BringUp == Addresses(bring_up, "sys") /\ JumpsLand(bring_up)
<1> DEFINE six == <<Write("GAIN", "3000"), Write("CR", "TEST"), Write("RSTR", "SW_RST"),
                    Write("RSTR", "0"), Write("PIR", "gains"), Write("CR", "MASTER_0")>>
           p1 == ad9516_init \o reset_core
           p2 == p1 \o set_center_freq
           p3 == p2 \o adf4002_configure
           p4 == p3 \o six
           S  == Accesses("sys")
<1>0. "sys" \in SpiChips
      BY DEF SpiChips
<1>1. /\ Write("GAIN", "3000") \in S /\ Write("CR", "TEST") \in S
      /\ Write("RSTR", "SW_RST") \in S /\ Write("RSTR", "0") \in S
      /\ Write("PIR", "gains") \in S /\ Write("CR", "MASTER_0") \in S
      BY WriteAccess DEF Registers, Values
<1>2. six \in Seq(S) /\ Len(six) \in Nat \ {0}
  <2> HIDE DEF S
  <2>. QED BY <1>1
<1>3. \A i \in 1 .. Len(six) : Place(six[i]) = 0
  <2>1. ASSUME NEW i \in 1 .. 6 PROVE Place(six[i]) = 0
    <3>1. six[i].op = "write"
          BY DEF Write
    <3> HIDE DEF six
    <3>. QED BY <3>1 DEF Place
  <2>. QED BY <2>1
<1> HIDE DEF six
<1>4. six \in Chains(S)
  <2> HIDE DEF S
  <2>. QED BY <1>2, <1>3, SingleChain
<1>5. /\ reset_core \in Chains(S) /\ set_center_freq \in Chains(S)
      /\ adf4002_configure \in Chains(S)
  <2>1. Writes \subseteq S /\ AdfAccesses \cup {Set("ADF_CE", 1)} \subseteq S
        BY DEF Accesses
  <2> HIDE DEF S
  <2>. QED BY <2>1, ChainsGrow, Settings, AdfConfigure
<1>6. Addresses(ad9516_init, "sys") /\ JumpsLand(ad9516_init)
      BY <1>0, Ad9516Init, AheadLands
<1>7. bring_up = p4
      BY DEF bring_up, six
<1>8. Addresses(p1, "sys") /\ JumpsLand(p1)
      BY <1>0, <1>5, <1>6, JumpsLandJoins
<1> HIDE DEF p1
<1>9. Addresses(p2, "sys") /\ JumpsLand(p2)
      BY <1>0, <1>5, <1>8, JumpsLandJoins
<1> HIDE DEF p2
<1>10. Addresses(p3, "sys") /\ JumpsLand(p3)
      BY <1>0, <1>5, <1>9, JumpsLandJoins
<1> HIDE DEF p3
<1>11. Addresses(p4, "sys") /\ JumpsLand(p4)
      BY <1>0, <1>4, <1>10, JumpsLandJoins
<1>. QED BY <1>7, <1>11

(* The accesses of rf_init. *)
InitAccesses == Writes \cup AdfAccesses \cup {Set("ADF_CE", 1), Halt, Release}

(* The beginning of rf_init, the same for both modes. *)
Beginning(e) ==
  /\ e[1] = Write("CR", "0")
  /\ e[2] = Write("RSTR", "PLL_RST") /\ e[3] = Write("RSTR", "0")
  /\ e[4] = Write("RSTR", "SW_RST") /\ e[5] = Write("RSTR", "0")
  /\ e[6] = Halt /\ e[7] = Release
  /\ e[8] = Write("FREQ_HI", "tune") /\ e[9] = Write("FREQ_LO", "tune")
  /\ e[10] = Set("ADF_CE", 1)
  /\ \A i \in 11 .. AdfLen + 9 : e[i] \in AdfAccesses
  /\ e[AdfLen + 9] = adf4002_write(LastAdfWord)[TransferLen]
  /\ e[AdfLen + 10] = Write("GAIN", "3000")
  /\ e[AdfLen + 11] = Write("MACH", "mac") /\ e[AdfLen + 12] = Write("MACL", "mac")

LEMMA InitAccess ==
  ASSUME NEW r \in Registers, NEW v \in Values[r]
  PROVE  Write(r, v) \in InitAccesses /\ Place(Write(r, v)) = 0
BY WriteAccess DEF InitAccesses

Opening == <<Write("CR", "0")>> \o Defaults

LEMMA DefaultsParts ==
  ASSUME NEW e, e = Opening
  PROVE  e \in Chains(InitAccesses) /\ Len(e) = AdfLen + 12 /\ Beginning(e)
<1> DEFINE S == InitAccesses
<1>1. PICK rc, sp, fr, adf, three, cr :
        /\ rc = reset_core /\ sp = spec_load_lm32 /\ fr = set_center_freq
        /\ adf = adf4002_configure
        /\ three = <<Write("GAIN", "3000"), Write("MACH", "mac"), Write("MACL", "mac")>>
        /\ cr = <<Write("CR", "0")>>
      OBVIOUS
<1>2. PICK u1, u2, u3, u4 : /\ Joined(u1, rc, sp) /\ Joined(u2, u1, fr)
                            /\ Joined(u3, u2, adf) /\ Joined(u4, u3, three)
      BY DEF Joined
<1>3. Joined(e, cr, u4)
      BY <1>1, <1>2 DEF Defaults, Opening, Joined
<1>4. /\ Write("RSTR", "PLL_RST") \in S /\ Write("RSTR", "SW_RST") \in S
      /\ Write("RSTR", "0") \in S /\ Write("FREQ_HI", "tune") \in S
      /\ Write("FREQ_LO", "tune") \in S /\ Write("GAIN", "3000") \in S
      /\ Write("MACH", "mac") \in S /\ Write("MACL", "mac") \in S
      /\ Write("CR", "0") \in S /\ Halt \in S /\ Release \in S
  <2>1. Halt \in S /\ Release \in S
        BY DEF InitAccesses
  <2>. QED BY <2>1, InitAccess DEF Registers, Values
<1>5. ASSUME NEW a \in S, a.op # "set" PROVE Place(a) = 0
      BY <1>5 DEF Place
<1>6. /\ Write("RSTR", "PLL_RST").op # "set" /\ Write("RSTR", "SW_RST").op # "set"
      /\ Write("RSTR", "0").op # "set" /\ Write("FREQ_HI", "tune").op # "set"
      /\ Write("FREQ_LO", "tune").op # "set" /\ Write("GAIN", "3000").op # "set"
      /\ Write("MACH", "mac").op # "set" /\ Write("MACL", "mac").op # "set"
      /\ Write("CR", "0").op # "set" /\ Halt.op # "set" /\ Release.op # "set"
      BY DEF Write, Halt, Release
<1>7. /\ Writes \subseteq S /\ AdfAccesses \cup {Set("ADF_CE", 1)} \subseteq S
      BY DEF InitAccesses
<1> HIDE DEF S
<1>8. /\ rc \in Seq(S) /\ Len(rc) = 4
      /\ rc[1] = Write("RSTR", "PLL_RST") /\ rc[2] = Write("RSTR", "0")
      /\ rc[3] = Write("RSTR", "SW_RST") /\ rc[4] = Write("RSTR", "0")
      BY <1>1, <1>4 DEF reset_core
<1>9. /\ sp \in Seq(S) /\ Len(sp) = 2 /\ sp[1] = Halt /\ sp[2] = Release
      BY <1>1, <1>4 DEF spec_load_lm32
<1>10. /\ fr \in Seq(S) /\ Len(fr) = 2
       /\ fr[1] = Write("FREQ_HI", "tune") /\ fr[2] = Write("FREQ_LO", "tune")
       BY <1>1, <1>4 DEF set_center_freq
<1>11. /\ three \in Seq(S) /\ Len(three) = 3 /\ three[1] = Write("GAIN", "3000")
       /\ three[2] = Write("MACH", "mac") /\ three[3] = Write("MACL", "mac")
       BY <1>1, <1>4
<1>12. cr \in Seq(S) /\ Len(cr) = 1 /\ cr[1] = Write("CR", "0")
       BY <1>1, <1>4
<1>13. /\ rc \in Chains(S) /\ sp \in Chains(S) /\ fr \in Chains(S)
       /\ three \in Chains(S) /\ cr \in Chains(S)
  <2>1. \A i \in 1 .. Len(rc) : Place(rc[i]) = 0
        BY <1>4, <1>5, <1>6, <1>8
  <2>2. \A i \in 1 .. Len(sp) : Place(sp[i]) = 0
        BY <1>4, <1>5, <1>6, <1>9
  <2>3. \A i \in 1 .. Len(fr) : Place(fr[i]) = 0
        BY <1>4, <1>5, <1>6, <1>10
  <2>4. \A i \in 1 .. Len(three) : Place(three[i]) = 0
        BY <1>4, <1>5, <1>6, <1>11
  <2>5. \A i \in 1 .. Len(cr) : Place(cr[i]) = 0
        BY <1>4, <1>5, <1>6, <1>12
  <2>6. rc \in Chains(S)
    <3>1. rc \in Seq(S) /\ Len(rc) \in Nat \ {0}
          BY <1>8
    <3>. QED BY <2>1, <3>1, SingleChain
  <2>7. sp \in Chains(S)
    <3>1. sp \in Seq(S) /\ Len(sp) \in Nat \ {0}
          BY <1>9
    <3>. QED BY <2>2, <3>1, SingleChain
  <2>8. fr \in Chains(S)
    <3>1. fr \in Seq(S) /\ Len(fr) \in Nat \ {0}
          BY <1>10
    <3>. QED BY <2>3, <3>1, SingleChain
  <2>9. three \in Chains(S)
    <3>1. three \in Seq(S) /\ Len(three) \in Nat \ {0}
          BY <1>11
    <3>. QED BY <2>4, <3>1, SingleChain
  <2>10. cr \in Chains(S)
    <3>1. cr \in Seq(S) /\ Len(cr) \in Nat \ {0}
          BY <1>12
    <3>. QED BY <2>5, <3>1, SingleChain
  <2>. QED BY <2>6, <2>7, <2>8, <2>9, <2>10
<1>14. /\ adf \in Chains(S) /\ adf \in Seq(S)
       /\ AdfLen \in Nat /\ AdfLen > 1 /\ Len(adf) = AdfLen
       /\ adf[1] = Set("ADF_CE", 1)
       /\ \A i \in 2 .. AdfLen : adf[i] \in AdfAccesses
       /\ adf[AdfLen] = adf4002_write(LastAdfWord)[TransferLen]
  <2>1. TransferLen \in Nat \ {0}
        BY WordBitsAssumption DEF TransferLen
  <2>2. /\ adf \in Chains(AdfAccesses \cup {Set("ADF_CE", 1)})
        /\ AdfLen \in Nat /\ AdfLen > TransferLen /\ Len(adf) = AdfLen
        /\ adf[1] = Set("ADF_CE", 1)
        /\ \A i \in 2 .. AdfLen : adf[i] \in AdfAccesses
        /\ adf[AdfLen] = adf4002_write(LastAdfWord)[TransferLen]
        BY <1>1, AdfConfigure
  <2>3. adf \in Chains(S)
        BY <1>7, <2>2, ChainsGrow
  <2>4. adf \in Seq(S)
        BY <2>3 DEF Chains
  <2>. QED BY <2>1, <2>2, <2>3, <2>4
<1>15. /\ u1 \in Seq(S) /\ Len(u1) = 6 /\ \A j \in 1 .. 4 : u1[j] = rc[j]
       /\ \A j \in 1 .. 2 : u1[4 + j] = sp[j]
  <2>1. rc \in Seq(S) /\ sp \in Seq(S)
        BY <1>8, <1>9
  <2>2. /\ u1 \in Seq(S) /\ Len(u1) = Len(rc) + Len(sp)
        /\ \A j \in 1 .. Len(rc) : u1[j] = rc[j]
        /\ \A j \in 1 .. Len(sp) : u1[Len(rc) + j] = sp[j]
        BY <1>2, <2>1, Concatenated
  <2>. QED BY <1>8, <1>9, <2>2
<1>16. /\ u2 \in Seq(S) /\ Len(u2) = 8 /\ \A j \in 1 .. 6 : u2[j] = u1[j]
       /\ \A j \in 1 .. 2 : u2[6 + j] = fr[j]
  <2>1. u1 \in Seq(S) /\ fr \in Seq(S)
        BY <1>10, <1>15
  <2>2. /\ u2 \in Seq(S) /\ Len(u2) = Len(u1) + Len(fr)
        /\ \A j \in 1 .. Len(u1) : u2[j] = u1[j]
        /\ \A j \in 1 .. Len(fr) : u2[Len(u1) + j] = fr[j]
        BY <1>2, <2>1, Concatenated
  <2>. QED BY <1>10, <1>15, <2>2
<1>17. /\ u3 \in Seq(S) /\ Len(u3) = AdfLen + 8 /\ \A j \in 1 .. 8 : u3[j] = u2[j]
       /\ \A j \in 1 .. AdfLen : u3[8 + j] = adf[j]
  <2>1. u2 \in Seq(S) /\ adf \in Seq(S)
        BY <1>14, <1>16
  <2>2. /\ u3 \in Seq(S) /\ Len(u3) = Len(u2) + Len(adf)
        /\ \A j \in 1 .. Len(u2) : u3[j] = u2[j]
        /\ \A j \in 1 .. Len(adf) : u3[Len(u2) + j] = adf[j]
        BY <1>2, <2>1, Concatenated
  <2>3. Len(u3) = AdfLen + 8
        BY <1>14, <1>16, <2>2
  <2>. QED BY <1>14, <1>16, <2>2, <2>3
<1>18. /\ u4 \in Seq(S) /\ Len(u4) = AdfLen + 11
       /\ \A j \in 1 .. AdfLen + 8 : u4[j] = u3[j]
       /\ \A j \in 1 .. 3 : u4[(AdfLen + 8) + j] = three[j]
  <2>1. u3 \in Seq(S) /\ three \in Seq(S)
        BY <1>11, <1>17
  <2>2. /\ u4 \in Seq(S) /\ Len(u4) = Len(u3) + Len(three)
        /\ \A j \in 1 .. Len(u3) : u4[j] = u3[j]
        /\ \A j \in 1 .. Len(three) : u4[Len(u3) + j] = three[j]
        BY <1>2, <2>1, Concatenated
  <2>. QED BY <1>11, <1>14, <1>17, <2>2
<1>19. /\ e \in Seq(S) /\ Len(e) = AdfLen + 12 /\ e[1] = cr[1]
       /\ \A j \in 1 .. AdfLen + 11 : e[1 + j] = u4[j]
  <2>1. cr \in Seq(S) /\ u4 \in Seq(S)
        BY <1>12, <1>18
  <2>2. /\ e \in Seq(S) /\ Len(e) = Len(cr) + Len(u4)
        /\ \A j \in 1 .. Len(cr) : e[j] = cr[j]
        /\ \A j \in 1 .. Len(u4) : e[Len(cr) + j] = u4[j]
    <3>1. PICK x : Joined(x, cr, u4) /\ x = e
          BY <1>3
    <3>2. /\ x \in Seq(S) /\ Len(x) = Len(cr) + Len(u4)
          /\ \A j \in 1 .. Len(cr) : x[j] = cr[j]
          /\ \A j \in 1 .. Len(u4) : x[Len(cr) + j] = u4[j]
          BY <2>1, <3>1, Concatenated
    <3>. QED BY <3>1, <3>2
  <2>. QED BY <1>12, <1>14, <1>18, <2>2
<1>20. e \in Chains(S)
  <2>1. u1 \in Chains(S)
        BY <1>2, <1>13, ChainsJoin DEF Joined
  <2>2. u2 \in Chains(S)
        BY <1>2, <1>13, <2>1, ChainsJoin DEF Joined
  <2>3. u3 \in Chains(S)
        BY <1>2, <1>14, <2>2, ChainsJoin DEF Joined
  <2>4. u4 \in Chains(S)
        BY <1>2, <1>13, <2>3, ChainsJoin DEF Joined
  <2>. QED BY <1>3, <1>13, <2>4, ChainsJoin DEF Joined
<1>21. ASSUME NEW j \in 1 .. 8 PROVE e[1 + j] = u2[j]
  <2>1. j \in 1 .. AdfLen + 11 /\ j \in 1 .. AdfLen + 8
        BY <1>14
  <2>. QED BY <1>17, <1>18, <1>19, <2>1
<1>22. /\ e[2] = rc[1] /\ e[3] = rc[2] /\ e[4] = rc[3] /\ e[5] = rc[4]
       /\ e[6] = sp[1] /\ e[7] = sp[2] /\ e[8] = fr[1] /\ e[9] = fr[2]
  <2>1. /\ e[2] = u2[1] /\ e[3] = u2[2] /\ e[4] = u2[3] /\ e[5] = u2[4]
        /\ e[6] = u2[5] /\ e[7] = u2[6] /\ e[8] = u2[7] /\ e[9] = u2[8]
    <3>1. /\ e[1 + 1] = u2[1] /\ e[1 + 2] = u2[2] /\ e[1 + 3] = u2[3]
          /\ e[1 + 4] = u2[4] /\ e[1 + 5] = u2[5] /\ e[1 + 6] = u2[6]
          /\ e[1 + 7] = u2[7] /\ e[1 + 8] = u2[8]
          BY <1>21
    <3>. QED BY <3>1
  <2>2. /\ u2[1] = u1[1] /\ u2[2] = u1[2] /\ u2[3] = u1[3] /\ u2[4] = u1[4]
        /\ u2[5] = u1[5] /\ u2[6] = u1[6]
        BY <1>16
  <2>3. u2[6 + 1] = fr[1] /\ u2[6 + 2] = fr[2]
        BY <1>16
  <2>4. /\ u1[1] = rc[1] /\ u1[2] = rc[2] /\ u1[3] = rc[3] /\ u1[4] = rc[4]
        /\ u1[4 + 1] = sp[1] /\ u1[4 + 2] = sp[2]
        BY <1>15
  <2>. QED BY <2>1, <2>2, <2>3, <2>4
<1>23. ASSUME NEW j \in 1 .. AdfLen PROVE e[9 + j] = adf[j]
  <2>1. /\ 8 + j \in 1 .. AdfLen + 11 /\ 8 + j \in 1 .. AdfLen + 8
        /\ 1 + (8 + j) = 9 + j
        BY <1>14
  <2>2. e[9 + j] = u4[8 + j] /\ u4[8 + j] = u3[8 + j]
        BY <1>18, <1>19, <2>1
  <2>. QED BY <1>17, <2>2
<1>24. e[10] = adf[1] /\ e[AdfLen + 9] = adf[AdfLen]
  <2>1. 1 \in 1 .. AdfLen /\ AdfLen \in 1 .. AdfLen /\ 9 + AdfLen = AdfLen + 9
        BY <1>14
  <2>2. e[9 + 1] = adf[1] /\ e[9 + AdfLen] = adf[AdfLen]
        BY <1>23, <2>1
  <2>. QED BY <2>1, <2>2
<1>25. ASSUME NEW i \in 11 .. AdfLen + 9 PROVE e[i] \in AdfAccesses
  <2>1. PICK j : j = i - 9
        OBVIOUS
  <2>2. j \in 2 .. AdfLen /\ j \in 1 .. AdfLen /\ i = 9 + j
        BY <1>14, <2>1
  <2>3. e[9 + j] = adf[j] /\ adf[j] \in AdfAccesses
        BY <1>14, <1>23, <2>2
  <2>. QED BY <2>2, <2>3
<1>26. ASSUME NEW j \in 1 .. 3 PROVE e[AdfLen + (9 + j)] = three[j]
  <2>1. (AdfLen + 8) + j \in 1 .. AdfLen + 11 /\ 1 + ((AdfLen + 8) + j) = AdfLen + (9 + j)
        BY <1>14
  <2>. QED BY <1>18, <1>19, <2>1
<1>27. /\ e[AdfLen + 10] = three[1] /\ e[AdfLen + 11] = three[2]
       /\ e[AdfLen + 12] = three[3]
  <2>1. /\ e[AdfLen + (9 + 1)] = three[1] /\ e[AdfLen + (9 + 2)] = three[2]
        /\ e[AdfLen + (9 + 3)] = three[3]
        BY <1>26
  <2>. QED BY <2>1
<1>28. Beginning(e)
       BY <1>8, <1>9, <1>10, <1>11, <1>12, <1>14, <1>19, <1>22, <1>24, <1>25, <1>27
       DEF Beginning
<1>. QED BY <1>19, <1>20, <1>28 DEF S

Modes == {"SLAVE", "MASTER"}

InitLen(mode) == IF mode = "MASTER" THEN AdfLen + 14 ELSE AdfLen + 16

Ending(q, mode) ==
  /\ mode = "MASTER" => /\ q[AdfLen + 13] = Write("PIR", "gains")
                        /\ q[AdfLen + 14] = Write("CR", "MASTER")
  /\ mode = "SLAVE" => /\ q[AdfLen + 13] = Write("RSTR", "SW_RST")
                       /\ q[AdfLen + 14] = Write("RSTR", "0")
                       /\ q[AdfLen + 15] = Write("DLYR", "10000")
                       /\ q[AdfLen + 16] = Write("CR", "SLAVE")

LEMMA InitLens ==
  /\ AdfLen \in Nat /\ AdfLen > TransferLen /\ TransferLen \in Nat \ {0}
  /\ \A mode \in Modes : InitLen(mode) \in Nat /\ InitLen(mode) > 14
<1>1. AdfLen \in Nat /\ AdfLen > TransferLen
      BY AdfConfigure
<1>2. TransferLen \in Nat \ {0}
      BY WordBitsAssumption DEF TransferLen
<1>. QED BY <1>1, <1>2 DEF InitLen

(* What comes after it: the settings of the mode, and the mode itself. *)
LEMMA ModeParts ==
  ASSUME NEW mode \in Modes, NEW ms, ms = ModeSettings(mode),
         NEW last, last = <<Write("CR", mode)>>
  PROVE  /\ ms \in Chains(InitAccesses) /\ Len(ms) = IF mode = "MASTER" THEN 1 ELSE 3
         /\ mode = "MASTER" => ms[1] = Write("PIR", "gains")
         /\ mode = "SLAVE" => /\ ms[1] = Write("RSTR", "SW_RST")
                              /\ ms[2] = Write("RSTR", "0")
                              /\ ms[3] = Write("DLYR", "10000")
         /\ last \in Chains(InitAccesses) /\ Len(last) = 1 /\ last[1] = Write("CR", mode)
<1> DEFINE S == InitAccesses
<1>1. /\ Write("PIR", "gains") \in S /\ Place(Write("PIR", "gains")) = 0
      /\ Write("RSTR", "SW_RST") \in S /\ Place(Write("RSTR", "SW_RST")) = 0
      /\ Write("RSTR", "0") \in S /\ Place(Write("RSTR", "0")) = 0
      /\ Write("DLYR", "10000") \in S /\ Place(Write("DLYR", "10000")) = 0
      /\ Write("CR", mode) \in S /\ Place(Write("CR", mode)) = 0
      BY InitAccess DEF Registers, Values, Modes
<1> HIDE DEF S
<1>2. last \in Seq(S) /\ Len(last) = 1 /\ last[1] = Write("CR", mode)
      BY <1>1
<1>3. last \in Chains(S)
  <2>1. \A i \in 1 .. Len(last) : Place(last[i]) = 0
        BY <1>1, <1>2
  <2>2. Len(last) \in Nat \ {0} /\ last \in Seq(S)
        BY <1>2
  <2>. QED BY <2>1, <2>2, SingleChain
<1>4. CASE mode = "MASTER"
  <2>1. ms \in Seq(S) /\ Len(ms) = 1 /\ ms[1] = Write("PIR", "gains")
        BY <1>1, <1>4 DEF ModeSettings
  <2>2. \A i \in 1 .. Len(ms) : Place(ms[i]) = 0
        BY <1>1, <2>1
  <2>3. Len(ms) \in Nat \ {0} /\ ms \in Seq(S)
        BY <2>1
  <2>4. ms \in Chains(S)
        BY <2>2, <2>3, SingleChain
  <2>. QED BY <1>2, <1>3, <1>4, <2>1, <2>4 DEF S
<1>5. CASE mode = "SLAVE"
  <2>1. /\ ms \in Seq(S) /\ Len(ms) = 3 /\ ms[1] = Write("RSTR", "SW_RST")
        /\ ms[2] = Write("RSTR", "0") /\ ms[3] = Write("DLYR", "10000")
        BY <1>1, <1>5 DEF ModeSettings
  <2>2. \A i \in 1 .. Len(ms) : Place(ms[i]) = 0
        BY <1>1, <2>1
  <2>3. Len(ms) \in Nat \ {0} /\ ms \in Seq(S)
        BY <2>1
  <2>4. ms \in Chains(S)
        BY <2>2, <2>3, SingleChain
  <2>. QED BY <1>2, <1>3, <1>5, <2>1, <2>4 DEF S
<1>. QED BY <1>4, <1>5 DEF Modes

LEMMA RfInit ==
  ASSUME NEW mode \in Modes
  PROVE  /\ rf_init(mode) \in Chains(InitAccesses)
         /\ Len(rf_init(mode)) = InitLen(mode)
         /\ Beginning(rf_init(mode)) /\ Ending(rf_init(mode), mode)
<1> DEFINE S == InitAccesses
<1>1. PICK e, ms, last : /\ e = Opening /\ ms = ModeSettings(mode)
                         /\ last = <<Write("CR", mode)>>
      OBVIOUS
<1>2. PICK f, q : Joined(f, e, ms) /\ Joined(q, f, last)
      BY DEF Joined
<1>3. rf_init(mode) = q
      BY <1>1, <1>2 DEF Joined, rf_init, Opening
<1>4. e \in Chains(S) /\ Len(e) = AdfLen + 12 /\ Beginning(e)
      BY <1>1, DefaultsParts
<1>5. /\ ms \in Chains(S) /\ Len(ms) = IF mode = "MASTER" THEN 1 ELSE 3
      /\ mode = "MASTER" => ms[1] = Write("PIR", "gains")
      /\ mode = "SLAVE" => /\ ms[1] = Write("RSTR", "SW_RST")
                           /\ ms[2] = Write("RSTR", "0")
                           /\ ms[3] = Write("DLYR", "10000")
      /\ last \in Chains(S) /\ Len(last) = 1 /\ last[1] = Write("CR", mode)
      BY <1>1, ModeParts
<1> HIDE DEF S
<1>6. f \in Chains(S)
      BY <1>2, <1>4, <1>5, ChainsJoin DEF Joined
<1>7. q \in Chains(S)
      BY <1>2, <1>5, <1>6, ChainsJoin DEF Joined
<1>8. e \in Seq(S) /\ ms \in Seq(S) /\ f \in Seq(S) /\ last \in Seq(S)
      BY <1>4, <1>5, <1>6 DEF Chains
<1>9. /\ Len(f) = (AdfLen + 12) + Len(ms)
      /\ \A j \in 1 .. AdfLen + 12 : f[j] = e[j]
      /\ \A j \in 1 .. Len(ms) : f[(AdfLen + 12) + j] = ms[j]
  <2>1. e \in Seq(S) /\ ms \in Seq(S)
        BY <1>8
  <2>2. /\ f \in Seq(S) /\ Len(f) = Len(e) + Len(ms)
        /\ \A j \in 1 .. Len(e) : f[j] = e[j]
        /\ \A j \in 1 .. Len(ms) : f[Len(e) + j] = ms[j]
        BY <1>2, <2>1, Concatenated
  <2>. QED BY <1>4, <2>2
<1>10. PICK n : n = Len(ms) /\ n = IF mode = "MASTER" THEN 1 ELSE 3
      BY <1>5
<1>11. /\ Len(q) = ((AdfLen + 12) + n) + 1
       /\ \A j \in 1 .. (AdfLen + 12) + n : q[j] = f[j]
       /\ q[((AdfLen + 12) + n) + 1] = last[1]
  <2>1. f \in Seq(S) /\ last \in Seq(S)
        BY <1>8
  <2>2. /\ q \in Seq(S) /\ Len(q) = Len(f) + Len(last)
        /\ \A j \in 1 .. Len(f) : q[j] = f[j]
        /\ \A j \in 1 .. Len(last) : q[Len(f) + j] = last[j]
        BY <1>2, <2>1, Concatenated
  <2>3. Len(f) = (AdfLen + 12) + n /\ Len(last) = 1
        BY <1>5, <1>9, <1>10
  <2>. QED BY <2>2, <2>3
<1>12. ASSUME NEW j \in 1 .. AdfLen + 12 PROVE q[j] = e[j]
  <2>1. j \in 1 .. (AdfLen + 12) + n
        BY <1>10, InitLens
  <2>. QED BY <1>9, <1>11, <2>1
<1>13. Beginning(q)
  <2>1. \A j \in 1 .. 10 : q[j] = e[j]
        BY <1>12, InitLens
  <2>2. \A j \in 11 .. AdfLen + 9 : q[j] = e[j]
        BY <1>12, InitLens
  <2>3. /\ q[AdfLen + 9] = e[AdfLen + 9] /\ q[AdfLen + 10] = e[AdfLen + 10]
        /\ q[AdfLen + 11] = e[AdfLen + 11] /\ q[AdfLen + 12] = e[AdfLen + 12]
        BY <1>12, InitLens
  <2>. QED BY <1>4, <2>1, <2>2, <2>3 DEF Beginning
<1>14. ASSUME NEW j \in 1 .. n PROVE q[AdfLen + (12 + j)] = ms[j]
  <2>1. (AdfLen + 12) + j \in 1 .. (AdfLen + 12) + n /\ (AdfLen + 12) + j = AdfLen + (12 + j)
        BY <1>10, InitLens
  <2>. QED BY <1>9, <1>10, <1>11, <2>1
<1>15. Ending(q, mode) /\ Len(q) = InitLen(mode)
  <2>1. CASE mode = "MASTER"
    <3>1. n = 1
          BY <1>10, <2>1
    <3>2. q[AdfLen + (12 + 1)] = ms[1]
          BY <1>14, <3>1
    <3>3. Len(q) = AdfLen + 14 /\ q[AdfLen + 14] = last[1]
          BY <1>11, <3>1, InitLens
    <3>. QED BY <1>5, <2>1, <3>2, <3>3 DEF Ending, InitLen
  <2>2. CASE mode = "SLAVE"
    <3>1. n = 3
          BY <1>10, <2>2
    <3>2. /\ q[AdfLen + (12 + 1)] = ms[1] /\ q[AdfLen + (12 + 2)] = ms[2]
          /\ q[AdfLen + (12 + 3)] = ms[3]
          BY <1>14, <3>1
    <3>3. Len(q) = AdfLen + 16 /\ q[AdfLen + 16] = last[1]
          BY <1>11, <3>1, InitLens
    <3>. QED BY <1>5, <2>2, <3>2, <3>3 DEF Ending, InitLen
  <2>. QED BY <2>1, <2>2 DEF Modes
<1>. QED BY <1>3, <1>7, <1>13, <1>15 DEF S

(* The accesses of rf_test, and whose they are. *)
Placed(o, b, s) == o = On(b, s)

Items(S) == [board : Boards, access : S]

LEMMA OnBoard ==
  ASSUME NEW b \in Boards, NEW S, NEW s \in Seq(S), NEW o, Placed(o, b, s)
  PROVE  /\ o \in Seq(Items(S)) /\ Len(o) = Len(s)
         /\ \A i \in 1 .. Len(s) : o[i].board = b /\ o[i].access = s[i]
<1>1. PICK n : n = Len(s) /\ n \in Nat
      OBVIOUS
<1>2. DOMAIN s = 1 .. n /\ \A i \in 1 .. n : s[i] \in S
      BY <1>1
<1>3. o = [i \in 1 .. n |-> [board |-> b, access |-> s[i]]]
      BY <1>2 DEF On, Placed
<1>4. \A i \in 1 .. n : /\ o[i] = [board |-> b, access |-> s[i]]
                        /\ o[i] \in Items(S)
      BY <1>2, <1>3 DEF Items
<1>. QED BY <1>1, <1>3, <1>4

TestAccesses == InitAccesses \cup {Reads}

SlaveLen == InitLen("SLAVE")
InitsLen == InitLen("SLAVE") + InitLen("MASTER")

LEMMA RfTestLens ==
  /\ SlaveLen \in Nat /\ SlaveLen > 14 /\ SlaveLen = AdfLen + 16
  /\ InitsLen \in Nat /\ InitsLen = SlaveLen + (AdfLen + 14)
  /\ InitLen("SLAVE") = AdfLen + 16 /\ InitLen("MASTER") = AdfLen + 14
BY InitLens DEF SlaveLen, InitsLen, InitLen, Modes

LEMMA RfTestParts ==
  /\ Len(RfTestInits) = InitsLen
  /\ rf_test \in Seq(Items(TestAccesses))
  /\ Len(rf_test) = InitsLen + 8
  /\ \A i \in 1 .. SlaveLen :
       rf_test[i].board = Slave /\ rf_test[i].access = rf_init("SLAVE")[i]
  /\ \A i \in 1 .. AdfLen + 14 :
       /\ rf_test[SlaveLen + i].board = Master
       /\ rf_test[SlaveLen + i].access = rf_init("MASTER")[i]
  /\ \A i \in 1 .. 8 : rf_test[InitsLen + i].access = Reads
<1> DEFINE S == TestAccesses
           T == Items(S)
<1>1. PICK s, m, r : s = rf_init("SLAVE") /\ m = rf_init("MASTER") /\ r = rf_get_counters
      OBVIOUS
<1>2. PICK os, om, orm, ors : /\ os = On(Slave, s) /\ om = On(Master, m)
                              /\ orm = On(Master, r) /\ ors = On(Slave, r)
      OBVIOUS
<1>3. PICK u, v, q : Joined(u, os, om) /\ Joined(v, u, orm) /\ Joined(q, v, ors)
      BY DEF Joined
<1>4. RfTestInits = u /\ rf_test = q
      BY <1>1, <1>2, <1>3 DEF RfTestInits, rf_test, Joined
<1>5. Master \in Boards /\ Slave \in Boards
      BY DEF Boards
<1>6. s \in Seq(S) /\ Len(s) = SlaveLen /\ m \in Seq(S) /\ Len(m) = AdfLen + 14
  <2>1. s \in Seq(InitAccesses) /\ m \in Seq(InitAccesses)
    <3>1. s \in Chains(InitAccesses) /\ m \in Chains(InitAccesses)
          BY <1>1, RfInit DEF Modes
    <3>. QED BY <3>1 DEF Chains
  <2>2. InitAccesses \subseteq S
        BY DEF TestAccesses
  <2>3. Len(s) = InitLen("SLAVE") /\ Len(m) = InitLen("MASTER")
        BY <1>1, RfInit DEF Modes
  <2> HIDE DEF S
  <2>. QED BY <2>1, <2>2, <2>3, RfTestLens DEF SlaveLen
<1>7. r \in Seq(S) /\ Len(r) = 4 /\ \A i \in 1 .. 4 : r[i] = Reads
      BY <1>1 DEF rf_get_counters, TestAccesses
<1> HIDE DEF S
<1>8. /\ os \in Seq(T) /\ Len(os) = SlaveLen
      /\ \A i \in 1 .. SlaveLen : os[i].board = Slave /\ os[i].access = s[i]
  <2>1. s \in Seq(S)
        BY <1>6
  <2>3. Placed(os, Slave, s) /\ Slave \in Boards
        BY <1>2, <1>5 DEF Placed
  <2>2. /\ os \in Seq(T) /\ Len(os) = Len(s)
        /\ \A i \in 1 .. Len(s) : os[i].board = Slave /\ os[i].access = s[i]
        BY <2>1, <2>3, OnBoard
  <2>. QED BY <1>6, <2>2
<1>9. /\ om \in Seq(T) /\ Len(om) = AdfLen + 14
      /\ \A i \in 1 .. AdfLen + 14 : om[i].board = Master /\ om[i].access = m[i]
  <2>1. m \in Seq(S)
        BY <1>6
  <2>3. Placed(om, Master, m) /\ Master \in Boards
        BY <1>2, <1>5 DEF Placed
  <2>2. /\ om \in Seq(T) /\ Len(om) = Len(m)
        /\ \A i \in 1 .. Len(m) : om[i].board = Master /\ om[i].access = m[i]
        BY <2>1, <2>3, OnBoard
  <2>. QED BY <1>6, <2>2
<1>10. /\ orm \in Seq(T) /\ Len(orm) = 4
       /\ \A i \in 1 .. 4 : orm[i].access = Reads
  <2>1. r \in Seq(S)
        BY <1>7
  <2>3. Placed(orm, Master, r) /\ Master \in Boards
        BY <1>2, <1>5 DEF Placed
  <2>2. /\ orm \in Seq(T) /\ Len(orm) = Len(r)
        /\ \A i \in 1 .. Len(r) : orm[i].board = Master /\ orm[i].access = r[i]
        BY <2>1, <2>3, OnBoard
  <2>. QED BY <1>7, <2>2
<1>11. /\ ors \in Seq(T) /\ Len(ors) = 4
       /\ \A i \in 1 .. 4 : ors[i].access = Reads
  <2>1. r \in Seq(S)
        BY <1>7
  <2>3. Placed(ors, Slave, r) /\ Slave \in Boards
        BY <1>2, <1>5 DEF Placed
  <2>2. /\ ors \in Seq(T) /\ Len(ors) = Len(r)
        /\ \A i \in 1 .. Len(r) : ors[i].board = Slave /\ ors[i].access = r[i]
        BY <2>1, <2>3, OnBoard
  <2>. QED BY <1>7, <2>2
<1> HIDE DEF T
<1>12. /\ u \in Seq(T) /\ Len(u) = InitsLen
       /\ \A j \in 1 .. SlaveLen : u[j] = os[j]
       /\ \A j \in 1 .. AdfLen + 14 : u[SlaveLen + j] = om[j]
  <2>1. os \in Seq(T) /\ om \in Seq(T)
        BY <1>8, <1>9
  <2>2. /\ u \in Seq(T) /\ Len(u) = Len(os) + Len(om)
        /\ \A j \in 1 .. Len(os) : u[j] = os[j]
        /\ \A j \in 1 .. Len(om) : u[Len(os) + j] = om[j]
        BY <1>3, <2>1, Concatenated
  <2>. QED BY <1>8, <1>9, <2>2, RfTestLens
<1>13. /\ v \in Seq(T) /\ Len(v) = InitsLen + 4
       /\ \A j \in 1 .. InitsLen : v[j] = u[j]
       /\ \A j \in 1 .. 4 : v[InitsLen + j] = orm[j]
  <2>1. u \in Seq(T) /\ orm \in Seq(T)
        BY <1>10, <1>12
  <2>2. /\ v \in Seq(T) /\ Len(v) = Len(u) + Len(orm)
        /\ \A j \in 1 .. Len(u) : v[j] = u[j]
        /\ \A j \in 1 .. Len(orm) : v[Len(u) + j] = orm[j]
        BY <1>3, <2>1, Concatenated
  <2>. QED BY <1>10, <1>12, <2>2
<1>14. /\ q \in Seq(T) /\ Len(q) = InitsLen + 8
       /\ \A j \in 1 .. InitsLen + 4 : q[j] = v[j]
       /\ \A j \in 1 .. 4 : q[(InitsLen + 4) + j] = ors[j]
  <2>1. v \in Seq(T) /\ ors \in Seq(T)
        BY <1>11, <1>13
  <2>2. /\ q \in Seq(T) /\ Len(q) = Len(v) + Len(ors)
        /\ \A j \in 1 .. Len(v) : q[j] = v[j]
        /\ \A j \in 1 .. Len(ors) : q[Len(v) + j] = ors[j]
        BY <1>3, <2>1, Concatenated
  <2>3. Len(v) = InitsLen + 4 /\ Len(ors) = 4
        BY <1>11, <1>13
  <2>. QED BY <2>2, <2>3, RfTestLens
<1>15. ASSUME NEW i \in 1 .. SlaveLen PROVE q[i] = os[i]
  <2>1. i \in 1 .. InitsLen /\ i \in 1 .. InitsLen + 4
        BY RfTestLens, InitLens
  <2>. QED BY <1>12, <1>13, <1>14, <2>1
<1>16. ASSUME NEW i \in 1 .. AdfLen + 14 PROVE q[SlaveLen + i] = om[i]
  <2>1. SlaveLen + i \in 1 .. InitsLen /\ SlaveLen + i \in 1 .. InitsLen + 4
        BY RfTestLens, InitLens
  <2>. QED BY <1>12, <1>13, <1>14, <2>1
<1>17. ASSUME NEW i \in 1 .. 8 PROVE q[InitsLen + i].access = Reads
  <2>1. CASE i \in 1 .. 4
    <3>1. PICK j : j = InitsLen + i
          OBVIOUS
    <3>2. j \in 1 .. InitsLen + 4
          BY <2>1, <3>1, RfTestLens
    <3>3. q[j] = v[j]
          BY <1>14, <3>2
    <3>4. v[InitsLen + i] = orm[i]
          BY <1>13, <2>1
    <3>5. orm[i].access = Reads
          BY <1>10, <2>1
    <3>. QED BY <3>1, <3>3, <3>4, <3>5
  <2>2. CASE i \in 5 .. 8
    <3>1. PICK j : j = i - 4
          OBVIOUS
    <3>2. j \in 1 .. 4 /\ InitsLen + i = (InitsLen + 4) + j
          BY <2>2, <3>1, RfTestLens
    <3>3. q[(InitsLen + 4) + j] = ors[j]
          BY <1>14, <3>2
    <3>4. ors[j].access = Reads
          BY <1>11, <3>2
    <3>. QED BY <3>2, <3>3, <3>4
  <2>. QED BY <2>1, <2>2
<1>18. \A i \in 1 .. SlaveLen : q[i].board = Slave /\ q[i].access = s[i]
      BY <1>8, <1>15
<1>19. \A i \in 1 .. AdfLen + 14 : /\ q[SlaveLen + i].board = Master
                                   /\ q[SlaveLen + i].access = m[i]
      BY <1>9, <1>16
<1>. QED BY <1>1, <1>4, <1>12, <1>14, <1>17, <1>18, <1>19 DEF S, T

(* What is known of each of the programs. *)
AllAccesses == Accesses("sys") \cup Accesses("vcxo") \cup Jumps
               \cup Resets("sys") \cup Resets("vcxo") \cup {Halt, Release}

Ops(p) == [i \in 1 .. Len(Code[p]) |-> Code[p][i].access]

Chip(p) == IF p = "bring_up" THEN "sys" ELSE "vcxo"

WellFormed(p) ==
  /\ Ops(p) \in Chains(AllAccesses) /\ JumpsLand(Ops(p))
  /\ Len(Ops(p)) = Len(Code[p]) /\ Len(Ops(p)) \in Nat \ {0}
  /\ \A i \in 1 .. Len(Ops(p)) : /\ Code[p][i].board \in Boards
                                 /\ Code[p][i].access = Ops(p)[i]
  /\ \A i \in 1 .. Len(Ops(p)) - 1 :
       Inside(Ops(p)[i]) => Code[p][i + 1].board = Code[p][i].board
  /\ IF p = "rf_test" THEN Ops(p) \in Seq(TestAccesses)
     ELSE /\ Addresses(Ops(p), Chip(p))
          /\ \A i \in 1 .. Len(Ops(p)) : Code[p][i].board = Master

LEMMA OnMaster ==
  ASSUME NEW p \in {"bring_up", "ad9510_init"}, NEW s, Code[p] = On(Master, s),
         Addresses(s, Chip(p)), JumpsLand(s)
  PROVE  WellFormed(p)
<1> DEFINE c == Chip(p)
           S == Accesses(c) \cup Jumps \cup Resets(c)
<1>1. s \in Chains(S) /\ s \in Seq(S)
      BY DEF Addresses, Chains
<1>2. S \subseteq AllAccesses
      BY DEF AllAccesses, Chip
<1>3. Master \in Boards /\ Placed(Code[p], Master, s)
      BY DEF Boards, Placed
<1> HIDE DEF S
<1>4. s \in Chains(AllAccesses)
      BY <1>1, <1>2, ChainsGrow
<1>5. s \in Seq(S)
      BY <1>1
<1>6. /\ Len(Code[p]) = Len(s)
      /\ \A i \in 1 .. Len(s) : Code[p][i].board = Master /\ Code[p][i].access = s[i]
      BY <1>3, <1>5, OnBoard
<1>7. Ops(p) = s
  <2>1. PICK n : n = Len(s) /\ n \in Nat
        BY <1>5
  <2>2. s = [i \in 1 .. n |-> s[i]]
        BY <1>5, <2>1
  <2>3. Ops(p) = [i \in 1 .. n |-> s[i]]
    <3>1. \A i \in 1 .. n : Code[p][i].access = s[i]
          BY <1>6, <2>1
    <3>. QED BY <1>6, <2>1, <3>1 DEF Ops
  <2>. QED BY <2>2, <2>3
<1>8. Len(s) \in Nat \ {0}
      BY <1>1 DEF Chains
<1>9. Master \in Boards
      BY <1>3
<1>10. \A i \in 1 .. Len(s) - 1 : i \in 1 .. Len(s) /\ i + 1 \in 1 .. Len(s)
      BY <1>8
<1>11. /\ \A i \in 1 .. Len(s) : Code[p][i].board \in Boards /\ Code[p][i].access = s[i]
       /\ \A i \in 1 .. Len(s) - 1 : Inside(s[i]) => Code[p][i + 1].board = Code[p][i].board
       /\ \A i \in 1 .. Len(s) : Code[p][i].board = Master
      BY <1>6, <1>9, <1>10
<1>. QED BY <1>4, <1>6, <1>7, <1>8, <1>11 DEF WellFormed

LEMMA TestAccessOps ==
  ASSUME NEW a \in TestAccesses
  PROVE  a.op \in {"set", "write", "read", "halt", "release"}
<1>1. CASE a \in AdfAccesses
      BY <1>1, AdfAccess
<1>2. CASE a \in Writes
      BY <1>2 DEF Writes, Write
<1>3. CASE a \in {Set("ADF_CE", 1), Reads, Halt, Release}
      BY <1>3 DEF Set, Reads, Halt, Release
<1>. QED BY <1>1, <1>2, <1>3 DEF TestAccesses, InitAccesses

(* Where the halts of rf_test are. *)
LEMMA InitHalts ==
  ASSUME NEW mode \in Modes, NEW i \in 1 .. InitLen(mode),
         rf_init(mode)[i].op = "halt"
  PROVE  i = 6
<1>1. PICK q : q = rf_init(mode)
      OBVIOUS
<1>2. Beginning(q) /\ Ending(q, mode) /\ q[i].op = "halt"
      BY <1>1, RfInit
<1>3. ASSUME NEW r, NEW v PROVE Write(r, v).op # "halt"
      BY DEF Write
<1>4. Release.op # "halt" /\ Set("ADF_CE", 1).op # "halt"
      BY DEF Release, Set
<1>5. CASE i \in 1 .. 10
      BY <1>2, <1>3, <1>4, <1>5 DEF Beginning
<1>6. CASE i \in 11 .. AdfLen + 9
  <2>1. q[i] \in AdfAccesses
        BY <1>2, <1>6 DEF Beginning
  <2>. QED BY <1>2, <2>1, AdfAccess
<1>7. CASE i \in {AdfLen + 10, AdfLen + 11, AdfLen + 12}
      BY <1>2, <1>3, <1>7 DEF Beginning
<1>8. CASE i > AdfLen + 12
  <2>1. CASE mode = "MASTER"
    <3>1. i \in {AdfLen + 13, AdfLen + 14}
          BY <1>8, <2>1, InitLens DEF InitLen
    <3>. QED BY <1>2, <1>3, <2>1, <3>1 DEF Ending
  <2>2. CASE mode = "SLAVE"
    <3>1. i \in {AdfLen + 13, AdfLen + 14, AdfLen + 15, AdfLen + 16}
          BY <1>8, <2>2, InitLens DEF InitLen
    <3>. QED BY <1>2, <1>3, <2>2, <3>1 DEF Ending
  <2>. QED BY <2>1, <2>2 DEF Modes
<1>. QED BY <1>5, <1>6, <1>7, <1>8, InitLens

(* Three ranges of rf_test: the two rf_init and the reads. *)
LEMMA RfTestRanges ==
  ASSUME NEW i \in 1 .. InitsLen + 8
  PROVE  \/ i \in 1 .. SlaveLen
         \/ \E j \in 1 .. AdfLen + 14 : i = SlaveLen + j
         \/ \E j \in 1 .. 8 : i = InitsLen + j
<1>1. /\ SlaveLen \in Nat /\ InitsLen \in Nat /\ AdfLen \in Nat
      /\ InitsLen = SlaveLen + (AdfLen + 14)
      BY RfTestLens, InitLens
<1>2. CASE i > SlaveLen /\ i <= InitsLen
  <2>1. i - SlaveLen \in 1 .. AdfLen + 14 /\ i = SlaveLen + (i - SlaveLen)
        BY <1>1, <1>2
  <2>. QED BY <2>1
<1>3. CASE i > InitsLen
  <2>1. i - InitsLen \in 1 .. 8 /\ i = InitsLen + (i - InitsLen)
        BY <1>1, <1>3
  <2>. QED BY <2>1
<1>. QED BY <1>1, <1>2, <1>3

LEMMA RfTestFormed == WellFormed("rf_test")
<1> DEFINE N == InitsLen + 8
<1>1. PICK s, m : s = rf_init("SLAVE") /\ m = rf_init("MASTER")
      OBVIOUS
<1>2. /\ s \in Chains(InitAccesses) /\ Len(s) = SlaveLen /\ Beginning(s)
      /\ m \in Chains(InitAccesses) /\ Len(m) = AdfLen + 14 /\ Beginning(m)
  <2>1. Len(s) = InitLen("SLAVE") /\ Len(m) = InitLen("MASTER")
        BY <1>1, RfInit DEF Modes
  <2>. QED BY <1>1, <2>1, RfInit, RfTestLens DEF Modes, SlaveLen
<1>3. PICK q : q = Ops("rf_test")
      OBVIOUS
<1>4. PICK code : code = Code["rf_test"] /\ code = rf_test
      BY DEF Code, Programs
<1>5. /\ code \in Seq(Items(TestAccesses)) /\ Len(code) = N
      /\ \A i \in 1 .. SlaveLen : code[i].board = Slave /\ code[i].access = s[i]
      /\ \A i \in 1 .. AdfLen + 14 :
           code[SlaveLen + i].board = Master /\ code[SlaveLen + i].access = m[i]
      /\ \A i \in 1 .. 8 : code[InitsLen + i].access = Reads
      BY <1>1, <1>4, RfTestParts
<1>6. q = [i \in 1 .. N |-> code[i].access]
      BY <1>3, <1>4, <1>5 DEF Ops
<1>7. /\ SlaveLen \in Nat /\ SlaveLen > 14 /\ InitsLen \in Nat /\ N \in Nat
      /\ InitsLen = SlaveLen + (AdfLen + 14) /\ AdfLen \in Nat
      BY RfTestLens, InitLens
<1>8. ASSUME NEW i \in 1 .. N
      PROVE  /\ code[i].board \in Boards /\ code[i].access \in TestAccesses
             /\ q[i] = code[i].access
  <2>1. code[i] \in Items(TestAccesses)
        BY <1>5
  <2>. QED BY <1>6, <2>1 DEF Items
<1>9. q \in Seq(TestAccesses) /\ Len(q) = N /\ Len(q) \in Nat \ {0}
  <2>1. q \in Seq(TestAccesses) /\ Len(q) = N
        BY <1>6, <1>7, <1>8
  <2>. QED BY <1>7, <2>1
<1>10. /\ \A i \in 1 .. SlaveLen : q[i] = s[i] /\ code[i].board = Slave
       /\ \A i \in 1 .. AdfLen + 14 : q[SlaveLen + i] = m[i] /\ code[SlaveLen + i].board = Master
       /\ \A i \in 1 .. 8 : q[InitsLen + i] = Reads
  <2>1. \A i \in 1 .. SlaveLen : i \in 1 .. N
        BY <1>7
  <2>2. \A i \in 1 .. AdfLen + 14 : SlaveLen + i \in 1 .. N
        BY <1>7
  <2>3. \A i \in 1 .. 8 : InitsLen + i \in 1 .. N
        BY <1>7
  <2> HIDE DEF N
  <2>. QED BY <1>5, <1>8, <2>1, <2>2, <2>3
<1> HIDE DEF N
<1>11. Place(Reads) = 0 /\ ~Inside(Reads) /\ Place(Write("CR", "0")) = 0
       /\ Place(Write("FREQ_HI", "tune")) = 0
      BY DEF Place, Inside, Reads, Write
<1>12. ASSUME NEW i \in 1 .. N - 1
       PROVE  /\ Follows(q[i], q[i + 1])
              /\ Inside(q[i]) => code[i + 1].board = code[i].board
  <2>1. CASE i \in 1 .. SlaveLen - 1
    <3>1. i \in 1 .. SlaveLen /\ i + 1 \in 1 .. SlaveLen
          BY <1>7, <2>1
    <3>2. Follows(s[i], s[i + 1])
          BY <1>2, <2>1 DEF Chains
    <3>. QED BY <1>10, <3>1, <3>2
  <2>2. CASE i = SlaveLen
    <3>1. q[i] = s[SlaveLen] /\ q[i + 1] = m[1]
          BY <1>7, <1>10, <2>2
    <3>2. ~Inside(s[SlaveLen]) /\ m[1] = Write("CR", "0")
          BY <1>2 DEF Chains, Beginning
    <3>. QED BY <1>11, <3>1, <3>2 DEF Follows
  <2>3. ASSUME NEW j \in 1 .. AdfLen + 14, i = SlaveLen + j
        PROVE  /\ Follows(q[i], q[i + 1])
               /\ Inside(q[i]) => code[i + 1].board = code[i].board
    <3>1. CASE j < AdfLen + 14
      <4>1. j \in 1 .. (AdfLen + 14) - 1 /\ j + 1 \in 1 .. AdfLen + 14 /\ i + 1 = SlaveLen + (j + 1)
            BY <1>7, <2>3, <3>1
      <4>2. Follows(m[j], m[j + 1])
            BY <1>2, <4>1 DEF Chains
      <4>3. q[i] = m[j] /\ q[i + 1] = m[j + 1]
            BY <1>10, <2>3, <4>1
      <4>4. code[i].board = Master /\ code[i + 1].board = Master
            BY <1>10, <2>3, <4>1
      <4>. QED BY <4>2, <4>3, <4>4
    <3>2. CASE j = AdfLen + 14
      <4>1. q[i] = m[j] /\ i + 1 = InitsLen + 1
            BY <1>7, <1>10, <2>3, <3>2
      <4>2. q[InitsLen + 1] = Reads
            BY <1>10
      <4>3. ~Inside(m[j])
            BY <1>2, <3>2 DEF Chains
      <4>. QED BY <1>11, <4>1, <4>2, <4>3 DEF Follows
    <3>. QED BY <1>7, <3>1, <3>2
  <2>4. ASSUME NEW j \in 1 .. 8, i = InitsLen + j
        PROVE  /\ Follows(q[i], q[i + 1])
               /\ Inside(q[i]) => code[i + 1].board = code[i].board
    <3>1. j + 1 \in 1 .. 8 /\ i + 1 = InitsLen + (j + 1)
          BY <1>7, <2>4 DEF N
    <3>2. q[i] = Reads /\ q[i + 1] = Reads
          BY <1>10, <2>4, <3>1
    <3>. QED BY <1>11, <3>2 DEF Follows
  <2>5. i \in 1 .. InitsLen + 8
        BY <1>7 DEF N
  <2>6. \/ i \in 1 .. SlaveLen
        \/ \E j \in 1 .. AdfLen + 14 : i = SlaveLen + j
        \/ \E j \in 1 .. 8 : i = InitsLen + j
        BY <2>5, RfTestRanges
  <2>7. i \in 1 .. SlaveLen => i \in 1 .. SlaveLen - 1 \/ i = SlaveLen
        BY <1>7
  <2>. QED BY <2>1, <2>2, <2>3, <2>4, <2>6, <2>7
<1>13. q \in Chains(AllAccesses)
  <2>1. TestAccesses \subseteq AllAccesses
        BY DEF TestAccesses, InitAccesses, AllAccesses, Accesses
  <2>2. q \in Seq(AllAccesses)
        BY <1>9, <2>1
  <2>3. Place(q[1]) \in {0, 1}
    <3>1. q[1] = s[1]
          BY <1>7, <1>10
    <3>. QED BY <1>2, <1>11, <3>1 DEF Beginning
  <2>4. ~Inside(q[Len(q)])
    <3>1. q[InitsLen + 8] = Reads /\ Len(q) = InitsLen + 8
          BY <1>9, <1>10 DEF N
    <3>. QED BY <1>11, <3>1
  <2>5. \A i \in 1 .. Len(q) - 1 : Follows(q[i], q[i + 1])
        BY <1>9, <1>12
  <2>. QED BY <1>9, <2>2, <2>3, <2>4, <2>5 DEF Chains
<1>14. ASSUME NEW i \in 1 .. N, q[i].op = "halt"
       PROVE  i = 6 \/ i = SlaveLen + 6
  <2>1. i \in 1 .. InitsLen + 8
        BY DEF N
  <2>2. CASE i \in 1 .. SlaveLen
    <3>1. s[i].op = "halt" /\ i \in 1 .. InitLen("SLAVE") /\ "SLAVE" \in Modes
          BY <1>10, <1>14, <2>2 DEF SlaveLen, Modes
    <3>. QED BY <1>1, <3>1, InitHalts
  <2>3. ASSUME NEW j \in 1 .. AdfLen + 14, i = SlaveLen + j PROVE i = SlaveLen + 6
    <3>1. m[j].op = "halt" /\ "MASTER" \in Modes
          BY <1>10, <1>14, <2>3 DEF Modes
    <3>2. j \in 1 .. InitLen("MASTER")
          BY RfTestLens
    <3>3. j = 6
          BY <1>1, <3>1, <3>2, InitHalts
    <3>. QED BY <2>3, <3>3
  <2>4. ASSUME NEW j \in 1 .. 8, i = InitsLen + j PROVE FALSE
    <3>1. q[i] = Reads
          BY <1>10, <2>4
    <3>. QED BY <1>14, <3>1 DEF Reads
  <2>. QED BY <2>1, <2>2, <2>3, <2>4, RfTestRanges
<1>15. q[8] = Write("FREQ_HI", "tune") /\ q[SlaveLen + 8] = Write("FREQ_HI", "tune")
  <2>1. q[8] = s[8] /\ q[SlaveLen + 8] = m[8]
        BY <1>7, <1>10
  <2>. QED BY <1>2, <2>1 DEF Beginning
<1>16. JumpsLand(q)
  <2>1. ASSUME NEW i \in 1 .. N, q[i].op = "halt" PROVE Reaches(q, i + 2)
    <3>1. CASE i = 6
      <4>1. i + 2 = 8 /\ 8 \in 3 .. Len(q)
            BY <1>7, <1>9, <3>1 DEF N
      <4>. QED BY <1>11, <1>15, <4>1 DEF Reaches, Lands
    <3>2. CASE i = SlaveLen + 6
      <4>1. i + 2 = SlaveLen + 8 /\ SlaveLen + 8 \in 3 .. Len(q)
            BY <1>7, <1>9, <3>2 DEF N
      <4>. QED BY <1>11, <1>15, <4>1 DEF Reaches, Lands
    <3>. QED BY <1>14, <2>1, <3>1, <3>2
  <2>2. ASSUME NEW i \in 1 .. N PROVE q[i].op \notin {"skip", "poll"}
    <3>1. q[i] \in TestAccesses
          BY <1>8
    <3>. QED BY <3>1, TestAccessOps
  <2>. QED BY <1>9, <2>1, <2>2 DEF JumpsLand
<1>17. WellFormed("rf_test")
  <2>1. Len(code) = N
        BY <1>5 DEF N
  <2>2. \A i \in 1 .. Len(q) : code[i].board \in Boards /\ code[i].access = q[i]
        BY <1>8, <1>9
  <2>3. \A i \in 1 .. Len(q) - 1 : Inside(q[i]) => code[i + 1].board = code[i].board
        BY <1>9, <1>12
  <2>4. Ops("rf_test") = q /\ Code["rf_test"] = code
        BY <1>3, <1>4
  <2>. QED BY <1>9, <1>13, <1>16, <2>1, <2>2, <2>3, <2>4 DEF WellFormed
<1>. QED BY <1>17

LEMMA CodeKnown == \A p \in Programs : WellFormed(p)
<1>1. Code["bring_up"] = On(Master, bring_up) /\ Code["ad9510_init"] = On(Master, ad9510_init)
      BY DEF Code, Programs
<1>2. WellFormed("bring_up")
  <2>1. Addresses(bring_up, Chip("bring_up")) /\ JumpsLand(bring_up)
        BY BringUp DEF Chip
  <2>. QED BY <1>1, <2>1, OnMaster
<1>3. WellFormed("ad9510_init")
  <2>1. Addresses(ad9510_init, "vcxo") /\ JumpsLand(ad9510_init)
        BY Ad9510Init, AheadLands DEF SpiChips
  <2>2. Addresses(ad9510_init, Chip("ad9510_init"))
        BY <2>1 DEF Chip
  <2>. QED BY <1>1, <2>1, <2>2, OnMaster
<1>. QED BY <1>2, <1>3, RfTestFormed DEF Programs

(* The parts of a transfer, by the place in it. *)
LEMMA Places ==
  ASSUME NEW j \in 1 .. TransferLen
  PROVE  \/ j \in {1, 2, TransferLen}
         \/ \E k \in 1 .. WordBits : j = 3 * k
         \/ \E k \in 1 .. WordBits : j = 3 * k + 1
         \/ \E k \in 1 .. WordBits : j = 3 * k + 2
<1>1. WordBits \in Nat \ {0} /\ TransferLen = 3 * WordBits + 3 /\ j \in Nat
      BY WordBitsAssumption DEF TransferLen
<1>2. PICK k, m : /\ k = j \div 3 /\ m = j % 3
      OBVIOUS
<1>3. k \in Nat /\ m \in 0 .. 2 /\ j = 3 * k + m
      BY <1>1, <1>2
<1>4. CASE j > 2 /\ j < TransferLen
  <2>1. k \in 1 .. WordBits
        BY <1>1, <1>3, <1>4
  <2>. QED BY <1>3, <2>1
<1>. QED BY <1>1, <1>4

SpiPart(a, c) ==
  /\ a.op = "set" /\ a.chip = c /\ a.word \in Words /\ a.at \in 1 .. TransferLen
  /\ a.at = 1 => a.pin = "PLL_SCLK" /\ a.value = 0
  /\ a.at = 2 => a.pin = cs_n(c) /\ a.value = 0
  /\ a.at = TransferLen => a.pin = cs_n(c) /\ a.value = 1
  /\ \A k \in 1 .. WordBits :
       /\ a.at = 3 * k => a.pin = "PLL_SDIO" /\ a.value = a.word[k] * Mask
       /\ a.at = 3 * k + 1 => a.pin = "PLL_SCLK" /\ a.value = 1
       /\ a.at = 3 * k + 2 => a.pin = "PLL_SCLK" /\ a.value = 0

AdfPart(a) ==
  /\ a.op = "set" /\ a.chip = "adf" /\ a.word \in Words /\ a.at \in 1 .. TransferLen
  /\ a.at = 1 => a.pin = "ADF_CLK" /\ a.value = 0
  /\ a.at = 2 => a.pin = "ADF_LE" /\ a.value = 0
  /\ a.at = TransferLen => a.pin = "ADF_LE" /\ a.value = 1
  /\ \A k \in 1 .. WordBits :
       /\ a.at = 3 * k => a.pin = "ADF_DATA" /\ a.value = a.word[k]
       /\ a.at = 3 * k + 1 => a.pin = "ADF_CLK" /\ a.value = 1
       /\ a.at = 3 * k + 2 => a.pin = "ADF_CLK" /\ a.value = 0

LEMMA SpiAccessParts ==
  ASSUME NEW c \in SpiChips, NEW a \in SpiAccesses(c)
  PROVE  SpiPart(a, c)
<1>1. /\ a.op = "set" /\ a.chip = c /\ a.at \in 1 .. TransferLen /\ a.word \in Words
      /\ a = spi_txrx(c, a.word)[a.at]
      BY SpiAccess
<1>2. PICK j, w, t : j = a.at /\ w = a.word /\ t = spi_txrx(c, w)
      OBVIOUS
<1>3. w \in Words /\ a = t[j]
      BY <1>1, <1>2
<1>4. /\ t[1] = Part("PLL_SCLK", 0, c, w, 1)
      /\ t[2] = Part(cs_n(c), 0, c, w, 2)
      /\ t[TransferLen] = Part(cs_n(c), 1, c, w, TransferLen)
      /\ \A k \in 1 .. WordBits :
           /\ t[3 * k] = Part("PLL_SDIO", w[k] * Mask, c, w, 3 * k)
           /\ t[3 * k + 1] = Part("PLL_SCLK", 1, c, w, 3 * k + 1)
           /\ t[3 * k + 2] = Part("PLL_SCLK", 0, c, w, 3 * k + 2)
      BY <1>2, <1>3, SpiParts
<1>5. ASSUME NEW p, NEW v, NEW x PROVE Part(p, v, c, w, x).pin = p /\ Part(p, v, c, w, x).value = v
      BY DEF Part
<1>6. ASSUME NEW k \in 1 .. WordBits
      PROVE  /\ j = 3 * k => a.pin = "PLL_SDIO" /\ a.value = w[k] * Mask
             /\ j = 3 * k + 1 => a.pin = "PLL_SCLK" /\ a.value = 1
             /\ j = 3 * k + 2 => a.pin = "PLL_SCLK" /\ a.value = 0
      BY <1>3, <1>4, <1>5
<1>7. /\ j = 1 => a.pin = "PLL_SCLK" /\ a.value = 0
      /\ j = 2 => a.pin = cs_n(c) /\ a.value = 0
      /\ j = TransferLen => a.pin = cs_n(c) /\ a.value = 1
      BY <1>3, <1>4, <1>5
<1>. QED BY <1>1, <1>2, <1>6, <1>7 DEF SpiPart

LEMMA AdfAccessParts ==
  ASSUME NEW a \in AdfAccesses
  PROVE  AdfPart(a)
<1>1. /\ a.op = "set" /\ a.chip = "adf" /\ a.at \in 1 .. TransferLen /\ a.word \in Words
      /\ a = adf4002_write(a.word)[a.at]
      BY AdfAccess
<1>2. PICK j, w, t : j = a.at /\ w = a.word /\ t = adf4002_write(w)
      OBVIOUS
<1>3. w \in Words /\ a = t[j]
      BY <1>1, <1>2
<1>4. /\ t[1] = Part("ADF_CLK", 0, "adf", w, 1)
      /\ t[2] = Part("ADF_LE", 0, "adf", w, 2)
      /\ t[TransferLen] = Part("ADF_LE", 1, "adf", w, TransferLen)
      /\ \A k \in 1 .. WordBits :
           /\ t[3 * k] = Part("ADF_DATA", w[k], "adf", w, 3 * k)
           /\ t[3 * k + 1] = Part("ADF_CLK", 1, "adf", w, 3 * k + 1)
           /\ t[3 * k + 2] = Part("ADF_CLK", 0, "adf", w, 3 * k + 2)
      BY <1>2, <1>3, AdfParts
<1>5. ASSUME NEW p, NEW v, NEW x
      PROVE  Part(p, v, "adf", w, x).pin = p /\ Part(p, v, "adf", w, x).value = v
      BY DEF Part
<1>6. ASSUME NEW k \in 1 .. WordBits
      PROVE  /\ j = 3 * k => a.pin = "ADF_DATA" /\ a.value = w[k]
             /\ j = 3 * k + 1 => a.pin = "ADF_CLK" /\ a.value = 1
             /\ j = 3 * k + 2 => a.pin = "ADF_CLK" /\ a.value = 0
      BY <1>3, <1>4, <1>5
<1>7. /\ j = 1 => a.pin = "ADF_CLK" /\ a.value = 0
      /\ j = 2 => a.pin = "ADF_LE" /\ a.value = 0
      /\ j = TransferLen => a.pin = "ADF_LE" /\ a.value = 1
      BY <1>3, <1>4, <1>5
<1>. QED BY <1>1, <1>2, <1>6, <1>7 DEF AdfPart

(* What a gpio_set of a program can be, and what any access can be. *)
LEMMA SetKinds ==
  ASSUME NEW a \in AllAccesses, a.op = "set"
  PROVE  \/ \E c \in SpiChips : a \in SpiAccesses(c)
         \/ a \in AdfAccesses
         \/ a = Set("ADF_CE", 1)
         \/ \E c \in SpiChips : a \in Resets(c)
<1>1. /\ \A x \in Writes : x.op = "write"
      /\ \A x \in Jumps : x.op \in {"skip", "poll"}
      /\ Reads.op = "read" /\ Halt.op = "halt" /\ Release.op = "release"
      BY DEF Writes, Jumps, Reads, Halt, Release, Write, Skip, Poll
<1>. QED BY <1>1 DEF AllAccesses, Accesses, SpiChips

LEMMA SetTypes ==
  ASSUME NEW a \in AllAccesses, a.op = "set"
  PROVE  a.pin \in Pins \cup {"PLL_SDIO"} /\ a.value \in Nat
<1>1. \A c \in SpiChips : cs_n(c) \in Pins /\ reset_n(c) \in Pins
      BY DEF cs_n, reset_n, Pins
<1>2. {"PLL_SCLK", "ADF_CLK", "ADF_LE", "ADF_DATA", "ADF_CE"} \subseteq Pins
      BY DEF Pins
<1>3. ASSUME NEW c \in SpiChips, a \in SpiAccesses(c)
      PROVE  a.pin \in Pins \cup {"PLL_SDIO"} /\ a.value \in Nat
  <2>1. SpiPart(a, c)
        BY <1>3, SpiAccessParts
  <2>2. ASSUME NEW k \in 1 .. WordBits PROVE a.word[k] * Mask \in Nat
    <3>1. PICK w : w = a.word
          OBVIOUS
    <3>2. w \in [1 .. WordBits -> {0, 1}]
          BY <2>1, <3>1 DEF SpiPart, Words
    <3>3. w[k] \in {0, 1}
          BY <3>2
    <3>. QED BY <3>1, <3>3, WordsAssumption
  <2>3. PICK j : j = a.at
        OBVIOUS
  <2>4. j \in 1 .. TransferLen
        BY <2>1, <2>3 DEF SpiPart
  <2>. QED BY <1>1, <1>2, <2>1, <2>2, <2>3, <2>4, Places DEF SpiPart
<1>4. ASSUME a \in AdfAccesses
      PROVE  a.pin \in Pins \cup {"PLL_SDIO"} /\ a.value \in Nat
  <2>1. AdfPart(a)
        BY <1>4, AdfAccessParts
  <2>2. ASSUME NEW k \in 1 .. WordBits PROVE a.word[k] \in Nat
    <3>1. PICK w : w = a.word
          OBVIOUS
    <3>2. w \in [1 .. WordBits -> {0, 1}]
          BY <2>1, <3>1 DEF AdfPart, Words
    <3>3. w[k] \in {0, 1}
          BY <3>2
    <3>. QED BY <3>1, <3>3
  <2>3. PICK j : j = a.at
        OBVIOUS
  <2>4. j \in 1 .. TransferLen
        BY <2>1, <2>3 DEF AdfPart
  <2>. QED BY <1>1, <1>2, <2>1, <2>2, <2>3, <2>4, Places DEF AdfPart
<1>5. CASE a = Set("ADF_CE", 1)
      BY <1>2, <1>5 DEF Set
<1>6. ASSUME NEW c \in SpiChips, a \in Resets(c)
      PROVE  a.pin \in Pins \cup {"PLL_SDIO"} /\ a.value \in Nat
      BY <1>1, <1>6 DEF Resets, Set
<1>. QED BY <1>3, <1>4, <1>5, <1>6, SetKinds

LEMMA WriteTypes ==
  ASSUME NEW a \in AllAccesses, a.op = "write"
  PROVE  a.reg \in Registers /\ a.value \in Values[a.reg] /\ a \in Writes
<1>1. \A c \in SpiChips : \A x \in SpiAccesses(c) : x.op = "set"
      BY SpiAccess
<1>2. \A x \in AdfAccesses : x.op = "set"
      BY AdfAccess
<1>3. \A x \in Jumps : x.op \in {"skip", "poll"}
      BY DEF Jumps, Skip, Poll
<1>4. /\ Reads.op = "read" /\ Halt.op = "halt" /\ Release.op = "release"
      /\ \A c : \A x \in Resets(c) : x.op = "set"
      /\ Set("ADF_CE", 1).op = "set"
      BY DEF Reads, Halt, Release, Resets, Set
<1>5. a \in Writes
      BY <1>1, <1>2, <1>3, <1>4 DEF AllAccesses, Accesses, SpiChips
<1>6. PICK r \in Registers : \E v \in Values[r] : a = Write(r, v)
      BY <1>5 DEF Writes
<1>7. PICK v \in Values[r] : a = Write(r, v)
      BY <1>6
<1>8. a.reg = r /\ a.value = v
      BY <1>7 DEF Write
<1>. QED BY <1>5, <1>7, <1>8

(* Where a program goes with a step: on by one, which it must while it is  *)
(* inside a transfer, or to the beginning of one, or to its end.           *)
Here == prog \in Programs /\ pos \in 1 .. Len(Code[prog])

Advances ==
  \/ /\ prog' = "none" /\ pos' = 0 /\ ~Inside(Access)
     /\ pos = Len(Ops(prog)) \/ Access.op # "set"
  \/ /\ prog' = prog /\ pos' \in 1 .. Len(Code[prog])
     /\ pos' = pos + 1 \/ (pos' > 2 /\ Access.op # "set")
     /\ Follows(Access, Access')
     /\ Inside(Access) => pos' = pos + 1 /\ Board' = Board

LEMMA NotNone == "none" \notin Programs
BY DEF Programs

LEMMA Here_Access ==
  ASSUME Here
  PROVE  /\ WellFormed(prog) /\ Access \in AllAccesses /\ Board \in Boards
         /\ Access = Ops(prog)[pos] /\ pos \in 1 .. Len(Ops(prog))
         /\ pos = Len(Ops(prog)) => ~Inside(Access)
<1>1. WellFormed(prog)
      BY CodeKnown DEF Here
<1>2. PICK q : q = Ops(prog)
      OBVIOUS
<1>3. q \in Seq(AllAccesses) /\ ~Inside(q[Len(q)])
      BY <1>1, <1>2 DEF WellFormed, Chains
<1>4. pos \in 1 .. Len(q)
      BY <1>1, <1>2 DEF WellFormed, Here
<1>5. Access = q[pos] /\ Board \in Boards
      BY <1>1, <1>2, <1>4 DEF WellFormed, Access, Board
<1>6. q[pos] \in AllAccesses
      BY <1>3, <1>4
<1>. QED BY <1>1, <1>2, <1>3, <1>4, <1>5, <1>6

LEMMA Outside ==
  ASSUME Access.op # "set"
  PROVE  ~Inside(Access)
BY DEF Inside, Place

LEMMA Going ==
  ASSUME Here, NEW t, Goto(t),
         t = pos + 1 \/ (Access.op # "set" /\ Reaches(Ops(prog), t))
  PROVE  Advances
<1>1. PICK q, n : q = Ops(prog) /\ n = Len(q)
      OBVIOUS
<1>2. /\ n \in Nat \ {0} /\ pos \in 1 .. n /\ Access = q[pos] /\ Len(Code[prog]) = n
      /\ pos = n => ~Inside(Access)
      BY <1>1, Here_Access DEF WellFormed
<1>3. /\ q \in Chains(AllAccesses)
      /\ \A i \in 1 .. n : Code[prog][i].access = q[i]
      /\ \A i \in 1 .. n - 1 : Follows(q[i], q[i + 1])
      /\ \A i \in 1 .. n - 1 : Inside(q[i]) => Code[prog][i + 1].board = Code[prog][i].board
      BY <1>1, Here_Access DEF WellFormed, Chains
<1>4. t \in Nat /\ t <= n + 1 /\ t > 0
  <2>1. CASE Reaches(q, t)
        BY <1>1, <1>2, <2>1 DEF Reaches, Lands
  <2>. QED BY <1>1, <1>2, <2>1
<1>5. CASE t \in 1 .. n
  <2>1. After(t) = t
    <3>1. prog = "rf_test" => n = Len(rf_test)
          BY <1>2 DEF Code, Programs
    <3>. QED BY <1>2, <1>5, <3>1 DEF After
  <2>2. prog' = prog /\ pos' = t
        BY <1>2, <1>5, <2>1 DEF Goto
  <2>3. Access' = q[t] /\ Board' = Code[prog][t].board
        BY <1>3, <1>5, <2>2 DEF Access, Board
  <2>4. CASE t = pos + 1
    <3>1. pos \in 1 .. n - 1
          BY <1>2, <1>5, <2>4
    <3>2. Follows(q[pos], q[pos + 1])
          BY <1>3, <3>1
    <3>3. Inside(q[pos]) => Code[prog][pos + 1].board = Code[prog][pos].board
          BY <1>3, <3>1
    <3>. QED BY <1>2, <1>5, <2>2, <2>3, <2>4, <3>2, <3>3 DEF Advances, Board
  <2>5. CASE Access.op # "set" /\ Reaches(q, t)
    <3>1. Lands(q, t)
          BY <1>1, <1>2, <1>5, <2>5 DEF Reaches
    <3>2. t > 2 /\ Place(q[t]) \in {0, 1}
          BY <1>1, <1>2, <3>1 DEF Lands
    <3>4. ~Inside(Access)
          BY <2>5, Outside
    <3>3. Follows(Access, Access')
          BY <2>3, <3>2, <3>4 DEF Follows
    <3>. QED BY <1>2, <1>5, <2>2, <2>5, <3>2, <3>3, <3>4 DEF Advances
  <2>. QED BY <1>1, <2>4, <2>5
<1>6. CASE t = n + 1
  <2>0. pos = n \/ Access.op # "set"
        BY <1>2, <1>6
  <2>1. ~Inside(Access)
        BY <1>2, <2>0, Outside
  <2>2. CASE prog = "rf_test"
    <3>1. n = Len(rf_test)
          BY <1>2, <2>2 DEF Code, Programs
    <3>2. Len(rf_test) = InitsLen + 8 /\ Len(RfTestInits) = InitsLen /\ InitsLen \in Nat
          /\ InitsLen > 14
          BY RfTestParts, RfTestLens, InitLens
    <3>3. After(t) = InitsLen + 1
          BY <1>2, <1>6, <2>2, <3>1, <3>2 DEF After
    <3>4. prog' = prog /\ pos' = InitsLen + 1
          BY <1>2, <3>1, <3>2, <3>3 DEF Goto
    <3>5. Access' = Reads
      <4>1. rf_test[InitsLen + 1].access = Reads
            BY RfTestParts
      <4>2. Code[prog] = rf_test
            BY <2>2 DEF Code, Programs
      <4>. QED BY <3>4, <4>1, <4>2 DEF Access
    <3>6. Follows(Access, Access')
          BY <2>1, <3>5 DEF Follows, Place, Reads
    <3>7. Access.op # "set"
      <4>1. CASE pos = n
        <5>1. rf_test[InitsLen + 8].access = Reads
              BY RfTestParts
        <5>2. Access = Reads
              BY <2>2, <3>1, <3>2, <4>1, <5>1 DEF Access, Code, Programs
        <5>. QED BY <5>2 DEF Reads
      <4>. QED BY <2>0, <4>1
    <3>. QED BY <1>2, <2>1, <3>1, <3>2, <3>4, <3>6, <3>7 DEF Advances
  <2>3. CASE prog # "rf_test"
    <3>1. prog' = "none" /\ pos' = 0
          BY <1>2, <1>6, <2>3 DEF Goto, After
    <3>. QED BY <1>1, <2>0, <2>1, <3>1 DEF Advances
  <2>. QED BY <2>2, <2>3
<1>. QED BY <1>2, <1>4, <1>5, <1>6

LEMMA GoingOn ==
  ASSUME Here, Goto(pos + 1)
  PROVE  Advances
<1>1. PICK t : t = pos + 1 /\ Goto(t)
      OBVIOUS
<1>2. t = pos + 1 \/ (Access.op # "set" /\ Reaches(Ops(prog), t))
      BY <1>1
<1>3. Goto(t)
      BY <1>1
<1>. QED BY <1>2, <1>3, Going

LEMMA StepAdvances ==
  ASSUME Here, Step
  PROVE  Advances /\ UNCHANGED <<build, kills>>
<1>1. PICK q, i : q = Ops(prog) /\ i = pos
      OBVIOUS
<1>2. /\ i \in 1 .. Len(q) /\ Access = q[i] /\ JumpsLand(q)
      BY <1>1, Here_Access DEF WellFormed
<1>3. /\ q[i].op = "skip" => Reaches(q, i + 1 + q[i].n)
      /\ q[i].op = "poll" => Reaches(q, i + 1 + q[i].on) /\ Reaches(q, i - q[i].back)
      /\ q[i].op = "halt" => Reaches(q, i + 2)
      BY <1>2 DEF JumpsLand
<1>4. UNCHANGED <<build, kills>>
      BY DEF Step, SetPin, WriteReg, ReadReg, HaltCpu, NoFirmware, ReleaseCpu,
             CheckId, CheckLock
<1>5. CASE SetPin \/ WriteReg \/ ReadReg \/ HaltCpu \/ ReleaseCpu
  <2>1. Goto(pos + 1)
        BY <1>5 DEF SetPin, WriteReg, ReadReg, HaltCpu, ReleaseCpu
  <2>. QED BY <1>4, <2>1, GoingOn
<1>6. CASE NoFirmware
  <2>1. Goto(pos + 2) /\ Access.op = "halt"
        BY <1>6 DEF NoFirmware
  <2>2. Reaches(Ops(prog), pos + 2)
        BY <1>1, <1>2, <1>3, <2>1
  <2>. QED BY <1>4, <2>1, <2>2, Going
<1>7. CASE CheckId
  <2>1. /\ Access.op = "skip"
        /\ Goto(pos + 1) \/ Goto(pos + 1 + Access.n)
        BY <1>7 DEF CheckId
  <2>2. Reaches(Ops(prog), pos + 1 + Access.n)
        BY <1>1, <1>2, <1>3, <2>1
  <2>4. CASE Goto(pos + 1)
        BY <1>4, <2>4, GoingOn
  <2>5. CASE Goto(pos + 1 + Access.n)
        BY <1>4, <2>1, <2>2, <2>5, Going
  <2>. QED BY <2>1, <2>4, <2>5
<1>8. CASE CheckLock
  <2>1. /\ Access.op = "poll"
        /\ Goto(pos + 1) \/ Goto(pos + 1 + Access.on) \/ Goto(pos - Access.back)
        BY <1>8 DEF CheckLock
  <2>2. Reaches(Ops(prog), pos + 1 + Access.on) /\ Reaches(Ops(prog), pos - Access.back)
        BY <1>1, <1>2, <1>3, <2>1
  <2>4. CASE Goto(pos + 1)
        BY <1>4, <2>4, GoingOn
  <2>5. CASE Goto(pos + 1 + Access.on)
        BY <1>4, <2>1, <2>2, <2>5, Going
  <2>6. CASE Goto(pos - Access.back)
        BY <1>4, <2>1, <2>2, <2>6, Going
  <2>. QED BY <2>1, <2>4, <2>5, <2>6
<1>. QED BY <1>5, <1>6, <1>7, <1>8 DEF Step

(* The boards: what a gpio_set and a rf_writel leave of them. *)
Chips == SpiChips \cup {"adf"}

BoardType == [regs : [Registers -> UNION {Values[r] : r \in Registers}],
              pins : [Pins -> {0, 1}], sdio : {0, 1},
              bits : [Chips -> Seq({0, 1})],
              cpu  : {"running", "stopped", "failed"}, left : SUBSET SpiChips]

LEMMA BoardParts ==
  ASSUME NEW b
  PROVE  BoardOK(b) <=> /\ b \in BoardType
                        /\ \A r \in Registers : b.regs[r] \in Values[r]
                        /\ \A c \in Chips : Len(b.bits[c]) <= WordBits
BY DEF BoardOK, BoardType, Chips

DrivenTo(r, b, pins, sdio) ==
  /\ r.regs = b.regs /\ r.cpu = b.cpu /\ r.pins = pins /\ r.sdio = sdio
  /\ r.bits = [c \in Chips |-> IF c = "adf" THEN AdfShiftedBy(b, pins)
                               ELSE ShiftedBy(b, pins, c)]
  /\ r.left = {c \in b.left : pins[reset_n(c)] = 1}

LEMMA DrivenFields ==
  ASSUME NEW b \in BoardType, NEW pins, NEW sdio, NEW r, r = Driven(b, pins, sdio)
  PROVE  DrivenTo(r, b, pins, sdio) /\ DOMAIN r = DOMAIN b
                                    /\ r = [x \in DOMAIN b |-> r[x]]
BY DEF Driven, DrivenTo, BoardType, Chips

LEMMA ShiftedType ==
  ASSUME NEW b \in BoardType, NEW pins, NEW c \in SpiChips, Len(b.bits[c]) <= WordBits,
         NEW s, s = ShiftedBy(b, pins, c)
  PROVE  s \in Seq({0, 1}) /\ Len(s) <= WordBits
<1>1. PICK old, sdio : old = b.bits[c] /\ sdio = b.sdio
      OBVIOUS
<1>2. old \in Seq({0, 1}) /\ sdio \in {0, 1} /\ Len(old) \in Nat /\ Len(old) <= WordBits
      BY <1>1 DEF BoardType, Chips
<1>3. <<>> \in Seq({0, 1}) /\ Len(<<>>) = 0 /\ WordBits \in Nat \ {0}
      BY WordBitsAssumption
<1>4. ASSUME NEW t \in Seq({0, 1}), Len(t) < WordBits
      PROVE  Append(t, sdio) \in Seq({0, 1}) /\ Len(Append(t, sdio)) <= WordBits
      BY <1>2, <1>3, <1>4
<1>5. PICK begun : begun = IF Len(old) = WordBits THEN <<>> ELSE old
      OBVIOUS
<1>6. begun \in Seq({0, 1}) /\ Len(begun) < WordBits
      BY <1>2, <1>3, <1>5
<1>7. s \in {<<>>, old, Append(begun, sdio)}
      BY <1>1, <1>5 DEF ShiftedBy
<1>8. CASE s = <<>>
      BY <1>3, <1>8
<1>9. CASE s = old
      BY <1>2, <1>9
<1>10. CASE s = Append(begun, sdio)
      BY <1>4, <1>6, <1>10
<1>. QED BY <1>7, <1>8, <1>9, <1>10

LEMMA AdfShiftedType ==
  ASSUME NEW b \in BoardType, NEW pins \in [Pins -> {0, 1}],
         Len(b.bits["adf"]) <= WordBits, NEW s, s = AdfShiftedBy(b, pins)
  PROVE  s \in Seq({0, 1}) /\ Len(s) <= WordBits
<1>1. PICK old, d : old = b.bits["adf"] /\ d = pins["ADF_DATA"]
      OBVIOUS
<1>2. old \in Seq({0, 1}) /\ d \in {0, 1} /\ Len(old) \in Nat /\ Len(old) <= WordBits
      BY <1>1 DEF BoardType, Chips, Pins
<1>3. WordBits \in Nat \ {0}
      BY WordBitsAssumption
<1>4. PICK all : all = Append(old, d)
      OBVIOUS
<1>5. all \in Seq({0, 1}) /\ Len(all) = Len(old) + 1
      BY <1>2, <1>4
<1>6. Tail(all) \in Seq({0, 1}) /\ Len(Tail(all)) = Len(old)
      BY <1>2, <1>5
<1>7. s = old \/ s = IF Len(all) > WordBits THEN Tail(all) ELSE all
      BY <1>1, <1>4 DEF AdfShiftedBy
<1>8. CASE s = old
      BY <1>2, <1>8
<1>9. CASE s = IF Len(all) > WordBits THEN Tail(all) ELSE all
  <2>1. CASE Len(all) > WordBits
    <3>1. s = Tail(all)
          BY <1>9, <2>1
    <3>. QED BY <1>2, <1>6, <3>1
  <2>2. CASE ~(Len(all) > WordBits)
    <3>1. s = all
          BY <1>9, <2>2
    <3>2. Len(all) <= WordBits
          BY <1>2, <1>3, <1>5, <2>2
    <3>. QED BY <1>5, <3>1, <3>2
  <2>. QED BY <2>1, <2>2
<1>. QED BY <1>7, <1>8, <1>9

LEMMA DrivenOK ==
  ASSUME NEW b, BoardOK(b), NEW pins \in [Pins -> {0, 1}], NEW sdio \in {0, 1},
         NEW r, r = Driven(b, pins, sdio)
  PROVE  BoardOK(r)
<1>1. /\ b \in BoardType /\ \A x \in Registers : b.regs[x] \in Values[x]
      /\ \A c \in Chips : Len(b.bits[c]) <= WordBits
      BY BoardParts
<1>2. DrivenTo(r, b, pins, sdio) /\ DOMAIN r = DOMAIN b /\ r = [x \in DOMAIN b |-> r[x]]
      BY <1>1, DrivenFields
<1>3. ASSUME NEW c \in Chips
      PROVE  r.bits[c] \in Seq({0, 1}) /\ Len(r.bits[c]) <= WordBits
  <2>1. r.bits[c] = IF c = "adf" THEN AdfShiftedBy(b, pins) ELSE ShiftedBy(b, pins, c)
        BY <1>2 DEF DrivenTo
  <2>2. CASE c = "adf"
    <3>1. r.bits[c] = AdfShiftedBy(b, pins) /\ Len(b.bits["adf"]) <= WordBits
          BY <1>1, <2>1, <2>2
    <3>. QED BY <1>1, <3>1, AdfShiftedType
  <2>3. CASE c # "adf"
    <3>1. r.bits[c] = ShiftedBy(b, pins, c) /\ Len(b.bits[c]) <= WordBits /\ c \in SpiChips
          BY <1>1, <2>1, <2>3 DEF Chips
    <3>. QED BY <1>1, <3>1, ShiftedType
  <2>. QED BY <2>2, <2>3
<1>4. r.bits \in [Chips -> Seq({0, 1})]
  <2>1. PICK f : f = r.bits
        OBVIOUS
  <2>2. DOMAIN f = Chips /\ f = [c \in Chips |-> f[c]]
        BY <1>2, <2>1 DEF DrivenTo
  <2>3. \A c \in Chips : f[c] \in Seq({0, 1})
        BY <1>3, <2>1
  <2>. QED BY <2>1, <2>2, <2>3
<1>5. r \in BoardType
  <2>1. /\ r.regs \in [Registers -> UNION {Values[x] : x \in Registers}]
        /\ r.pins \in [Pins -> {0, 1}] /\ r.sdio \in {0, 1}
        /\ r.cpu \in {"running", "stopped", "failed"} /\ r.left \in SUBSET SpiChips
        BY <1>1, <1>2 DEF DrivenTo, BoardType
  <2>2. DOMAIN b = {"regs", "pins", "sdio", "bits", "cpu", "left"}
        BY <1>1 DEF BoardType
  <2>3. r = [x \in {"regs", "pins", "sdio", "bits", "cpu", "left"} |-> r[x]]
        BY <1>2, <2>2
  <2>. QED BY <1>4, <2>1, <2>3 DEF BoardType
<1>6. \A x \in Registers : r.regs[x] \in Values[x]
      BY <1>1, <1>2 DEF DrivenTo
<1>. QED BY <1>3, <1>5, <1>6, BoardParts

(* gpio_set: one pin, or the SDIO line. *)
SetTo(b, pin, value) == IF pin = "PLL_SDIO" THEN b.pins ELSE [b.pins EXCEPT ![pin] = Level(value)]

LEMMA GpioSet ==
  ASSUME NEW b, BoardOK(b), NEW pin \in Pins \cup {"PLL_SDIO"}, NEW value \in Nat,
         NEW sdo \in {0, 1}, NEW r, r = gpio_set(b, pin, value, sdo)
  PROVE  /\ BoardOK(r)
         /\ \E sdio \in {0, 1} : DrivenTo(r, b, SetTo(b, pin, value), sdio)
         /\ pin = "PLL_SDIO" => r.sdio = Level(value)
<1>1. b \in BoardType
      BY BoardParts
<1>2. Level(value) \in {0, 1}
      BY DEF Level
<1>3. PICK sdio \in {0, 1} : /\ r = Driven(b, SetTo(b, pin, value), sdio)
                             /\ pin = "PLL_SDIO" => sdio = Level(value)
      BY <1>2 DEF gpio_set, SetTo
<1>4. SetTo(b, pin, value) \in [Pins -> {0, 1}]
      BY <1>1, <1>2 DEF SetTo, BoardType
<1>5. PICK pins : pins = SetTo(b, pin, value)
      OBVIOUS
<1>6. DrivenTo(r, b, pins, sdio) /\ BoardOK(r)
      BY <1>1, <1>3, <1>4, <1>5, DrivenFields, DrivenOK
<1>. QED BY <1>3, <1>5, <1>6 DEF DrivenTo

WrittenTo(r, b, reg, value) ==
  /\ r.regs = [b.regs EXCEPT ![reg] = value] /\ r.pins = b.pins /\ r.sdio = b.sdio
  /\ r.bits = b.bits /\ r.cpu = b.cpu /\ r.left = b.left

LEMMA WriteReaches ==
  ASSUME NEW b, BoardOK(b), NEW reg \in Registers, NEW value \in Values[reg],
         NEW r, r = rf_writel(b, reg, value)
  PROVE  BoardOK(r) /\ WrittenTo(r, b, reg, value)
<1>1. /\ b \in BoardType /\ \A x \in Registers : b.regs[x] \in Values[x]
      /\ \A c \in Chips : Len(b.bits[c]) <= WordBits
      BY BoardParts
<1>2. PICK f : f = [b.regs EXCEPT ![reg] = value]
      OBVIOUS
<1>3. r = [b EXCEPT !.regs = f]
      BY <1>1, <1>2 DEF rf_writel, BoardType
<1>4. WrittenTo(r, b, reg, value)
      BY <1>1, <1>2, <1>3 DEF WrittenTo, BoardType
<1>5. \A x \in Registers : f[x] \in Values[x]
      BY <1>1, <1>2 DEF BoardType
<1>6. f \in [Registers -> UNION {Values[x] : x \in Registers}]
      BY <1>1, <1>2, <1>5 DEF BoardType
<1>7. r \in BoardType
      BY <1>1, <1>3, <1>6 DEF BoardType
<1>. QED BY <1>1, <1>2, <1>4, <1>5, <1>7, BoardParts DEF WrittenTo

CpuTo(r, b, value) ==
  /\ r.regs = b.regs /\ r.pins = b.pins /\ r.sdio = b.sdio
  /\ r.bits = b.bits /\ r.cpu = value /\ r.left = b.left

LEMMA CpuChanges ==
  ASSUME NEW b, BoardOK(b), NEW value \in {"running", "stopped", "failed"},
         NEW r, r = [b EXCEPT !.cpu = value]
  PROVE  BoardOK(r) /\ CpuTo(r, b, value)
<1>1. /\ b \in BoardType /\ \A x \in Registers : b.regs[x] \in Values[x]
      /\ \A c \in Chips : Len(b.bits[c]) <= WordBits
      BY BoardParts
<1>2. CpuTo(r, b, value)
      BY <1>1 DEF CpuTo, BoardType
<1>3. r \in BoardType
      BY <1>1 DEF BoardType
<1>. QED BY <1>1, <1>2, <1>3, BoardParts DEF CpuTo

LeftTo(r, b, left) ==
  /\ r.regs = b.regs /\ r.pins = b.pins /\ r.sdio = b.sdio
  /\ r.bits = b.bits /\ r.cpu = b.cpu /\ r.left = left

LEMMA LeftChanges ==
  ASSUME NEW b, BoardOK(b), NEW left \in SUBSET SpiChips, NEW r, r = [b EXCEPT !.left = left]
  PROVE  BoardOK(r) /\ LeftTo(r, b, left)
<1>1. /\ b \in BoardType /\ \A x \in Registers : b.regs[x] \in Values[x]
      /\ \A c \in Chips : Len(b.bits[c]) <= WordBits
      BY BoardParts
<1>2. LeftTo(r, b, left)
      BY <1>1 DEF LeftTo, BoardType
<1>3. r \in BoardType
      BY <1>1 DEF BoardType
<1>. QED BY <1>1, <1>2, <1>3, BoardParts DEF LeftTo

LEMMA PowerUpOK == BoardOK(PowerUp)
<1>1. PowerUp \in BoardType
      BY DEF PowerUp, BoardType, Chips, Registers, Values
<1>2. \A r \in Registers : PowerUp.regs[r] \in Values[r]
      BY DEF PowerUp, Registers, Values
<1>3. \A c \in Chips : Len(PowerUp.bits[c]) <= WordBits
  <2>1. \A c \in Chips : PowerUp.bits[c] = <<>>
        BY DEF PowerUp, Chips
  <2>2. Len(<<>>) = 0
        OBVIOUS
  <2>. QED BY <2>1, <2>2, WordBitsAssumption
<1>. QED BY <1>1, <1>2, <1>3, BoardParts

(* The board an access is made to, and the others. *)
OnlyHere == /\ DOMAIN boards' = DOMAIN boards
            /\ \A b \in Boards \ {Board} : boards'[b] = boards[b]

BoardsOK == DOMAIN boards = Boards /\ \A b \in Boards : BoardOK(boards[b])

LEMMA Changing ==
  ASSUME BoardsOK, Board \in Boards, NEW r, Change(r)
  PROVE  OnlyHere /\ boards'[Board] = r
BY DEF BoardsOK, OnlyHere, Change

LEMMA TypeHere == TypeOK /\ Running => Here /\ BoardsOK
<1>1. ASSUME TypeOK, Running PROVE Here /\ BoardsOK
  <2>1. build \in Builds /\ prog \in build
        BY <1>1 DEF TypeOK, Running
  <2>2. prog \in Programs
        BY <2>1 DEF Builds, Programs
  <2>3. pos \in 1 .. Len(Code[prog])
        BY <1>1 DEF TypeOK
  <2>. QED BY <1>1, <2>2, <2>3 DEF Here, BoardsOK, TypeOK
<1>. QED BY <1>1

(* What the actions do to the board. *)
PinSet(sdio) ==
  /\ OnlyHere /\ BoardOK(boards'[Board])
  /\ DrivenTo(boards'[Board], boards[Board],
              SetTo(boards[Board], Access.pin, Access.value), sdio)
  /\ Access.pin = "PLL_SDIO" => sdio = Level(Access.value)

LEMMA SetPinDoes ==
  ASSUME Here, BoardsOK, SetPin
  PROVE  Access.op = "set" /\ \E sdio \in {0, 1} : PinSet(sdio)
<1>1. Access \in AllAccesses /\ Board \in Boards
      BY Here_Access
<1>2. PICK sdo \in {0, 1} : Change(gpio_set(boards[Board], Access.pin, Access.value, sdo))
      BY DEF SetPin
<1>3. Access.op = "set"
      BY DEF SetPin
<1>4. PICK b, pin, value : b = boards[Board] /\ pin = Access.pin /\ value = Access.value
      OBVIOUS
<1>5. BoardOK(b) /\ pin \in Pins \cup {"PLL_SDIO"} /\ value \in Nat
      BY <1>1, <1>3, <1>4, SetTypes DEF BoardsOK
<1>6. PICK r : r = gpio_set(b, pin, value, sdo)
      OBVIOUS
<1>7. OnlyHere /\ boards'[Board] = r
  <2>1. Change(r)
        BY <1>2, <1>4, <1>6
  <2>. QED BY <1>1, <2>1, Changing
<1>8. /\ BoardOK(r)
      /\ \E sdio \in {0, 1} : DrivenTo(r, b, SetTo(b, pin, value), sdio)
      /\ pin = "PLL_SDIO" => r.sdio = Level(value)
      BY <1>5, <1>6, GpioSet
<1>9. PICK sdio \in {0, 1} : DrivenTo(r, b, SetTo(b, pin, value), sdio)
      BY <1>8
<1>10. pin = "PLL_SDIO" => sdio = Level(value)
      BY <1>8, <1>9 DEF DrivenTo
<1>. QED BY <1>3, <1>4, <1>7, <1>8, <1>9, <1>10 DEF PinSet

LEMMA WriteRegDoes ==
  ASSUME Here, BoardsOK, WriteReg
  PROVE  /\ Access.op = "write" /\ OnlyHere /\ BoardOK(boards'[Board])
         /\ Access \in Writes
         /\ WrittenTo(boards'[Board], boards[Board], Access.reg, Access.value)
<1>1. Access \in AllAccesses /\ Board \in Boards /\ Access.op = "write"
      BY Here_Access DEF WriteReg
<1>2. Access.reg \in Registers /\ Access.value \in Values[Access.reg] /\ Access \in Writes
      BY <1>1, WriteTypes
<1>3. PICK r : r = rf_writel(boards[Board], Access.reg, Access.value)
      OBVIOUS
<1>4. OnlyHere /\ boards'[Board] = r
  <2>1. Change(r)
        BY <1>3 DEF WriteReg
  <2>. QED BY <1>1, <2>1, Changing
<1>5. BoardOK(boards[Board])
      BY <1>1 DEF BoardsOK
<1>6. BoardOK(r) /\ WrittenTo(r, boards[Board], Access.reg, Access.value)
      BY <1>2, <1>3, <1>5, WriteReaches
<1>. QED BY <1>1, <1>2, <1>4, <1>6

LEMMA CpuDoes ==
  ASSUME Here, BoardsOK, HaltCpu \/ NoFirmware \/ ReleaseCpu
  PROVE  /\ OnlyHere /\ BoardOK(boards'[Board])
         /\ CpuTo(boards'[Board], boards[Board], boards'[Board].cpu)
         /\ Access.op = IF ReleaseCpu THEN "release" ELSE "halt"
         /\ NoFirmware \/ ReleaseCpu => boards'[Board].cpu # "stopped"
<1>1. Board \in Boards /\ BoardOK(boards[Board])
      BY Here_Access DEF BoardsOK
<1>2. PICK b : b = boards[Board]
      OBVIOUS
<1>3. b.cpu \in {"running", "stopped", "failed"}
      BY <1>1, <1>2, BoardParts DEF BoardType
<1>4. ASSUME NEW v \in {"running", "stopped", "failed"}, Change([b EXCEPT !.cpu = v])
      PROVE  /\ OnlyHere /\ BoardOK(boards'[Board]) /\ boards'[Board].cpu = v
             /\ CpuTo(boards'[Board], boards[Board], boards'[Board].cpu)
  <2>1. PICK r : r = [b EXCEPT !.cpu = v] /\ Change(r)
        BY <1>4
  <2>2. BoardOK(r) /\ CpuTo(r, b, v)
        BY <1>1, <1>2, <2>1, CpuChanges
  <2>3. OnlyHere /\ boards'[Board] = r
        BY <1>1, <2>1, Changing
  <2>4. r.cpu = v
        BY <2>2 DEF CpuTo
  <2>. QED BY <1>2, <2>2, <2>3, <2>4
<1>5. CASE HaltCpu
  <2>1. Access.op = "halt" /\ Change([b EXCEPT !.cpu = "stopped"])
        BY <1>2, <1>5 DEF HaltCpu
  <2>2. ~NoFirmware \/ boards'[Board].cpu # "stopped"
    <3>1. CASE NoFirmware
      <4>1. PICK v : v = IF b.cpu = "stopped" THEN "failed" ELSE b.cpu
            OBVIOUS
      <4>2. Change([b EXCEPT !.cpu = v])
            BY <1>2, <3>1, <4>1 DEF NoFirmware
      <4>3. v \in {"running", "failed"}
            BY <1>3, <4>1
      <4>. QED BY <1>4, <4>2, <4>3
    <3>. QED BY <3>1
  <2>3. ~ReleaseCpu
        BY <2>1 DEF ReleaseCpu
  <2>. QED BY <1>4, <2>1, <2>2, <2>3
<1>6. CASE NoFirmware
  <2>1. PICK v : v = IF b.cpu = "stopped" THEN "failed" ELSE b.cpu
        OBVIOUS
  <2>2. Change([b EXCEPT !.cpu = v]) /\ Access.op = "halt"
        BY <1>2, <1>6, <2>1 DEF NoFirmware
  <2>3. v \in {"running", "failed"}
        BY <1>3, <2>1
  <2>4. ~ReleaseCpu
        BY <2>2 DEF ReleaseCpu
  <2>. QED BY <1>4, <2>2, <2>3, <2>4
<1>7. CASE ReleaseCpu
  <2>1. Access.op = "release" /\ \E v \in {"running", "failed"} : Change([b EXCEPT !.cpu = v])
        BY <1>2, <1>7 DEF ReleaseCpu
  <2>2. PICK v \in {"running", "failed"} : Change([b EXCEPT !.cpu = v])
        BY <2>1
  <2>. QED BY <1>4, <1>7, <2>1, <2>2
<1>. QED BY <1>5, <1>6, <1>7

LEMMA OthersDo ==
  ASSUME ReadReg \/ CheckId \/ CheckLock
  PROVE  boards' = boards /\ Access.op \in {"read", "skip", "poll"}
BY DEF ReadReg, CheckId, CheckLock

LEMMA KillDoes ==
  ASSUME Kill
  PROVE  /\ DOMAIN boards' = Boards
         /\ \A b \in Boards :
              boards'[b] = [boards[b] EXCEPT
                              !.left = {c \in SpiChips : Listens(c, boards[b].pins)}]
         /\ prog' = "none" /\ pos' = 0 /\ build' = build
BY DEF Kill

LEMMA BoardsKept ==
  ASSUME BoardsOK, Board \in Boards, OnlyHere, BoardOK(boards'[Board])
  PROVE  BoardsOK'
<1>1. DOMAIN boards' = Boards
      BY DEF OnlyHere, BoardsOK
<1>2. \A b \in Boards : BoardOK(boards'[b])
      BY DEF OnlyHere, BoardsOK
<1>. QED BY <1>1, <1>2 DEF BoardsOK

LEMMA StepBoards ==
  ASSUME Here, BoardsOK, Step
  PROVE  BoardsOK'
<1>1. Board \in Boards
      BY Here_Access
<1>2. CASE SetPin
  <2>1. OnlyHere /\ BoardOK(boards'[Board])
        BY <1>2, SetPinDoes DEF PinSet
  <2>. QED BY <1>1, <2>1, BoardsKept
<1>3. CASE WriteReg
  <2>1. OnlyHere /\ BoardOK(boards'[Board])
        BY <1>3, WriteRegDoes
  <2>. QED BY <1>1, <2>1, BoardsKept
<1>4. CASE HaltCpu \/ NoFirmware \/ ReleaseCpu
  <2>1. OnlyHere /\ BoardOK(boards'[Board])
        BY <1>4, CpuDoes
  <2>. QED BY <1>1, <2>1, BoardsKept
<1>5. CASE ReadReg \/ CheckId \/ CheckLock
  <2>1. boards' = boards
        BY <1>5, OthersDo
  <2>. QED BY <2>1 DEF BoardsOK
<1>. QED BY <1>2, <1>3, <1>4, <1>5 DEF Step

LEMMA KillBoards ==
  ASSUME BoardsOK, Kill
  PROVE  BoardsOK'
<1>1. ASSUME NEW b \in Boards PROVE BoardOK(boards'[b])
  <2>1. PICK left : left = {c \in SpiChips : Listens(c, boards[b].pins)}
        OBVIOUS
  <2>2. left \in SUBSET SpiChips /\ boards'[b] = [boards[b] EXCEPT !.left = left]
        BY <2>1, KillDoes
  <2>3. BoardOK(boards[b])
        BY DEF BoardsOK
  <2>. QED BY <2>2, <2>3, LeftChanges
<1>. QED BY <1>1, KillDoes DEF BoardsOK

TypeParts == /\ build \in Builds /\ kills \in 0 .. MaxKills
             /\ prog \in build \cup {"none"}
             /\ IF Running THEN pos \in 1 .. Len(Code[prog]) ELSE pos = 0

LEMMA TypeByParts == TypeOK <=> BoardsOK /\ TypeParts
BY DEF TypeOK, BoardsOK, TypeParts

LEMMA InitType == Init => TypeOK
<1>1. ASSUME Init PROVE TypeOK
  <2>1. BoardsOK
        BY <1>1, PowerUpOK DEF Init, BoardsOK
  <2>2. TypeParts
        BY <1>1, BoardsAssumption DEF Init, TypeParts, Running
  <2>. QED BY <2>1, <2>2, TypeByParts
<1>. QED BY <1>1

LEMMA NextType == TypeOK /\ [Next]_vars => TypeOK'
<1>1. SUFFICES ASSUME TypeOK, [Next]_vars PROVE TypeOK'
      OBVIOUS
<1>2. BoardsOK /\ TypeParts
      BY <1>1, TypeByParts
<1>3. ASSUME BoardsOK', TypeParts' PROVE TypeOK'
      BY <1>3 DEF TypeOK, BoardsOK, TypeParts
<1>4. CASE Start
  <2>1. /\ boards' = boards /\ build' = build /\ kills' = kills /\ pos' = 1
        /\ prog' \in build
        BY <1>4 DEF Start
  <2>2. prog' \in Programs
        BY <1>2, <2>1 DEF TypeParts, Builds, Programs
  <2>3. WellFormed(prog') /\ prog' # "none"
        BY <2>2, CodeKnown, NotNone
  <2>4. Len(Code[prog']) \in Nat \ {0}
        BY <2>3 DEF WellFormed
  <2>5. TypeParts'
        BY <1>2, <2>1, <2>3, <2>4 DEF TypeParts, Running
  <2>6. BoardsOK'
        BY <1>2, <2>1 DEF BoardsOK
  <2>. QED BY <1>3, <2>5, <2>6
<1>5. CASE Step
  <2>1. Running
        BY <1>5 DEF Step, SetPin, WriteReg, ReadReg, HaltCpu, NoFirmware, ReleaseCpu,
                    CheckId, CheckLock
  <2>2. Here
        BY <1>1, <2>1, TypeHere
  <2>3. BoardsOK'
        BY <1>2, <1>5, <2>2, StepBoards
  <2>4. Advances /\ UNCHANGED <<build, kills>>
        BY <1>5, <2>2, StepAdvances
  <2>5. TypeParts'
        BY <1>2, <2>1, <2>4 DEF Advances, TypeParts, Running
  <2>. QED BY <1>3, <2>3, <2>5
<1>6. CASE Kill
  <2>1. BoardsOK'
        BY <1>2, <1>6, KillBoards
  <2>2. TypeParts'
        BY <1>2, <1>6, BoardsAssumption DEF Kill, TypeParts, Running
  <2>. QED BY <1>3, <2>1, <2>2
<1>7. CASE UNCHANGED vars
  <2>1. /\ boards' = boards /\ build' = build /\ prog' = prog /\ pos' = pos /\ kills' = kills
        BY <1>7 DEF vars
  <2>2. BoardsOK'
        BY <1>2, <2>1 DEF BoardsOK
  <2>3. TypeParts'
        BY <1>2, <2>1 DEF TypeParts, Running
  <2>. QED BY <1>3, <2>2, <2>3
<1>. QED BY <1>1, <1>4, <1>5, <1>6, <1>7 DEF Next

(* The boards and the program's position in every reachable state of the   *)
(* programs of rf-lib.c and rf-test.c, for every list of words. *)
THEOREM TypeCorrect == Spec => []TypeOK
<1>. QED BY InitType, NextType, PTL DEF Spec

-----------------------------------------------------------------------------
(* The ADF4002.  Before each access of a transfer to it but the first, it  *)
(* has shifted in the bits sent so far, whatever was there before.         *)
EndsWith(bits, w, k) ==
  /\ Len(bits) >= k
  /\ \A i \in 1 .. k : bits[(Len(bits) - k) + i] = w[i]

AdfAt(b, w, j) ==
  /\ j = 2 => b.pins["ADF_CLK"] = 0
  /\ j > 2 => b.pins["ADF_LE"] = 0
  /\ \A k \in 1 .. WordBits :
       /\ j = 3 * k => b.pins["ADF_CLK"] = 0 /\ EndsWith(b.bits["adf"], w, k - 1)
       /\ j = 3 * k + 1 => /\ b.pins["ADF_CLK"] = 0 /\ b.pins["ADF_DATA"] = w[k]
                           /\ EndsWith(b.bits["adf"], w, k - 1)
       /\ j = 3 * k + 2 => b.pins["ADF_CLK"] = 1 /\ EndsWith(b.bits["adf"], w, k)
  /\ j = TransferLen => b.pins["ADF_CLK"] = 0 /\ EndsWith(b.bits["adf"], w, WordBits)

(* What is left of the bits in a chip when one more has come. *)
Kept(all) == IF Len(all) > WordBits THEN Tail(all) ELSE all

LEMMA EndsWithOne ==
  ASSUME NEW bits \in Seq({0, 1}), NEW w, NEW k \in 1 .. WordBits, NEW d,
         EndsWith(bits, w, k - 1), d \in {0, 1}, d = w[k], Len(bits) <= WordBits,
         NEW s, s = Kept(Append(bits, d))
  PROVE  EndsWith(s, w, k)
<1>1. PICK all, n : all = Append(bits, d) /\ n = Len(bits)
      OBVIOUS
<1>0. s = Kept(all)
      BY <1>1, Zenon
<1>2. /\ all \in Seq({0, 1}) /\ n \in Nat /\ Len(all) = n + 1
      /\ \A i \in 1 .. n : all[i] = bits[i]
      /\ all[n + 1] = d /\ n >= k - 1
      /\ \A i \in 1 .. k - 1 : bits[(n - (k - 1)) + i] = w[i]
      /\ k \in Nat /\ k >= 1 /\ WordBits \in Nat /\ n <= WordBits
      BY <1>1, WordBitsAssumption DEF EndsWith
<1>3. ASSUME NEW i \in 1 .. k PROVE all[((n + 1) - k) + i] = w[i]
  <2>1. CASE i = k
    <3>1. ((n + 1) - k) + i = n + 1
          BY <1>2, <2>1
    <3>. QED BY <1>2, <2>1, <3>1
  <2>2. CASE i < k
    <3>1. i \in 1 .. k - 1 /\ ((n + 1) - k) + i = (n - (k - 1)) + i
          /\ (n - (k - 1)) + i \in 1 .. n
          BY <1>2, <2>2
    <3>. QED BY <1>2, <3>1
  <2>. QED BY <2>1, <2>2
<1>4. CASE n + 1 <= WordBits
  <2>0. Len(all) = n + 1 /\ ~(Len(all) > WordBits)
        BY <1>2, <1>4
  <2>1. s = all /\ Len(s) = n + 1
        BY <1>0, <2>0, Zenon DEF Kept
  <2>2. Len(s) >= k
        BY <1>2, <2>1
  <2>3. \A i \in 1 .. k : s[(Len(s) - k) + i] = w[i]
        BY <1>3, <2>1
  <2>. QED BY <2>2, <2>3 DEF EndsWith
<1>5. CASE n + 1 > WordBits
  <2>0. Len(all) > WordBits
        BY <1>2, <1>5
  <2>1. s = Tail(all)
        BY <1>0, <2>0, Zenon DEF Kept
  <2>2. Len(s) = n /\ \A i \in 1 .. n : s[i] = all[i + 1]
    <3>1. Len(all) \in Nat \ {0} /\ Len(all) - 1 = n
          BY <1>2
    <3>2. all \in Seq({0, 1}) /\ all # <<>>
          BY <1>2, <3>1
    <3>3. /\ Len(Tail(all)) = Len(all) - 1
          /\ \A i \in 1 .. Len(all) - 1 : Tail(all)[i] = all[i + 1]
          BY <3>1, <3>2
    <3>4. Len(Tail(all)) = n /\ \A i \in 1 .. n : Tail(all)[i] = all[i + 1]
          BY <3>1, <3>3, Zenon
    <3>. QED BY <2>1, <3>4, Zenon
  <2>3. n = WordBits /\ n >= k
        BY <1>2, <1>5
  <2>4. ASSUME NEW i \in 1 .. k PROVE s[(n - k) + i] = w[i]
    <3>1. (n - k) + i \in 1 .. n /\ ((n - k) + i) + 1 = ((n + 1) - k) + i
          BY <1>2, <2>3
    <3>2. s[(n - k) + i] = all[((n - k) + i) + 1]
          BY <2>2, <3>1
    <3>3. all[((n + 1) - k) + i] = w[i]
          BY <1>3
    <3>. QED BY <3>1, <3>2, <3>3
  <2>. QED BY <2>2, <2>3, <2>4 DEF EndsWith
<1>. QED BY <1>2, <1>4, <1>5

LEMMA WholeWord ==
  ASSUME NEW bits \in Seq({0, 1}), NEW w \in Words, Len(bits) <= WordBits,
         EndsWith(bits, w, WordBits)
  PROVE  bits = w
<1>1. WordBits \in Nat /\ Len(bits) = WordBits
      BY WordBitsAssumption DEF EndsWith
<1>2. \A i \in 1 .. WordBits : bits[i] = w[i]
  <2>1. ASSUME NEW i \in 1 .. WordBits PROVE bits[i] = w[i]
    <3>1. bits[(Len(bits) - WordBits) + i] = w[i]
          BY DEF EndsWith
    <3>2. (Len(bits) - WordBits) + i = i
          BY <1>1
    <3>. QED BY <3>1, <3>2
  <2>. QED BY <2>1
<1>3. bits = [i \in 1 .. WordBits |-> bits[i]] /\ w = [i \in 1 .. WordBits |-> w[i]]
      BY <1>1 DEF Words
<1>. QED BY <1>2, <1>3

(* The other pins and what the chips have shifted in after one is set.     *)
LEMMA PinsLevel ==
  ASSUME NEW b, BoardOK(b), NEW pin \in Pins \cup {"PLL_SDIO"}, NEW value,
         NEW sdio, NEW r, DrivenTo(r, b, SetTo(b, pin, value), sdio)
  PROVE  /\ \A p \in Pins : r.pins[p] = IF p = pin THEN Level(value) ELSE b.pins[p]
         /\ r.bits["adf"] = AdfShiftedBy(b, r.pins)
         /\ \A c \in SpiChips : r.bits[c] = ShiftedBy(b, r.pins, c)
         /\ \A p \in Pins : b.pins[p] \in {0, 1}
<1>1. b.pins \in [Pins -> {0, 1}]
      BY BoardParts DEF BoardType
<1>2. "PLL_SDIO" \notin Pins
      BY DEF Pins
<1>3. r.pins = SetTo(b, pin, value)
      BY DEF DrivenTo
<1>4. \A p \in Pins : r.pins[p] = IF p = pin THEN Level(value) ELSE b.pins[p]
      BY <1>1, <1>2, <1>3 DEF SetTo
<1>5. r.bits = [c \in Chips |-> IF c = "adf" THEN AdfShiftedBy(b, r.pins)
                                ELSE ShiftedBy(b, r.pins, c)]
      BY <1>3 DEF DrivenTo
<1>6. r.bits["adf"] = AdfShiftedBy(b, r.pins)
      BY <1>5 DEF Chips
<1>7. \A c \in SpiChips : r.bits[c] = ShiftedBy(b, r.pins, c)
      BY <1>5 DEF Chips, SpiChips
<1>. QED BY <1>1, <1>4, <1>6, <1>7

(* The same under one name: what r is when a pin of b has been set.        *)
Settled(r, b, pin, value) ==
  /\ \A p \in Pins : r.pins[p] = IF p = pin THEN Level(value) ELSE b.pins[p]
  /\ r.bits["adf"] = AdfShiftedBy(b, r.pins)
  /\ \A c \in SpiChips : r.bits[c] = ShiftedBy(b, r.pins, c)
  /\ \A p \in Pins : b.pins[p] \in {0, 1}

LEMMA PinsSettled ==
  ASSUME NEW b, BoardOK(b), NEW pin \in Pins \cup {"PLL_SDIO"}, NEW value,
         NEW sdio, NEW r, DrivenTo(r, b, SetTo(b, pin, value), sdio)
  PROVE  Settled(r, b, pin, value)
BY PinsLevel DEF Settled

LEMMA PinsAfter ==
  ASSUME NEW b, BoardOK(b), NEW pin \in Pins \cup {"PLL_SDIO"}, NEW value \in {0, 1},
         NEW sdio, NEW r, DrivenTo(r, b, SetTo(b, pin, value), sdio)
  PROVE  /\ \A p \in Pins : r.pins[p] = IF p = pin THEN value ELSE b.pins[p]
         /\ r.bits["adf"] = AdfShiftedBy(b, r.pins)
         /\ \A p \in Pins : b.pins[p] \in {0, 1}
<1>1. Level(value) = value
      BY DEF Level
<1>. QED BY <1>1, PinsLevel

LEMMA AdfStep ==
  ASSUME NEW b, BoardOK(b), NEW r, BoardOK(r), NEW a, AdfPart(a), a.at < TransferLen,
         a.at > 1 => AdfAt(b, a.word, a.at),
         NEW sdio, DrivenTo(r, b, SetTo(b, a.pin, a.value), sdio)
  PROVE  AdfAt(r, a.word, a.at + 1)
<1>1. PICK w, j, pin, value : w = a.word /\ j = a.at /\ pin = a.pin /\ value = a.value
      OBVIOUS
<1>2. /\ w \in [1 .. WordBits -> {0, 1}] /\ j \in 1 .. TransferLen
      /\ j = 1 => pin = "ADF_CLK" /\ value = 0
      /\ j = 2 => pin = "ADF_LE" /\ value = 0
      /\ \A k \in 1 .. WordBits :
           /\ j = 3 * k => pin = "ADF_DATA" /\ value = w[k]
           /\ j = 3 * k + 1 => pin = "ADF_CLK" /\ value = 1
           /\ j = 3 * k + 2 => pin = "ADF_CLK" /\ value = 0
      BY <1>1 DEF AdfPart, Words
<1>3. TransferLen = 3 * WordBits + 3 /\ WordBits \in Nat \ {0} /\ j < TransferLen
      BY <1>1, WordBitsAssumption DEF TransferLen
<1>4. j > 1 => AdfAt(b, w, j)
      BY <1>1
<1>5. DrivenTo(r, b, SetTo(b, pin, value), sdio)
      BY <1>1
<1>6. \/ j \in {1, 2}
      \/ \E k \in 1 .. WordBits : j = 3 * k
      \/ \E k \in 1 .. WordBits : j = 3 * k + 1
      \/ \E k \in 1 .. WordBits : j = 3 * k + 2
  <2>1. \/ j \in {1, 2, TransferLen}
        \/ \E k \in 1 .. WordBits : j = 3 * k
        \/ \E k \in 1 .. WordBits : j = 3 * k + 1
        \/ \E k \in 1 .. WordBits : j = 3 * k + 2
        BY <1>2, Places
  <2>2. j # TransferLen
        BY <1>2, <1>3
  <2>. QED BY <2>1, <2>2
<1>7. {"ADF_CLK", "ADF_LE", "ADF_DATA"} \subseteq Pins
      BY DEF Pins
<1>8. value \in {0, 1} /\ pin \in {"ADF_CLK", "ADF_LE", "ADF_DATA"}
      BY <1>2, <1>6
<1>9. /\ \A p \in Pins : r.pins[p] = IF p = pin THEN value ELSE b.pins[p]
      /\ r.bits["adf"] = AdfShiftedBy(b, r.pins)
      /\ \A p \in Pins : b.pins[p] \in {0, 1}
      BY <1>5, <1>7, <1>8, PinsAfter
<1>10. PICK clk, le, data, clk2, le2, data2 :
         /\ clk = b.pins["ADF_CLK"] /\ le = b.pins["ADF_LE"] /\ data = b.pins["ADF_DATA"]
         /\ clk2 = r.pins["ADF_CLK"] /\ le2 = r.pins["ADF_LE"] /\ data2 = r.pins["ADF_DATA"]
       OBVIOUS
<1>11. /\ clk2 = IF pin = "ADF_CLK" THEN value ELSE clk
       /\ le2 = IF pin = "ADF_LE" THEN value ELSE le
       /\ data2 = IF pin = "ADF_DATA" THEN value ELSE data
       BY <1>7, <1>9, <1>10
<1>12. PICK bits, bits2 : bits = b.bits["adf"] /\ bits2 = r.bits["adf"]
       OBVIOUS
<1>13. /\ bits \in Seq({0, 1}) /\ Len(bits) <= WordBits /\ bits2 \in Seq({0, 1})
       BY <1>12, BoardParts DEF BoardType, Chips
<1>14. /\ ~(clk = 0 /\ clk2 = 1) => bits2 = bits
       /\ clk = 0 /\ clk2 = 1 =>
            bits2 = IF Len(Append(bits, data2)) > WordBits THEN Tail(Append(bits, data2))
                    ELSE Append(bits, data2)
       BY <1>9, <1>10, <1>12 DEF AdfShiftedBy, Rises
<1>15. EndsWith(bits2, w, 0)
       BY <1>13 DEF EndsWith
<1>16. /\ j = 2 => clk = 0
       /\ j > 2 => le = 0
       /\ \A k \in 1 .. WordBits :
            /\ j = 3 * k => clk = 0 /\ EndsWith(bits, w, k - 1)
            /\ j = 3 * k + 1 => clk = 0 /\ data = w[k] /\ EndsWith(bits, w, k - 1)
            /\ j = 3 * k + 2 => clk = 1 /\ EndsWith(bits, w, k)
  <2>1. CASE j > 1
        BY <1>4, <1>10, <1>12, <2>1 DEF AdfAt
  <2>2. CASE j = 1
    <3>1. ASSUME NEW k \in 1 .. WordBits PROVE j \notin {3 * k, 3 * k + 1, 3 * k + 2}
          BY <1>3, <2>2
    <3>. QED BY <2>2, <3>1
  <2>. QED BY <1>2, <1>3, <2>1, <2>2
<1>17. ASSUME /\ j + 1 = 2 => clk2 = 0
              /\ j + 1 > 2 => le2 = 0
              /\ \A k \in 1 .. WordBits :
                   /\ j + 1 = 3 * k => clk2 = 0 /\ EndsWith(bits2, w, k - 1)
                   /\ j + 1 = 3 * k + 1 => /\ clk2 = 0 /\ data2 = w[k]
                                           /\ EndsWith(bits2, w, k - 1)
                   /\ j + 1 = 3 * k + 2 => clk2 = 1 /\ EndsWith(bits2, w, k)
              /\ j + 1 = TransferLen => clk2 = 0 /\ EndsWith(bits2, w, WordBits)
       PROVE  AdfAt(r, w, j + 1)
       BY <1>10, <1>12, <1>17 DEF AdfAt
<1>18. CASE j = 1
  <2>1. clk2 = 0 /\ j + 1 = 2
        BY <1>2, <1>11, <1>18
  <2>2. ASSUME NEW k \in 1 .. WordBits PROVE 2 \notin {3 * k, 3 * k + 1, 3 * k + 2}
        OBVIOUS
  <2>3. 2 # TransferLen
        BY <1>3
  <2>. QED BY <1>1, <1>17, <2>1, <2>2, <2>3
<1>19. CASE j = 2
  <2>1. clk2 = 0 /\ le2 = 0 /\ j + 1 = 3
        BY <1>2, <1>11, <1>16, <1>19
  <2>2. ASSUME NEW k \in 1 .. WordBits
        PROVE  3 \notin {3 * k + 1, 3 * k + 2} /\ (3 = 3 * k => k - 1 = 0)
        OBVIOUS
  <2>3. 3 # TransferLen
        BY <1>3
  <2>. QED BY <1>1, <1>15, <1>17, <2>1, <2>2, <2>3
<1>20. ASSUME NEW k \in 1 .. WordBits, j = 3 * k PROVE AdfAt(r, w, j + 1)
  <2>1. /\ clk = 0 /\ EndsWith(bits, w, k - 1) /\ le = 0
        BY <1>16, <1>20
  <2>2. pin = "ADF_DATA" /\ value = w[k]
        BY <1>2, <1>20
  <2>3. clk2 = 0 /\ le2 = 0 /\ data2 = w[k] /\ bits2 = bits
        BY <1>11, <1>14, <2>1, <2>2
  <2>4. ASSUME NEW m \in 1 .. WordBits
        PROVE  j + 1 \notin {3 * m, 3 * m + 2} /\ (j + 1 = 3 * m + 1 => m = k)
        BY <1>20
  <2>5. j + 1 # TransferLen /\ j + 1 # 2
        BY <1>3, <1>20
  <2>. QED BY <1>17, <2>1, <2>3, <2>4, <2>5
<1>21. ASSUME NEW k \in 1 .. WordBits, j = 3 * k + 1 PROVE AdfAt(r, w, j + 1)
  <2>1. /\ clk = 0 /\ data = w[k] /\ EndsWith(bits, w, k - 1) /\ le = 0
        BY <1>16, <1>21
  <2>2. pin = "ADF_CLK" /\ value = 1
        BY <1>2, <1>21
  <2>3. /\ clk2 = 1 /\ le2 = 0 /\ data2 = w[k] /\ data2 \in {0, 1}
        BY <1>2, <1>11, <2>1, <2>2
  <2>4. bits2 = Kept(Append(bits, data2))
        BY <1>14, <2>1, <2>3 DEF Kept
  <2>5. EndsWith(bits2, w, k)
        BY <1>13, <2>1, <2>3, <2>4, EndsWithOne
  <2>6. ASSUME NEW m \in 1 .. WordBits
        PROVE  j + 1 \notin {3 * m, 3 * m + 1} /\ (j + 1 = 3 * m + 2 => m = k)
        BY <1>21
  <2>7. j + 1 # TransferLen /\ j + 1 # 2
        BY <1>3, <1>21
  <2>. QED BY <1>17, <2>3, <2>5, <2>6, <2>7
<1>22. ASSUME NEW k \in 1 .. WordBits, j = 3 * k + 2 PROVE AdfAt(r, w, j + 1)
  <2>1. /\ clk = 1 /\ EndsWith(bits, w, k) /\ le = 0
        BY <1>16, <1>22
  <2>2. pin = "ADF_CLK" /\ value = 0
        BY <1>2, <1>22
  <2>3. clk2 = 0 /\ le2 = 0 /\ bits2 = bits
        BY <1>11, <1>14, <2>1, <2>2
  <2>4. ASSUME NEW m \in 1 .. WordBits
        PROVE  j + 1 \notin {3 * m + 1, 3 * m + 2} /\ (j + 1 = 3 * m => m - 1 = k)
        BY <1>22
  <2>5. (j + 1 = TransferLen => WordBits = k) /\ j + 1 # 2
        BY <1>3, <1>22
  <2>. QED BY <1>17, <2>1, <2>3, <2>4, <2>5
<1>. QED BY <1>1, <1>6, <1>18, <1>19, <1>20, <1>21, <1>22

(* Past the first access of a transfer to chip c. *)
Talks(a, c) == a.op = "set" /\ a.chip = c /\ a.at > 1

AdfInv == Running /\ Talks(Access, "adf")
            => AdfAt(boards[Board], Access.word, Access.at)

LEMMA AdfTalk ==
  ASSUME NEW a \in AllAccesses, a.op = "set", a.chip = "adf"
  PROVE  a \in AdfAccesses
<1>1. \A c \in SpiChips : \A x \in SpiAccesses(c) : x.chip = c
      BY SpiAccess
<1>2. "adf" \notin SpiChips
      BY DEF SpiChips
<1>3. Set("ADF_CE", 1).chip = "none" /\ \A c : \A x \in Resets(c) : x.chip = "none"
      BY DEF Set, Resets
<1>. QED BY <1>1, <1>2, <1>3, SetKinds

LEMMA SpiTalk ==
  ASSUME NEW a \in AllAccesses, a.op = "set", NEW c \in SpiChips, a.chip = c
  PROVE  a \in SpiAccesses(c)
<1>1. \A d \in SpiChips : \A x \in SpiAccesses(d) : x.chip = d
      BY SpiAccess
<1>2. c # "adf" /\ c # "none"
      BY DEF SpiChips
<1>3. Set("ADF_CE", 1).chip = "none" /\ \A d : \A x \in Resets(d) : x.chip = "none"
      BY DEF Set, Resets
<1>4. \A x \in AdfAccesses : x.chip = "adf"
      BY AdfAccess
<1>. QED BY <1>1, <1>2, <1>3, <1>4, SetKinds

(* In a transfer after a step: the step was the access before. *)
LEMMA Continues ==
  ASSUME Here, Step, Running', Place(Access') > 1
  PROVE  /\ SetPin /\ Inside(Access) /\ prog' = prog /\ pos' = pos + 1 /\ Board' = Board
         /\ Access'.op = "set" /\ Access'.at = Access.at + 1
         /\ Access'.chip = Access.chip /\ Access'.word = Access.word
         /\ Access.op = "set" /\ Access.at > 0 /\ Access.at < TransferLen
<1>1. Advances
      BY StepAdvances
<1>2. prog' # "none"
      BY DEF Running
<1>3. /\ prog' = prog /\ Follows(Access, Access')
      /\ Inside(Access) => pos' = pos + 1 /\ Board' = Board
      BY <1>1, <1>2 DEF Advances
<1>4. Inside(Access)
      BY <1>3 DEF Follows
<1>5. Access.op = "set" /\ Access.at > 0 /\ Access.at < TransferLen
      BY <1>4 DEF Inside, Place
<1>6. SetPin
      BY <1>5 DEF Step, SetPin, WriteReg, ReadReg, HaltCpu, NoFirmware, ReleaseCpu,
                  CheckId, CheckLock
<1>. QED BY <1>3, <1>4, <1>5, <1>6 DEF Follows

LEMMA Starts ==
  ASSUME TypeOK, Start
  PROVE  Place(Access') \in {0, 1} /\ boards' = boards /\ build' = build
         /\ prog' \in build /\ prog' \in Programs /\ pos' = 1
<1>1. boards' = boards /\ build' = build /\ prog' \in build /\ pos' = 1
      BY DEF Start
<1>2. prog' \in Programs
      BY <1>1 DEF TypeOK, Builds, Programs
<1>3. PICK p : p = prog'
      OBVIOUS
<1>4. WellFormed(p)
      BY <1>2, <1>3, CodeKnown
<1>5. PICK q : q = Ops(p)
      OBVIOUS
<1>6. Place(q[1]) \in {0, 1} /\ Len(q) \in Nat \ {0}
      BY <1>4, <1>5 DEF WellFormed, Chains
<1>7. Code[p][1].access = q[1]
  <2>1. 1 \in 1 .. Len(q)
        BY <1>6
  <2>. QED BY <1>4, <1>5, <2>1 DEF WellFormed
<1>8. Access' = Code[p][1].access
      BY <1>1, <1>3 DEF Access
<1>. QED BY <1>1, <1>2, <1>6, <1>7, <1>8

LEMMA TalksPlace ==
  ASSUME NEW a, NEW c, Talks(a, c)
  PROVE  Place(a) > 1
BY DEF Talks, Place

LEMMA StepIsRunning == Step => Running
BY DEF Step, SetPin, WriteReg, ReadReg, HaltCpu, NoFirmware, ReleaseCpu, CheckId, CheckLock

LEMMA InitAdf == Init => AdfInv
BY DEF Init, AdfInv, Running

LEMMA NextAdf == TypeOK /\ AdfInv /\ [Next]_vars => AdfInv'
<1>1. SUFFICES ASSUME TypeOK, AdfInv, [Next]_vars PROVE AdfInv'
      OBVIOUS
<1>2. ASSUME ~(Running' /\ Talks(Access', "adf")) PROVE AdfInv'
      BY <1>2 DEF AdfInv
<1>3. CASE Step /\ Running' /\ Talks(Access', "adf")
  <2>1. Here /\ BoardsOK /\ Running
        BY <1>1, <1>3, TypeHere, StepIsRunning
  <2>2. Place(Access') > 1
        BY <1>3, TalksPlace
  <2>3. /\ SetPin /\ Board' = Board
        /\ Access'.op = "set" /\ Access'.at = Access.at + 1
        /\ Access'.chip = Access.chip /\ Access'.word = Access.word
        /\ Access.op = "set" /\ Access.at > 0 /\ Access.at < TransferLen
        BY <1>3, <2>1, <2>2, Continues
  <2>4. Access.chip = "adf" /\ Access \in AllAccesses
        BY <1>3, <2>1, <2>3, Here_Access DEF Talks
  <2>5. AdfPart(Access)
        BY <2>3, <2>4, AdfTalk, AdfAccessParts
  <2>6. PICK b, r, a : b = boards[Board] /\ r = boards'[Board] /\ a = Access
        OBVIOUS
  <2>7. a.at > 1 => AdfAt(b, a.word, a.at)
        BY <1>1, <2>1, <2>3, <2>4, <2>6 DEF AdfInv, Talks
  <2>8. PICK sdio \in {0, 1} : PinSet(sdio)
        BY <2>1, <2>3, SetPinDoes
  <2>9. BoardOK(b) /\ BoardOK(r) /\ DrivenTo(r, b, SetTo(b, a.pin, a.value), sdio)
        BY <2>1, <2>6, <2>8, Here_Access DEF PinSet, BoardsOK
  <2>10. AdfPart(a) /\ a.at < TransferLen
        BY <2>3, <2>5, <2>6
  <2>11. AdfAt(r, a.word, a.at + 1)
        BY <2>7, <2>9, <2>10, AdfStep
  <2>12. AdfAt(boards'[Board'], Access'.word, Access'.at)
        BY <2>3, <2>6, <2>11
  <2>. QED BY <2>12 DEF AdfInv
<1>4. CASE Start
  <2>1. ~Talks(Access', "adf")
        BY <1>1, <1>4, Starts, TalksPlace
  <2>. QED BY <1>2, <2>1
<1>5. CASE Kill
      BY <1>2, <1>5 DEF Kill, Running
<1>6. CASE UNCHANGED vars
      BY <1>1, <1>6 DEF vars, AdfInv, Running, Access, Board
<1>. QED BY <1>1, <1>2, <1>3, <1>4, <1>5, <1>6 DEF Next

(* LE rises with the last access of a transfer only, and then the word is  *)
(* complete. *)
LEMMA AdfLatched ==
  ASSUME TypeOK, AdfInv, SetPin, NEW b \in Boards, AdfLatches(boards[b], boards'[b])
  PROVE  /\ Access.chip = "adf" /\ Board = b
         /\ boards'[b].bits["adf"] = Access.word
<1>1. Running
      BY DEF SetPin
<1>2. Here /\ BoardsOK
      BY <1>1, TypeHere
<1>3. Access.op = "set" /\ Access \in AllAccesses /\ Board \in Boards
      BY <1>2, SetPinDoes, Here_Access
<1>4. PICK sdio \in {0, 1} : PinSet(sdio)
      BY <1>2, SetPinDoes
<1>5. Board = b
      BY <1>4 DEF PinSet, OnlyHere, AdfLatches
<1>6. PICK old, r, a : old = boards[b] /\ r = boards'[b] /\ a = Access
      OBVIOUS
<1>7. /\ BoardOK(old) /\ BoardOK(r) /\ DrivenTo(r, old, SetTo(old, a.pin, a.value), sdio)
      /\ old.pins["ADF_LE"] = 0 /\ r.pins["ADF_LE"] = 1
      BY <1>2, <1>4, <1>5, <1>6 DEF PinSet, BoardsOK, AdfLatches
<1>8. a \in AllAccesses /\ a.op = "set" /\ a.pin \in Pins \cup {"PLL_SDIO"}
      BY <1>3, <1>6, SetTypes
<1>9. a.pin = "ADF_LE" /\ a.value # 0
  <2>1. old.pins \in [Pins -> {0, 1}] /\ "ADF_LE" \in Pins
        BY <1>7, BoardParts DEF BoardType, Pins
  <2>2. r.pins = SetTo(old, a.pin, a.value)
        BY <1>7 DEF DrivenTo
  <2>. QED BY <1>7, <1>8, <2>1, <2>2 DEF SetTo, Level
<1>10. a \in AdfAccesses
  <2>1. \A c \in SpiChips : cs_n(c) # "ADF_LE" /\ reset_n(c) # "ADF_LE"
        BY DEF cs_n, reset_n
  <2>2. ASSUME NEW c \in SpiChips, a \in SpiAccesses(c) PROVE FALSE
    <3>1. SpiPart(a, c)
          BY <2>2, SpiAccessParts
    <3>2. PICK j : j = a.at /\ j \in 1 .. TransferLen
          BY <3>1 DEF SpiPart
    <3>3. a.pin \in {"PLL_SCLK", "PLL_SDIO", cs_n(c)}
          BY <3>1, <3>2, Places DEF SpiPart
    <3>. QED BY <1>9, <2>1, <3>3
  <2>3. \A c \in SpiChips : a \notin Resets(c)
        BY <1>9, <2>1 DEF Resets, Set
  <2>4. a # Set("ADF_CE", 1)
        BY <1>9 DEF Set
  <2>. QED BY <1>8, <2>2, <2>3, <2>4, SetKinds
<1>11. AdfPart(a)
      BY <1>10, AdfAccessParts
<1>12. a.at = TransferLen /\ a.value = 1
  <2>1. PICK j : j = a.at /\ j \in 1 .. TransferLen
        BY <1>11 DEF AdfPart
  <2>2. \/ j \in {1, 2, TransferLen}
        \/ \E k \in 1 .. WordBits : j = 3 * k
        \/ \E k \in 1 .. WordBits : j = 3 * k + 1
        \/ \E k \in 1 .. WordBits : j = 3 * k + 2
        BY <2>1, Places
  <2>. QED BY <1>9, <1>11, <2>1, <2>2 DEF AdfPart
<1>13. AdfAt(old, a.word, TransferLen) /\ a.chip = "adf"
  <2>1. TransferLen > 1
        BY WordBitsAssumption DEF TransferLen
  <2>2. Talks(Access, "adf")
        BY <1>6, <1>11, <1>12, <2>1 DEF Talks, AdfPart
  <2>. QED BY <1>1, <1>5, <1>6, <1>11, <1>12, <2>2 DEF AdfInv, AdfPart
<1>14. EndsWith(old.bits["adf"], a.word, WordBits)
      BY <1>13 DEF AdfAt
<1>15. r.bits["adf"] = old.bits["adf"]
  <2>1. a.pin \in Pins \cup {"PLL_SDIO"} /\ a.value \in {0, 1}
        BY <1>8, <1>12
  <2>2. /\ \A p \in Pins : r.pins[p] = IF p = a.pin THEN a.value ELSE old.pins[p]
        /\ r.bits["adf"] = AdfShiftedBy(old, r.pins)
        BY <1>7, <2>1, PinsAfter
  <2>3. r.pins["ADF_CLK"] = old.pins["ADF_CLK"]
        BY <1>9, <2>2 DEF Pins
  <2>. QED BY <2>2, <2>3 DEF AdfShiftedBy, Rises
<1>16. old.bits["adf"] = a.word
  <2>1. old.bits["adf"] \in Seq({0, 1}) /\ Len(old.bits["adf"]) <= WordBits
        BY <1>7, BoardParts DEF BoardType, Chips
  <2>2. a.word \in Words
        BY <1>11 DEF AdfPart
  <2>. QED BY <1>14, <2>1, <2>2, WholeWord
<1>. QED BY <1>5, <1>6, <1>13, <1>15, <1>16

-----------------------------------------------------------------------------
(* The SPI chips.  Before each access of a transfer to chip c but the      *)
(* first, c has shifted in exactly the bits sent so far.                   *)
Shifted(bits, w, k) == Len(bits) = k /\ \A i \in 1 .. k : bits[i] = w[i]

SpiAt(b, c, w, j) ==
  /\ j = 2 => b.pins["PLL_SCLK"] = 0 /\ Shifted(b.bits[c], w, 0)
  /\ j > 2 => b.pins[cs_n(c)] = 0
  /\ \A k \in 1 .. WordBits :
       /\ j = 3 * k => b.pins["PLL_SCLK"] = 0 /\ Shifted(b.bits[c], w, k - 1)
       /\ j = 3 * k + 1 => /\ b.pins["PLL_SCLK"] = 0 /\ b.sdio = w[k]
                           /\ Shifted(b.bits[c], w, k - 1)
       /\ j = 3 * k + 2 => b.pins["PLL_SCLK"] = 1 /\ Shifted(b.bits[c], w, k)
  /\ j = TransferLen => Shifted(b.bits[c], w, WordBits)

LEMMA ShiftedOne ==
  ASSUME NEW bits \in Seq({0, 1}), NEW w, NEW k \in 1 .. WordBits, NEW d,
         Shifted(bits, w, k - 1), d = w[k]
  PROVE  Shifted(Append(bits, d), w, k)
<1>1. PICK all, n : all = Append(bits, d) /\ n = Len(bits)
      OBVIOUS
<1>2. /\ n \in Nat /\ Len(all) = n + 1 /\ \A i \in 1 .. n : all[i] = bits[i]
      /\ all[n + 1] = d /\ n = k - 1 /\ k \in Nat
      BY <1>1, WordBitsAssumption DEF Shifted
<1>3. \A i \in 1 .. n : bits[i] = w[i]
      BY <1>2 DEF Shifted
<1>4. \A i \in 1 .. k : all[i] = w[i]
      BY <1>2, <1>3
<1>. QED BY <1>1, <1>2, <1>4 DEF Shifted

LEMMA ShiftedWord ==
  ASSUME NEW bits \in Seq({0, 1}), NEW w \in Words, Shifted(bits, w, WordBits)
  PROVE  bits = w
<1>1. WordBits \in Nat /\ Len(bits) = WordBits /\ \A i \in 1 .. WordBits : bits[i] = w[i]
      BY WordBitsAssumption DEF Shifted
<1>2. bits = [i \in 1 .. WordBits |-> bits[i]] /\ w = [i \in 1 .. WordBits |-> w[i]]
      BY <1>1 DEF Words
<1>. QED BY <1>1, <1>2

LEMMA SpiPins ==
  ASSUME NEW c \in SpiChips
  PROVE  /\ cs_n(c) \in Pins /\ reset_n(c) \in Pins /\ "PLL_SCLK" \in Pins
         /\ cs_n(c) # "PLL_SCLK" /\ reset_n(c) # "PLL_SCLK" /\ cs_n(c) # reset_n(c)
         /\ \A d \in SpiChips : d # c => /\ cs_n(d) \notin {cs_n(c), reset_n(c)}
                                         /\ reset_n(d) \notin {cs_n(c), reset_n(c)}
         /\ {cs_n(c), reset_n(c), "PLL_SCLK"}
              \cap {"PLL_SDIO", "ADF_CLK", "ADF_LE", "ADF_DATA", "ADF_CE"} = {}
         /\ cs_n(c) # "PLL_SDIO" /\ reset_n(c) # "PLL_SDIO"
BY DEF cs_n, reset_n, Pins, SpiChips

LEMMA MaskedBit ==
  ASSUME NEW v \in {0, 1}
  PROVE  Level(v * Mask) = v
<1>1. Mask \in Nat /\ Mask # 0
      BY WordsAssumption
<1>2. CASE v = 0
  <2>1. v * Mask = 0
        BY <1>1, <1>2
  <2>. QED BY <1>2, <2>1 DEF Level
<1>3. CASE v = 1
  <2>1. v * Mask # 0
        BY <1>1, <1>3
  <2>. QED BY <1>3, <2>1 DEF Level
<1>. QED BY <1>2, <1>3

LEMMA SpiStep ==
  ASSUME NEW b, BoardOK(b), NEW r, BoardOK(r), NEW c \in SpiChips,
         NEW a, SpiPart(a, c), a.at < TransferLen,
         IF a.at > 1 THEN SpiAt(b, c, a.word, a.at) ELSE b.bits[c] = <<>>,
         b.pins[reset_n(c)] = 1,
         NEW sdio, DrivenTo(r, b, SetTo(b, a.pin, a.value), sdio),
         a.pin = "PLL_SDIO" => sdio = Level(a.value)
  PROVE  SpiAt(r, c, a.word, a.at + 1)
<1>1. PICK w, j, pin, value : w = a.word /\ j = a.at /\ pin = a.pin /\ value = a.value
      OBVIOUS
<1>2. /\ w \in [1 .. WordBits -> {0, 1}] /\ j \in 1 .. TransferLen
      /\ j = 1 => pin = "PLL_SCLK" /\ value = 0
      /\ j = 2 => pin = cs_n(c) /\ value = 0
      /\ \A k \in 1 .. WordBits :
           /\ j = 3 * k => pin = "PLL_SDIO" /\ value = w[k] * Mask
           /\ j = 3 * k + 1 => pin = "PLL_SCLK" /\ value = 1
           /\ j = 3 * k + 2 => pin = "PLL_SCLK" /\ value = 0
      BY <1>1 DEF SpiPart, Words
<1>3. TransferLen = 3 * WordBits + 3 /\ WordBits \in Nat \ {0} /\ j < TransferLen
      BY <1>1, WordBitsAssumption DEF TransferLen
<1>4. /\ j > 1 => SpiAt(b, c, w, j)
      /\ j = 1 => b.bits[c] = <<>>
      BY <1>1
<1>5. DrivenTo(r, b, SetTo(b, pin, value), sdio) /\ (pin = "PLL_SDIO" => sdio = Level(value))
      BY <1>1
<1>6. \/ j \in {1, 2}
      \/ \E k \in 1 .. WordBits : j = 3 * k
      \/ \E k \in 1 .. WordBits : j = 3 * k + 1
      \/ \E k \in 1 .. WordBits : j = 3 * k + 2
  <2>1. \/ j \in {1, 2, TransferLen}
        \/ \E k \in 1 .. WordBits : j = 3 * k
        \/ \E k \in 1 .. WordBits : j = 3 * k + 1
        \/ \E k \in 1 .. WordBits : j = 3 * k + 2
        BY <1>2, Places
  <2>2. j # TransferLen
        BY <1>2, <1>3
  <2>. QED BY <2>1, <2>2
<1>7. /\ cs_n(c) \in Pins /\ reset_n(c) \in Pins /\ "PLL_SCLK" \in Pins
      /\ cs_n(c) # "PLL_SCLK" /\ reset_n(c) # "PLL_SCLK" /\ cs_n(c) # reset_n(c)
      /\ cs_n(c) # "PLL_SDIO" /\ reset_n(c) # "PLL_SDIO"
      BY SpiPins
<1>8. pin \in {"PLL_SCLK", cs_n(c), "PLL_SDIO"}
      BY <1>2, <1>6
<1>9. /\ \A p \in Pins : r.pins[p] = IF p = pin THEN Level(value) ELSE b.pins[p]
      /\ r.bits[c] = ShiftedBy(b, r.pins, c)
      /\ \A p \in Pins : b.pins[p] \in {0, 1}
  <2>1. pin \in Pins \cup {"PLL_SDIO"}
        BY <1>7, <1>8
  <2>2. BoardOK(b) /\ DrivenTo(r, b, SetTo(b, pin, value), sdio)
        BY <1>5
  <2>3. Settled(r, b, pin, value)
        BY <2>1, <2>2, PinsSettled, Zenon
  <2>. QED BY <2>3 DEF Settled
<1>10. PICK clk, cs, clk2, cs2, rst2 :
         /\ clk = b.pins["PLL_SCLK"] /\ cs = b.pins[cs_n(c)]
         /\ clk2 = r.pins["PLL_SCLK"] /\ cs2 = r.pins[cs_n(c)] /\ rst2 = r.pins[reset_n(c)]
       OBVIOUS
<1>11. /\ clk2 = IF pin = "PLL_SCLK" THEN Level(value) ELSE clk
       /\ cs2 = IF pin = cs_n(c) THEN Level(value) ELSE cs
       /\ rst2 = 1
       /\ r.sdio = IF pin = "PLL_SDIO" THEN Level(value) ELSE r.sdio
       BY <1>5, <1>7, <1>8, <1>9, <1>10 DEF DrivenTo
<1>12. PICK bits, bits2, line : bits = b.bits[c] /\ bits2 = r.bits[c] /\ line = b.sdio
       OBVIOUS
<1>13. /\ bits \in Seq({0, 1}) /\ Len(bits) <= WordBits /\ bits2 \in Seq({0, 1})
       BY <1>12, BoardParts DEF BoardType, Chips
<1>14. /\ cs2 # 0 => bits2 = <<>>
       /\ cs2 = 0 /\ ~(clk = 0 /\ clk2 = 1) => bits2 = bits
       /\ cs2 = 0 /\ clk = 0 /\ clk2 = 1 /\ Len(bits) # WordBits => bits2 = Append(bits, line)
       BY <1>9, <1>10, <1>11, <1>12 DEF ShiftedBy, Rises, Listens
<1>15. Level(0) = 0 /\ Level(1) = 1
       BY DEF Level
<1>16. /\ j = 2 => clk = 0 /\ Shifted(bits, w, 0)
       /\ j > 2 => cs = 0
       /\ \A k \in 1 .. WordBits :
            /\ j = 3 * k => clk = 0 /\ Shifted(bits, w, k - 1)
            /\ j = 3 * k + 1 => clk = 0 /\ line = w[k] /\ Shifted(bits, w, k - 1)
            /\ j = 3 * k + 2 => clk = 1 /\ Shifted(bits, w, k)
  <2>1. CASE j > 1
        BY <1>4, <1>10, <1>12, <2>1 DEF SpiAt
  <2>2. CASE j = 1
    <3>1. ASSUME NEW k \in 1 .. WordBits PROVE j \notin {3 * k, 3 * k + 1, 3 * k + 2}
          BY <1>3, <2>2
    <3>. QED BY <2>2, <3>1
  <2>. QED BY <1>2, <1>3, <2>1, <2>2
<1>17. ASSUME /\ j + 1 = 2 => clk2 = 0 /\ Shifted(bits2, w, 0)
              /\ j + 1 > 2 => cs2 = 0
              /\ \A k \in 1 .. WordBits :
                   /\ j + 1 = 3 * k => clk2 = 0 /\ Shifted(bits2, w, k - 1)
                   /\ j + 1 = 3 * k + 1 => /\ clk2 = 0 /\ r.sdio = w[k]
                                           /\ Shifted(bits2, w, k - 1)
                   /\ j + 1 = 3 * k + 2 => clk2 = 1 /\ Shifted(bits2, w, k)
              /\ j + 1 = TransferLen => Shifted(bits2, w, WordBits)
       PROVE  SpiAt(r, c, w, j + 1)
       BY <1>10, <1>12, <1>17 DEF SpiAt
<1>18. CASE j = 1
  <2>1. clk2 = 0 /\ j + 1 = 2
        BY <1>2, <1>11, <1>15, <1>18
  <2>2. ASSUME NEW k \in 1 .. WordBits PROVE 2 \notin {3 * k, 3 * k + 1, 3 * k + 2}
        OBVIOUS
  <2>3. 2 # TransferLen
        BY <1>3
  <2>4. bits2 = <<>>
        BY <1>4, <1>12, <1>14, <1>18, <2>1
  <2>5. Shifted(bits2, w, 0)
        BY <2>4 DEF Shifted
  <2>. QED BY <1>1, <1>17, <2>1, <2>2, <2>3, <2>5
<1>19. CASE j = 2
  <2>1. clk2 = 0 /\ cs2 = 0 /\ j + 1 = 3
        BY <1>2, <1>7, <1>11, <1>15, <1>16, <1>19
  <2>2. ASSUME NEW k \in 1 .. WordBits
        PROVE  3 \notin {3 * k + 1, 3 * k + 2} /\ (3 = 3 * k => k - 1 = 0)
        OBVIOUS
  <2>3. 3 # TransferLen
        BY <1>3
  <2>4. Shifted(bits2, w, 0)
        BY <1>14, <1>16, <1>19, <2>1
  <2>. QED BY <1>1, <1>17, <2>1, <2>2, <2>3, <2>4
<1>20. ASSUME NEW k \in 1 .. WordBits, j = 3 * k PROVE SpiAt(r, c, w, j + 1)
  <2>1. /\ clk = 0 /\ Shifted(bits, w, k - 1) /\ cs = 0
        BY <1>16, <1>20
  <2>2. pin = "PLL_SDIO" /\ value = w[k] * Mask /\ w[k] \in {0, 1}
        BY <1>2, <1>20
  <2>3. clk2 = 0 /\ cs2 = 0 /\ bits2 = bits
        BY <1>7, <1>11, <1>14, <2>1, <2>2
  <2>4. r.sdio = w[k]
    <3>1. Level(value) = w[k]
          BY <2>2, MaskedBit
    <3>. QED BY <1>11, <2>2, <3>1
  <2>5. ASSUME NEW m \in 1 .. WordBits
        PROVE  j + 1 \notin {3 * m, 3 * m + 2} /\ (j + 1 = 3 * m + 1 => m = k)
        BY <1>20
  <2>6. j + 1 # TransferLen /\ j + 1 # 2
        BY <1>3, <1>20
  <2>. QED BY <1>17, <2>1, <2>3, <2>4, <2>5, <2>6
<1>21. ASSUME NEW k \in 1 .. WordBits, j = 3 * k + 1 PROVE SpiAt(r, c, w, j + 1)
  <2>1. /\ clk = 0 /\ line = w[k] /\ Shifted(bits, w, k - 1) /\ cs = 0
        BY <1>16, <1>21
  <2>2. pin = "PLL_SCLK" /\ value = 1
        BY <1>2, <1>21
  <2>3. clk2 = 1 /\ cs2 = 0
        BY <1>7, <1>11, <1>15, <2>1, <2>2
  <2>4. Len(bits) # WordBits
    <3>1. Len(bits) = k - 1 /\ k - 1 < WordBits
          BY <1>3, <2>1 DEF Shifted
    <3>. QED BY <1>3, <3>1
  <2>5. bits2 = Append(bits, line)
        BY <1>14, <2>1, <2>3, <2>4
  <2>6. Shifted(bits2, w, k)
        BY <1>13, <2>1, <2>5, ShiftedOne
  <2>7. ASSUME NEW m \in 1 .. WordBits
        PROVE  j + 1 \notin {3 * m, 3 * m + 1} /\ (j + 1 = 3 * m + 2 => m = k)
        BY <1>21
  <2>8. j + 1 # TransferLen /\ j + 1 # 2
        BY <1>3, <1>21
  <2>. QED BY <1>17, <2>3, <2>6, <2>7, <2>8
<1>22. ASSUME NEW k \in 1 .. WordBits, j = 3 * k + 2 PROVE SpiAt(r, c, w, j + 1)
  <2>1. /\ clk = 1 /\ Shifted(bits, w, k) /\ cs = 0
        BY <1>16, <1>22
  <2>2. pin = "PLL_SCLK" /\ value = 0
        BY <1>2, <1>22
  <2>3. clk2 = 0 /\ cs2 = 0 /\ bits2 = bits
        BY <1>7, <1>11, <1>14, <1>15, <2>1, <2>2
  <2>4. ASSUME NEW m \in 1 .. WordBits
        PROVE  j + 1 \notin {3 * m + 1, 3 * m + 2} /\ (j + 1 = 3 * m => m - 1 = k)
        BY <1>22
  <2>5. (j + 1 = TransferLen => WordBits = k) /\ j + 1 # 2
        BY <1>3, <1>22
  <2>. QED BY <1>17, <2>1, <2>3, <2>4, <2>5
<1>. QED BY <1>1, <1>6, <1>18, <1>19, <1>20, <1>21, <1>22

(* The chip of a program that resets it and then talks to it.  From its    *)
(* reset on it takes nothing but what it is sent, whatever an earlier      *)
(* program has left. *)
Own(c) == prog \in {"bring_up", "ad9510_init"} /\ c = Chip(prog) /\ pos > 1

OwnAt(b, c) ==
  /\ c \notin b.left
  /\ b.pins[reset_n(c)] = IF pos = 2 THEN 0 ELSE 1
  /\ IF Talks(Access, c) THEN SpiAt(b, c, Access.word, Access.at)
     ELSE /\ b.bits[c] = <<>>
          /\ pos > 3 => b.pins[cs_n(c)] = 1

OwnInv == \A c \in SpiChips : Own(c) => OwnAt(boards[Master], c)

LEMMA AdfPins ==
  ASSUME NEW a \in AdfAccesses \cup {Set("ADF_CE", 1)}
  PROVE  a.pin \in {"ADF_CLK", "ADF_LE", "ADF_DATA", "ADF_CE"} /\ a.chip \in {"adf", "none"}
<1>1. CASE a = Set("ADF_CE", 1)
      BY <1>1 DEF Set
<1>2. CASE a \in AdfAccesses
  <2>1. AdfPart(a)
        BY <1>2, AdfAccessParts
  <2>2. PICK j : j = a.at /\ j \in 1 .. TransferLen
        BY <2>1 DEF AdfPart
  <2>. QED BY <2>1, <2>2, Places DEF AdfPart
<1>. QED BY <1>1, <1>2

LEMMA SpiPinsOf ==
  ASSUME NEW c \in SpiChips, NEW a \in SpiAccesses(c)
  PROVE  a.pin \in {"PLL_SCLK", "PLL_SDIO", cs_n(c)} /\ a.chip = c
<1>1. SpiPart(a, c)
      BY SpiAccessParts
<1>2. PICK j : j = a.at /\ j \in 1 .. TransferLen
      BY <1>1 DEF SpiPart
<1>. QED BY <1>1, <1>2, Places DEF SpiPart

(* Setting a pin that is not one of chip c's, and not SCLK. *)
LEMMA NotItsPin ==
  ASSUME NEW b, BoardOK(b), NEW c \in SpiChips, NEW pin \in Pins \cup {"PLL_SDIO"},
         pin \notin {cs_n(c), reset_n(c)},
         NEW value, NEW sdio, NEW r, DrivenTo(r, b, SetTo(b, pin, value), sdio)
  PROVE  /\ r.pins[cs_n(c)] = b.pins[cs_n(c)] /\ r.pins[reset_n(c)] = b.pins[reset_n(c)]
         /\ pin # "PLL_SCLK" => r.bits[c] \in {<<>>, b.bits[c]}
<1>1. /\ \A p \in Pins : r.pins[p] = IF p = pin THEN Level(value) ELSE b.pins[p]
      /\ r.bits[c] = ShiftedBy(b, r.pins, c)
      BY PinsLevel
<1>2. cs_n(c) \in Pins /\ reset_n(c) \in Pins /\ "PLL_SCLK" \in Pins
      BY SpiPins
<1>3. r.pins[cs_n(c)] = b.pins[cs_n(c)] /\ r.pins[reset_n(c)] = b.pins[reset_n(c)]
      BY <1>1, <1>2
<1>4. ASSUME pin # "PLL_SCLK" PROVE r.bits[c] \in {<<>>, b.bits[c]}
  <2>1. r.pins["PLL_SCLK"] = b.pins["PLL_SCLK"]
        BY <1>1, <1>2, <1>4
  <2>. QED BY <1>1, <2>1 DEF ShiftedBy, Rises
<1>. QED BY <1>3, <1>4

LEMMA OwnProgram ==
  ASSUME Here, prog # "rf_test", NEW c, c = Chip(prog)
  PROVE  /\ c \in SpiChips /\ Board = Master /\ Len(Ops(prog)) > 2
         /\ prog \in {"bring_up", "ad9510_init"}
         /\ pos = 1 => Access = Set(reset_n(c), 0)
         /\ pos = 2 => Access = Set(reset_n(c), 1)
         /\ pos > 2 => Access \in Accesses(c) \cup Jumps
         /\ pos = 3 => Access \in SpiAccesses(c)
<1>1. /\ WellFormed(prog) /\ Access = Ops(prog)[pos] /\ pos \in 1 .. Len(Ops(prog))
      BY Here_Access
<1>2. Addresses(Ops(prog), c) /\ \A i \in 1 .. Len(Ops(prog)) : Code[prog][i].board = Master
      BY <1>1 DEF WellFormed
<1>3. Len(Ops(prog)) \in Nat /\ Len(Ops(prog)) > 2
      BY <1>1, <1>2 DEF WellFormed, Addresses
<1>4. pos > 2 => pos \in 3 .. Len(Ops(prog))
      BY <1>1, <1>3
<1>5. c \in SpiChips /\ prog \in {"bring_up", "ad9510_init"}
      BY DEF Chip, SpiChips, Here, Programs
<1>. QED BY <1>1, <1>2, <1>3, <1>4, <1>5 DEF Addresses, Board

OwnAfter(r, c) ==
  /\ c \notin r.left
  /\ r.pins[reset_n(c)] = IF pos = 1 THEN 0 ELSE 1
  /\ IF Inside(Access) /\ Access.chip = c THEN SpiAt(r, c, Access.word, Access.at + 1)
     ELSE /\ r.bits[c] = <<>>
          /\ pos > 2 => r.pins[cs_n(c)] = 1

(* The program's own chip after an access that is not a gpio_set. *)
LEMMA OwnOther ==
  ASSUME Here, BoardsOK, OwnInv, Step, prog # "rf_test", NEW c, c = Chip(prog),
         Access.op # "set"
  PROVE  pos > 2 /\ OwnAfter(boards'[Master], c) /\ OwnAt(boards[Master], c) /\ Own(c)
         /\ boards'[Master].pins = boards[Master].pins
         /\ boards'[Master].left = boards[Master].left
<1>1. /\ c \in SpiChips /\ Board = Master /\ prog \in {"bring_up", "ad9510_init"}
      /\ pos = 1 => Access = Set(reset_n(c), 0)
      /\ pos = 2 => Access = Set(reset_n(c), 1)
      /\ pos = 3 => Access \in SpiAccesses(c)
      BY OwnProgram
<1>2. pos \in Nat /\ pos > 3
  <2>1. pos \in Nat /\ pos > 0
        BY Here_Access
  <2>2. pos # 1 /\ pos # 2
        BY <1>1 DEF Set
  <2>3. pos # 3
        BY <1>1, SpiAccess
  <2>. QED BY <2>1, <2>2, <2>3
<1>3. Own(c)
      BY <1>1, <1>2 DEF Own
<1>4. OwnAt(boards[Master], c)
      BY <1>1, <1>3 DEF OwnInv
<1>5. PICK b, r : b = boards[Master] /\ r = boards'[Master]
      OBVIOUS
<1>6. r.pins = b.pins /\ r.bits = b.bits /\ r.left = b.left
  <2>1. CASE SetPin
        BY <2>1 DEF SetPin
  <2>2. CASE WriteReg
        BY <1>1, <1>5, <2>2, WriteRegDoes DEF WrittenTo
  <2>3. CASE HaltCpu \/ NoFirmware \/ ReleaseCpu
        BY <1>1, <1>5, <2>3, CpuDoes DEF CpuTo
  <2>4. CASE ReadReg \/ CheckId \/ CheckLock
        BY <1>5, <2>4, OthersDo
  <2>. QED BY <2>1, <2>2, <2>3, <2>4 DEF Step
<1>7. ~Inside(Access) /\ ~Talks(Access, c)
      BY Outside DEF Talks
<1>8. OwnAfter(r, c)
  <2>1. c \notin b.left /\ b.pins[reset_n(c)] = 1 /\ b.bits[c] = <<>> /\ b.pins[cs_n(c)] = 1
        BY <1>2, <1>4, <1>5, <1>7 DEF OwnAt
  <2>. QED BY <1>2, <1>6, <1>7, <2>1 DEF OwnAfter
<1>. QED BY <1>2, <1>3, <1>4, <1>5, <1>6, <1>8

(* ... and after one that is. *)
LEMMA OwnSet ==
  ASSUME Here, BoardsOK, OwnInv, SetPin, prog # "rf_test", NEW c, c = Chip(prog)
  PROVE  OwnAfter(boards'[Master], c)
<1>1. /\ c \in SpiChips /\ Board = Master /\ prog \in {"bring_up", "ad9510_init"}
      /\ pos = 1 => Access = Set(reset_n(c), 0)
      /\ pos = 2 => Access = Set(reset_n(c), 1)
      /\ pos > 2 => Access \in Accesses(c) \cup Jumps
      /\ pos = 3 => Access \in SpiAccesses(c)
      BY OwnProgram
<1>2. pos \in Nat /\ pos > 0 /\ Access \in AllAccesses /\ Access.op = "set"
      BY Here_Access, SetPinDoes
<1>3. PICK sdio \in {0, 1} : PinSet(sdio)
      BY SetPinDoes
<1>4. PICK b, r, a, p : b = boards[Master] /\ r = boards'[Master] /\ a = Access /\ p = pos
      OBVIOUS
<1>5. /\ BoardOK(b) /\ BoardOK(r) /\ DrivenTo(r, b, SetTo(b, a.pin, a.value), sdio)
      /\ a.pin = "PLL_SDIO" => sdio = Level(a.value)
  <2>1. Master \in Boards
        BY DEF Boards
  <2>. QED BY <1>1, <1>3, <1>4, <2>1 DEF PinSet, BoardsOK
<1>6. a.pin \in Pins \cup {"PLL_SDIO"}
      BY <1>2, <1>4, SetTypes
<1>7. /\ \A x \in Pins : r.pins[x] = IF x = a.pin THEN Level(a.value) ELSE b.pins[x]
      /\ r.bits[c] = ShiftedBy(b, r.pins, c)
      BY <1>1, <1>5, <1>6, PinsLevel
<1>8. r.left = {x \in b.left : r.pins[reset_n(x)] = 1}
      BY <1>5 DEF DrivenTo
<1>9. p > 1 => OwnAt(b, c)
      BY <1>1, <1>4 DEF OwnInv, Own
<1>10. /\ cs_n(c) \in Pins /\ reset_n(c) \in Pins /\ "PLL_SCLK" \in Pins
       /\ cs_n(c) # "PLL_SCLK" /\ reset_n(c) # "PLL_SCLK" /\ cs_n(c) # reset_n(c)
       /\ cs_n(c) # "PLL_SDIO" /\ reset_n(c) # "PLL_SDIO"
       /\ {cs_n(c), reset_n(c), "PLL_SCLK"}
            \cap {"PLL_SDIO", "ADF_CLK", "ADF_LE", "ADF_DATA", "ADF_CE"} = {}
      BY <1>1, SpiPins
<1>11. Level(0) = 0 /\ Level(1) = 1
      BY DEF Level
<1>12. ASSUME NEW pin, NEW value
       PROVE  /\ Set(pin, value).pin = pin /\ Set(pin, value).value = value
              /\ Set(pin, value).chip = "none" /\ Set(pin, value).at = 0
      BY DEF Set
<1>13. c # "none" /\ c # "adf"
      BY <1>1 DEF SpiChips
<1>14. CASE p = 1
  <2>1. a.pin = reset_n(c) /\ a.value = 0 /\ a.chip # c
        BY <1>1, <1>4, <1>12, <1>13, <1>14
  <2>2. r.pins[reset_n(c)] = 0
        BY <1>7, <1>10, <1>11, <2>1
  <2>3. r.bits[c] = <<>> /\ c \notin r.left
        BY <1>7, <1>8, <2>2 DEF ShiftedBy, Listens
  <2>. QED BY <1>4, <1>14, <2>1, <2>2, <2>3 DEF OwnAfter
<1>15. CASE p = 2
  <2>1. a.pin = reset_n(c) /\ a.value = 1 /\ a.chip # c
        BY <1>1, <1>4, <1>12, <1>13, <1>15
  <2>2. r.pins[reset_n(c)] = 1
        BY <1>7, <1>10, <1>11, <2>1
  <2>3. c \notin b.left /\ b.bits[c] = <<>>
        BY <1>4, <1>9, <1>15, <2>1 DEF OwnAt, Talks
  <2>4. r.pins["PLL_SCLK"] = b.pins["PLL_SCLK"]
        BY <1>7, <1>10, <2>1
  <2>5. r.bits[c] = <<>> /\ c \notin r.left
        BY <1>7, <1>8, <2>3, <2>4 DEF ShiftedBy, Rises
  <2>. QED BY <1>4, <1>15, <2>1, <2>2, <2>5 DEF OwnAfter
<1>16. CASE p > 2
  <2>1. OwnAt(b, c) /\ pos # 2 /\ pos # 1
        BY <1>2, <1>4, <1>9, <1>16
  <2>2. /\ c \notin b.left /\ b.pins[reset_n(c)] = 1
        /\ IF Talks(a, c) THEN SpiAt(b, c, a.word, a.at)
           ELSE /\ b.bits[c] = <<>>
                /\ p > 3 => b.pins[cs_n(c)] = 1
        BY <1>4, <2>1 DEF OwnAt
  <2>3. a \in SpiAccesses(c) \/ a \in AdfAccesses \cup {Set("ADF_CE", 1)}
    <3>1. a \in Accesses(c) \cup Jumps
          BY <1>1, <1>4, <1>16
    <3>2. /\ \A x \in Writes : x.op = "write"
          /\ \A x \in Jumps : x.op \in {"skip", "poll"}
          /\ Reads.op = "read"
          BY DEF Writes, Jumps, Reads, Write, Skip, Poll
    <3>. QED BY <1>2, <1>4, <3>1, <3>2 DEF Accesses
  <2>4. CASE a \in SpiAccesses(c)
    <3>1. SpiPart(a, c) /\ a.pin \in {"PLL_SCLK", "PLL_SDIO", cs_n(c)}
          BY <1>1, <2>4, SpiAccessParts, SpiPinsOf
    <3>2. PICK j : j = a.at /\ j \in 1 .. TransferLen
          BY <3>1 DEF SpiPart
    <3>3. TransferLen \in Nat /\ j \in Nat /\ j > 0
          BY <3>2, WordBitsAssumption DEF TransferLen
    <3>4. a.op = "set" /\ a.chip = c
          BY <3>1 DEF SpiPart
    <3>5. r.pins[reset_n(c)] = 1 /\ c \notin r.left
          BY <1>7, <1>8, <1>10, <2>2, <3>1
    <3>6. Inside(a) <=> j < TransferLen
          BY <3>2, <3>3, <3>4 DEF Inside, Place
    <3>7. CASE j < TransferLen
      <4>1. IF a.at > 1 THEN SpiAt(b, c, a.word, a.at) ELSE b.bits[c] = <<>>
            BY <2>2, <3>4 DEF Talks
      <4>2. SpiAt(r, c, a.word, a.at + 1)
            BY <1>1, <1>5, <2>2, <3>1, <3>2, <3>7, <4>1, SpiStep
      <4>. QED BY <1>4, <2>1, <3>4, <3>5, <3>6, <3>7, <4>2 DEF OwnAfter
    <3>8. CASE j = TransferLen
      <4>1. a.pin = cs_n(c) /\ a.value = 1
            BY <3>1, <3>2, <3>8 DEF SpiPart
      <4>2. r.pins[cs_n(c)] = 1
            BY <1>7, <1>10, <1>11, <4>1
      <4>3. r.bits[c] = <<>>
            BY <1>7, <4>2 DEF ShiftedBy, Listens
      <4>4. ~Inside(a)
            BY <3>3, <3>6, <3>8
      <4>. QED BY <1>4, <2>1, <3>5, <4>2, <4>3, <4>4 DEF OwnAfter
    <3>. QED BY <3>2, <3>3, <3>7, <3>8
  <2>5. CASE a \in AdfAccesses \cup {Set("ADF_CE", 1)}
    <3>1. a.pin \in {"ADF_CLK", "ADF_LE", "ADF_DATA", "ADF_CE"} /\ a.chip # c
          BY <1>13, <2>5, AdfPins
    <3>2. p > 3
      <4>1. p # 3
        <5>1. p = 3 => a.chip = c
              BY <1>1, <1>4, SpiPinsOf
        <5>. QED BY <3>1, <5>1
      <4>. QED BY <1>2, <1>4, <1>16, <4>1
    <3>3. b.bits[c] = <<>> /\ b.pins[cs_n(c)] = 1
          BY <2>2, <3>1, <3>2 DEF Talks
    <3>4. a.pin \notin {cs_n(c), reset_n(c), "PLL_SCLK"}
          BY <1>10, <3>1
    <3>5. r.pins[cs_n(c)] = b.pins[cs_n(c)] /\ r.pins[reset_n(c)] = b.pins[reset_n(c)]
          /\ r.pins["PLL_SCLK"] = b.pins["PLL_SCLK"]
          BY <1>7, <1>10, <3>4
    <3>6. r.bits[c] = <<>>
          BY <1>7, <3>3, <3>5 DEF ShiftedBy, Rises
    <3>7. c \notin r.left
          BY <1>8, <2>2
    <3>. QED BY <1>4, <2>1, <2>2, <3>1, <3>3, <3>5, <3>6, <3>7 DEF OwnAfter
  <2>. QED BY <2>3, <2>4, <2>5
<1>. QED BY <1>2, <1>4, <1>14, <1>15, <1>16

LEMMA InitOwn == Init => OwnInv
BY DEF Init, OwnInv, Own

(* A step that leaves a transfer alone or ends it leaves no transfer open. *)
LEMMA InsideTalks ==
  ASSUME Here, NEW c \in SpiChips, Inside(Access), Access.chip = c,
         Follows(Access, Access')
  PROVE  Talks(Access', c)
<1>1. /\ Access'.op = "set" /\ Access'.at = Access.at + 1 /\ Access'.chip = c
      BY DEF Follows
<1>2. Access.at \in 1 .. TransferLen /\ TransferLen \in Nat
  <2>1. Access.op = "set" /\ Access \in AllAccesses
        BY Here_Access DEF Inside, Place
  <2>. QED BY <2>1, SpiTalk, SpiAccess, WordBitsAssumption DEF TransferLen
<1>3. Access'.at > 1
      BY <1>1, <1>2
<1>. QED BY <1>1, <1>3 DEF Talks

LEMMA OwnStep ==
  ASSUME Here, BoardsOK, OwnInv, Step, prog' = prog, prog # "rf_test",
         NEW c, c = Chip(prog), pos' > 1
  PROVE  LET r == boards'[Master]
         IN  /\ c \notin r.left
             /\ r.pins[reset_n(c)] = IF pos' = 2 THEN 0 ELSE 1
             /\ IF Talks(Access', c) THEN SpiAt(r, c, Access'.word, Access'.at)
                ELSE /\ r.bits[c] = <<>>
                     /\ pos' > 3 => r.pins[cs_n(c)] = 1
<1>1. Running' /\ pos \in Nat /\ pos > 0
  <2>1. prog \in Programs
        BY DEF Here
  <2>. QED BY <2>1, NotNone, Here_Access DEF Running
<1>2. /\ pos' \in Nat /\ (pos' = pos + 1 \/ (pos' > 2 /\ Access.op # "set"))
      /\ Follows(Access, Access')
  <2>1. Advances /\ prog' # "none"
        BY <1>1, StepAdvances DEF Running
  <2>. QED BY <2>1 DEF Advances
<1>3. PICK r : r = boards'[Master]
      OBVIOUS
<1>4. OwnAfter(r, c) /\ (~SetPin => pos > 2)
  <2>1. CASE SetPin
        BY <1>3, <2>1, OwnSet
  <2>2. CASE ~SetPin
    <3>1. Access.op # "set"
          BY <2>2 DEF Step, SetPin, WriteReg, ReadReg, HaltCpu, NoFirmware, ReleaseCpu,
                      CheckId, CheckLock
    <3>. QED BY <1>3, <3>1, OwnOther
  <2>. QED BY <2>1, <2>2
<1>5. SetPin => Access.op = "set"
      BY DEF SetPin
<1>6. /\ pos' = 2 <=> pos = 1
      /\ pos' > 3 => pos > 2
  <2>1. CASE SetPin
        BY <1>1, <1>2, <1>5, <2>1
  <2>2. CASE ~SetPin
        BY <1>1, <1>2, <1>4, <2>2
  <2>. QED BY <2>1, <2>2
<1>7. c \notin r.left /\ r.pins[reset_n(c)] = IF pos' = 2 THEN 0 ELSE 1
      BY <1>4, <1>6 DEF OwnAfter
<1>8. CASE Talks(Access', c)
  <2>1. Place(Access') > 1
        BY <1>8, TalksPlace
  <2>2. /\ Inside(Access) /\ Access'.at = Access.at + 1
        /\ Access'.chip = Access.chip /\ Access'.word = Access.word
        BY <1>1, <2>1, Continues
  <2>3. Access.chip = c
        BY <1>8, <2>2 DEF Talks
  <2>4. SpiAt(r, c, Access.word, Access.at + 1)
        BY <1>4, <2>2, <2>3 DEF OwnAfter
  <2>5. SpiAt(r, c, Access'.word, Access'.at)
        BY <2>2, <2>4
  <2>. QED BY <1>3, <1>7, <1>8, <2>5
<1>9. CASE ~Talks(Access', c)
  <2>1. ~(Inside(Access) /\ Access.chip = c)
    <3>1. c \in SpiChips
          BY OwnProgram
    <3>. QED BY <1>2, <1>9, <3>1, InsideTalks
  <2>2. r.bits[c] = <<>> /\ (pos > 2 => r.pins[cs_n(c)] = 1)
        BY <1>4, <2>1 DEF OwnAfter
  <2>. QED BY <1>3, <1>6, <1>7, <1>9, <2>2
<1>. QED BY <1>8, <1>9

LEMMA NextOwn == TypeOK /\ OwnInv /\ [Next]_vars => OwnInv'
<1>1. SUFFICES ASSUME TypeOK, OwnInv, [Next]_vars PROVE OwnInv'
      OBVIOUS
<1>2. CASE Step
  <2>1. Here /\ BoardsOK
        BY <1>1, <1>2, TypeHere, StepIsRunning
  <2>2. ASSUME NEW c \in SpiChips,
               prog' \in {"bring_up", "ad9510_init"}, c = Chip(prog'), pos' > 1
        PROVE  LET r == boards'[Master]
               IN  /\ c \notin r.left
                   /\ r.pins[reset_n(c)] = IF pos' = 2 THEN 0 ELSE 1
                   /\ IF Talks(Access', c) THEN SpiAt(r, c, Access'.word, Access'.at)
                      ELSE /\ r.bits[c] = <<>>
                           /\ pos' > 3 => r.pins[cs_n(c)] = 1
    <3>1. prog' = prog
          BY <1>2, <2>1, <2>2, StepAdvances DEF Advances
    <3>2. prog # "rf_test" /\ c = Chip(prog)
          BY <2>2, <3>1
    <3>. QED BY <1>1, <1>2, <2>1, <2>2, <3>1, <3>2, OwnStep
  <2>. QED BY <2>2 DEF OwnInv, Own, OwnAt
<1>3. CASE Start
      BY <1>3 DEF Start, OwnInv, Own
<1>4. CASE Kill
      BY <1>4 DEF Kill, OwnInv, Own
<1>5. CASE UNCHANGED vars
      BY <1>1, <1>5 DEF vars, OwnInv, Own, OwnAt, Access
<1>. QED BY <1>1, <1>2, <1>3, <1>4, <1>5 DEF Next

(* A chip the running program does not talk to: its pins are not touched.  *)
Other(c) == prog = "rf_test" \/ c # Chip(prog)

LEMMA OtherChip ==
  ASSUME Here, Access.op = "set", NEW c \in SpiChips, Other(c)
  PROVE  Access.chip # c /\ Access.pin \notin {cs_n(c), reset_n(c)}
<1>1. /\ WellFormed(prog) /\ Access \in AllAccesses
      /\ Access = Ops(prog)[pos] /\ pos \in 1 .. Len(Ops(prog))
      BY Here_Access
<1>2. PICK a : a = Access
      OBVIOUS
<1>3. c # "none" /\ c # "adf"
      BY DEF SpiChips
<1>4. CASE a \in AdfAccesses \cup {Set("ADF_CE", 1)}
  <2>1. a.pin \in {"ADF_CLK", "ADF_LE", "ADF_DATA", "ADF_CE"} /\ a.chip \in {"adf", "none"}
        BY <1>4, AdfPins
  <2>2. {cs_n(c), reset_n(c), "PLL_SCLK"}
          \cap {"PLL_SDIO", "ADF_CLK", "ADF_LE", "ADF_DATA", "ADF_CE"} = {}
        BY SpiPins
  <2>. QED BY <1>2, <1>3, <2>1, <2>2
<1>5. CASE prog = "rf_test"
  <2>1. a \in TestAccesses
        BY <1>1, <1>2, <1>5 DEF WellFormed
  <2>2. \A x \in Writes : x.op = "write"
        BY DEF Writes, Write
  <2>3. Reads.op = "read" /\ Halt.op = "halt" /\ Release.op = "release"
        BY DEF Reads, Halt, Release
  <2>4. a \in AdfAccesses \cup {Set("ADF_CE", 1)}
        BY <1>2, <2>1, <2>2, <2>3 DEF TestAccesses, InitAccesses
  <2>. QED BY <1>4, <2>4
<1>6. CASE prog # "rf_test"
  <2>1. PICK d : d = Chip(prog)
        OBVIOUS
  <2>2. /\ d \in SpiChips /\ d # c
        /\ pos = 1 => a = Set(reset_n(d), 0)
        /\ pos = 2 => a = Set(reset_n(d), 1)
        /\ pos > 2 => a \in Accesses(d) \cup Jumps
        BY <1>2, <1>6, <2>1, OwnProgram DEF Other
  <2>3. /\ cs_n(d) \notin {cs_n(c), reset_n(c)} /\ reset_n(d) \notin {cs_n(c), reset_n(c)}
        /\ {cs_n(c), reset_n(c)} \cap {"PLL_SCLK", "PLL_SDIO"} = {}
        BY <2>2, SpiPins
  <2>4. CASE a \in Resets(d)
        BY <1>2, <1>3, <2>3, <2>4 DEF Resets, Set
  <2>5. CASE a \in SpiAccesses(d)
    <3>1. a.pin \in {"PLL_SCLK", "PLL_SDIO", cs_n(d)} /\ a.chip = d
          BY <2>2, <2>5, SpiPinsOf
    <3>. QED BY <1>2, <2>2, <2>3, <3>1
  <2>6. a \in Resets(d) \cup SpiAccesses(d) \cup AdfAccesses \cup {Set("ADF_CE", 1)}
    <3>1. /\ \A x \in Writes : x.op = "write"
          /\ \A x \in Jumps : x.op \in {"skip", "poll"}
          /\ Reads.op = "read"
          BY DEF Writes, Jumps, Reads, Write, Skip, Poll
    <3>2. pos \in Nat /\ pos > 0
          BY <1>1
    <3>. QED BY <1>2, <2>2, <3>1, <3>2 DEF Accesses, Resets
  <2>. QED BY <1>4, <2>4, <2>5, <2>6
<1>. QED BY <1>5, <1>6

(* Every other chip is deaf, or was left selected by a killed program. *)
IdleInv ==
  \A b \in Boards, c \in SpiChips :
    \/ b = Master /\ Own(c)
    \/ c \in boards[b].left
    \/ ~Listens(c, boards[b].pins)

Idle(b, c) == c \in b.left \/ ~Listens(c, b.pins)

LEMMA InitIdle == Init => IdleInv
<1>1. ASSUME Init, NEW b \in Boards, NEW c \in SpiChips
      PROVE  ~Listens(c, boards[b].pins)
  <2>1. boards[b] = PowerUp
        BY <1>1 DEF Init
  <2>2. reset_n(c) \in Pins
        BY SpiPins
  <2>. QED BY <2>1, <2>2 DEF PowerUp, Listens
<1>. QED BY <1>1 DEF IdleInv

(* The chips but the program's own: nothing that is set makes one listen.  *)
LEMMA StaysIdle ==
  ASSUME NEW b, BoardOK(b), NEW c \in SpiChips, Idle(b, c),
         NEW pin \in Pins \cup {"PLL_SDIO"}, pin \notin {cs_n(c), reset_n(c)},
         NEW value, NEW sdio, NEW r, DrivenTo(r, b, SetTo(b, pin, value), sdio)
  PROVE  Idle(r, c)
<1>1. r.pins[cs_n(c)] = b.pins[cs_n(c)] /\ r.pins[reset_n(c)] = b.pins[reset_n(c)]
  <2>1. Settled(r, b, pin, value)
        BY PinsSettled, Zenon
  <2>2. cs_n(c) \in Pins /\ reset_n(c) \in Pins
        BY SpiPins, Zenon
  <2>3. \A p \in Pins : r.pins[p] = IF p = pin THEN Level(value) ELSE b.pins[p]
        BY <2>1 DEF Settled
  <2>. QED BY <2>2, <2>3
<1>2. r.left = {x \in b.left : r.pins[reset_n(x)] = 1}
      BY DEF DrivenTo
<1>. QED BY <1>1, <1>2 DEF Idle, Listens

LEMMA OtherBoard ==
  ASSUME Here, Step, BoardsOK, NEW b \in Boards, b # Board
  PROVE  boards'[b] = boards[b]
<1>1. OnlyHere \/ boards' = boards
  <2>1. CASE SetPin
        BY <2>1, SetPinDoes DEF PinSet
  <2>2. CASE WriteReg
        BY <2>2, WriteRegDoes
  <2>3. CASE HaltCpu \/ NoFirmware \/ ReleaseCpu
        BY <2>3, CpuDoes
  <2>4. CASE ReadReg \/ CheckId \/ CheckLock
        BY <2>4, OthersDo
  <2>. QED BY <2>1, <2>2, <2>3, <2>4 DEF Step
<1>. QED BY <1>1 DEF OnlyHere

(* Only a gpio_set changes pins or what a chip has shifted in. *)
LEMMA PinsKept ==
  ASSUME Here, Step, ~SetPin, BoardsOK, NEW b \in Boards
  PROVE  /\ boards'[b].pins = boards[b].pins /\ boards'[b].bits = boards[b].bits
         /\ boards'[b].left = boards[b].left
<1>1. CASE b # Board
      BY <1>1, OtherBoard
<1>2. CASE b = Board
  <2>1. CASE WriteReg
        BY <1>2, <2>1, WriteRegDoes DEF WrittenTo
  <2>2. CASE HaltCpu \/ NoFirmware \/ ReleaseCpu
        BY <1>2, <2>2, CpuDoes DEF CpuTo
  <2>3. CASE ReadReg \/ CheckId \/ CheckLock
        BY <2>3, OthersDo
  <2>. QED BY <2>1, <2>2, <2>3 DEF Step
<1>. QED BY <1>1, <1>2

(* The program's own chip is still its own, or the program has ended. *)
LEMMA OwnIdle ==
  ASSUME Here, BoardsOK, OwnInv, Step, prog # "rf_test", NEW c, c = Chip(prog),
         SetPin \/ Own(c)
  PROVE  Own(c)' \/ Idle(boards'[Master], c)
<1>1. /\ c \in SpiChips /\ Len(Ops(prog)) > 2 /\ prog \in {"bring_up", "ad9510_init"}
      BY OwnProgram
<1>2. Advances /\ pos \in Nat /\ pos > 0
      BY StepAdvances, Here_Access
<1>3. CASE prog' = prog
  <2>1. pos' > 1
        BY <1>2, <1>3, NotNone DEF Advances, Here
  <2>. QED BY <1>1, <1>3, <2>1 DEF Own
<1>4. CASE prog' # prog
  <2>1. ~Inside(Access) /\ (pos = Len(Ops(prog)) \/ Access.op # "set")
        BY <1>2, <1>4 DEF Advances
  <2>2. OwnAfter(boards'[Master], c) /\ pos > 2
    <3>1. CASE Access.op # "set"
          BY <3>1, OwnOther
    <3>2. CASE Access.op = "set"
      <4>1. SetPin
            BY <3>2 DEF Step, SetPin, WriteReg, ReadReg, HaltCpu, NoFirmware, ReleaseCpu,
                        CheckId, CheckLock
      <4>. QED BY <1>1, <2>1, <3>2, <4>1, OwnSet
    <3>. QED BY <3>1, <3>2
  <2>3. boards'[Master].pins[cs_n(c)] = 1
        BY <2>1, <2>2 DEF OwnAfter
  <2>. QED BY <2>3 DEF Idle, Listens
<1>. QED BY <1>3, <1>4

LEMMA NextIdle == TypeOK /\ OwnInv /\ IdleInv /\ [Next]_vars => IdleInv'
<1>1. SUFFICES ASSUME TypeOK, OwnInv, IdleInv, [Next]_vars,
                      NEW b \in Boards, NEW c \in SpiChips
               PROVE  (b = Master /\ Own(c)') \/ Idle(boards'[b], c)
      BY DEF IdleInv, Idle, Own
<1>2. (b = Master /\ Own(c)) \/ Idle(boards[b], c)
      BY <1>1 DEF IdleInv, Idle
<1>3. CASE Step
  <2>1. Here /\ BoardsOK
        BY <1>1, <1>3, TypeHere, StepIsRunning
  <2>2. prog \in {"bring_up", "ad9510_init"} => Board = Master
        BY <2>1, OwnProgram
  <2>3. Own(c) => Board = Master /\ ~Other(c) /\ c = Chip(prog) /\ prog # "rf_test"
        BY <2>2 DEF Own, Other
  <2>4. CASE b # Board
    <3>1. boards'[b] = boards[b] /\ ~(b = Master /\ Own(c))
          BY <1>3, <2>1, <2>3, <2>4, OtherBoard
    <3>. QED BY <1>2, <3>1
  <2>5. CASE b = Board /\ Own(c)
        BY <1>1, <1>3, <2>1, <2>3, <2>5, OwnIdle
  <2>6. CASE b = Board /\ ~Own(c) /\ ~SetPin
    <3>1. boards'[b].pins = boards[b].pins /\ boards'[b].left = boards[b].left
          BY <1>3, <2>1, <2>6, PinsKept
    <3>. QED BY <1>2, <2>6, <3>1 DEF Idle
  <2>7. CASE b = Board /\ ~Own(c) /\ SetPin
    <3>1. CASE Other(c)
      <4>1. Access.op = "set" /\ Access \in AllAccesses
            BY <2>1, <2>7, SetPinDoes, Here_Access
      <4>2. PICK sdio \in {0, 1} : PinSet(sdio)
            BY <2>1, <2>7, SetPinDoes
      <4>3. PICK a, old, r : a = Access /\ old = boards[b] /\ r = boards'[b]
            OBVIOUS
      <4>4. a.pin \in Pins \cup {"PLL_SDIO"} /\ a.pin \notin {cs_n(c), reset_n(c)}
            BY <2>1, <3>1, <4>1, <4>3, OtherChip, SetTypes
      <4>5. BoardOK(old) /\ Idle(old, c) /\ DrivenTo(r, old, SetTo(old, a.pin, a.value), sdio)
            BY <1>2, <2>1, <2>7, <4>2, <4>3 DEF PinSet, BoardsOK
      <4>6. Idle(r, c)
            BY <4>4, <4>5, StaysIdle
      <4>. QED BY <4>3, <4>6
    <3>2. CASE ~Other(c)
      <4>1. prog # "rf_test" /\ c = Chip(prog)
            BY <3>2 DEF Other
      <4>2. b = Master
            BY <2>1, <2>7, <4>1, OwnProgram
      <4>. QED BY <1>1, <1>3, <2>1, <2>7, <4>1, <4>2, OwnIdle
    <3>. QED BY <3>1, <3>2
  <2>. QED BY <2>4, <2>5, <2>6, <2>7
<1>4. CASE Start
  <2>1. boards' = boards /\ ~Own(c)
        BY <1>4 DEF Start, Own, Running
  <2>. QED BY <1>2, <2>1
<1>5. CASE Kill
  <2>1. PICK left : left = {x \in SpiChips : Listens(x, boards[b].pins)}
        OBVIOUS
  <2>2. left \in SUBSET SpiChips /\ boards'[b] = [boards[b] EXCEPT !.left = left]
        BY <1>5, <2>1, KillDoes
  <2>3. BoardOK(boards[b])
        BY <1>1 DEF TypeOK
  <2>4. boards'[b].left = left /\ boards'[b].pins = boards[b].pins
        BY <2>2, <2>3, LeftChanges DEF LeftTo
  <2>. QED BY <2>1, <2>4 DEF Idle
<1>6. CASE UNCHANGED vars
      BY <1>2, <1>6 DEF vars, Own
<1>. QED BY <1>1, <1>3, <1>4, <1>5, <1>6 DEF Next

(* The chip the program does not talk to takes nothing. *)
LEMMA OthersTakeNothing ==
  ASSUME Here, BoardsOK, SetPin, NEW c \in SpiChips, Other(c),
         Idle(boards[Board], c), c \notin boards[Board].left
  PROVE  /\ ~TakesWord(boards[Board], boards'[Board], c)
         /\ Access.chip # c
<1>1. Access.op = "set" /\ Access \in AllAccesses /\ Board \in Boards
      BY SetPinDoes, Here_Access
<1>2. PICK sdio \in {0, 1} : PinSet(sdio)
      BY SetPinDoes
<1>3. PICK a, b, r : a = Access /\ b = boards[Board] /\ r = boards'[Board]
      OBVIOUS
<1>4. /\ a.pin \in Pins \cup {"PLL_SDIO"} /\ a.pin \notin {cs_n(c), reset_n(c)}
      /\ a.chip # c
      BY <1>1, <1>3, OtherChip, SetTypes
<1>5. BoardOK(b) /\ DrivenTo(r, b, SetTo(b, a.pin, a.value), sdio)
      BY <1>1, <1>2, <1>3 DEF PinSet, BoardsOK
<1>6. ~Listens(c, r.pins)
  <2>1. ~Listens(c, b.pins)
        BY <1>3 DEF Idle
  <2>2. r.pins[cs_n(c)] = b.pins[cs_n(c)] /\ r.pins[reset_n(c)] = b.pins[reset_n(c)]
        BY <1>4, <1>5, NotItsPin
  <2>. QED BY <2>1, <2>2 DEF Listens
<1>7. r.bits[c] = <<>>
  <2>1. r.bits[c] = ShiftedBy(b, r.pins, c)
        BY <1>4, <1>5, PinsLevel
  <2>. QED BY <1>6, <2>1 DEF ShiftedBy
<1>8. Len(r.bits[c]) # WordBits
  <2>1. Len(<<>>) = 0
        OBVIOUS
  <2>. QED BY <1>7, <2>1, WordBitsAssumption
<1>. QED BY <1>3, <1>4, <1>8 DEF TakesWord

(* SCLK rises within a transfer only. *)
LEMMA ClockRises ==
  ASSUME Here, BoardsOK, SetPin, prog # "rf_test", NEW c, c = Chip(prog),
         boards[Board].pins["PLL_SCLK"] = 0, boards'[Board].pins["PLL_SCLK"] = 1
  PROVE  /\ Access \in SpiAccesses(c) /\ pos > 2
         /\ \E k \in 1 .. WordBits : Access.at = 3 * k + 1
<1>1. /\ c \in SpiChips
      /\ pos = 1 => Access = Set(reset_n(c), 0)
      /\ pos = 2 => Access = Set(reset_n(c), 1)
      /\ pos > 2 => Access \in Accesses(c) \cup Jumps
      BY OwnProgram
<1>2. Access.op = "set" /\ Access \in AllAccesses /\ Board \in Boards
      /\ pos \in Nat /\ pos > 0
      BY SetPinDoes, Here_Access
<1>3. PICK sdio \in {0, 1} : PinSet(sdio)
      BY SetPinDoes
<1>4. PICK a, b, r : a = Access /\ b = boards[Board] /\ r = boards'[Board]
      OBVIOUS
<1>5. BoardOK(b) /\ DrivenTo(r, b, SetTo(b, a.pin, a.value), sdio)
      BY <1>2, <1>3, <1>4 DEF PinSet, BoardsOK
<1>6. a.pin \in Pins \cup {"PLL_SDIO"}
      BY <1>2, <1>4, SetTypes
<1>7. a.pin = "PLL_SCLK" /\ a.value # 0
  <2>1. \A p \in Pins : r.pins[p] = IF p = a.pin THEN Level(a.value) ELSE b.pins[p]
    <3>1. PICK pin, value : pin = a.pin /\ value = a.value
          OBVIOUS
    <3>2. BoardOK(b) /\ pin \in Pins \cup {"PLL_SDIO"}
          BY <1>5, <1>6, <3>1
    <3>3. DrivenTo(r, b, SetTo(b, pin, value), sdio)
          BY <1>5, <3>1
    <3>4. \A p \in Pins : r.pins[p] = IF p = pin THEN Level(value) ELSE b.pins[p]
          BY <3>2, <3>3, PinsLevel
    <3>. QED BY <3>1, <3>4
  <2>2. r.pins["PLL_SCLK"] = IF a.pin = "PLL_SCLK" THEN Level(a.value) ELSE b.pins["PLL_SCLK"]
        BY <2>1 DEF Pins
  <2>. QED BY <1>4, <2>2 DEF Level
<1>8. pos > 2
  <2>1. reset_n(c) # "PLL_SCLK"
        BY <1>1, SpiPins
  <2>. QED BY <1>1, <1>2, <1>4, <1>7, <2>1 DEF Set
<1>9. a \in SpiAccesses(c)
  <2>1. /\ \A x \in Writes : x.op = "write"
        /\ \A x \in Jumps : x.op \in {"skip", "poll"}
        /\ Reads.op = "read"
        BY DEF Writes, Jumps, Reads, Write, Skip, Poll
  <2>2. a \notin AdfAccesses \cup {Set("ADF_CE", 1)}
        BY <1>7, AdfPins
  <2>. QED BY <1>1, <1>2, <1>4, <1>8, <2>1, <2>2 DEF Accesses
<1>10. \E k \in 1 .. WordBits : a.at = 3 * k + 1
  <2>1. SpiPart(a, c)
        BY <1>1, <1>9, SpiAccessParts
  <2>2. PICK j : j = a.at /\ j \in 1 .. TransferLen
        BY <2>1 DEF SpiPart
  <2>3. cs_n(c) # "PLL_SCLK"
        BY <1>1, SpiPins
  <2>. QED BY <1>7, <2>1, <2>2, <2>3, Places DEF SpiPart
<1>. QED BY <1>4, <1>8, <1>9, <1>10

(* ... and the chip has then taken one more bit of the word sent. *)
LEMMA OwnTakes ==
  ASSUME Here, BoardsOK, OwnInv, SetPin, prog # "rf_test", NEW c, c = Chip(prog),
         TakesWord(boards[Board], boards'[Board], c)
  PROVE  Access.chip = c /\ boards'[Board].bits[c] = Access.word
<1>1. c \in SpiChips /\ Board = Master /\ prog \in {"bring_up", "ad9510_init"}
      BY OwnProgram
<1>2. PICK a, b, r : a = Access /\ b = boards[Board] /\ r = boards'[Board]
      OBVIOUS
<1>3. /\ b.pins["PLL_SCLK"] = 0 /\ r.pins["PLL_SCLK"] = 1 /\ Len(r.bits[c]) = WordBits
      BY <1>2 DEF TakesWord
<1>4. /\ a \in SpiAccesses(c) /\ pos > 2
      /\ \E k \in 1 .. WordBits : a.at = 3 * k + 1
      BY <1>2, <1>3, ClockRises
<1>5. PICK k \in 1 .. WordBits : a.at = 3 * k + 1
      BY <1>4
<1>6. SpiPart(a, c)
      BY <1>1, <1>4, SpiAccessParts
<1>7. /\ a.at > 1 /\ a.at < TransferLen /\ a.at + 1 = 3 * k + 2
      BY <1>5, WordBitsAssumption DEF TransferLen
<1>8. pos \in Nat
      BY Here_Access
<1>9. OwnAt(b, c) /\ Talks(a, c)
  <2>1. Own(c)
        BY <1>1, <1>4, <1>8 DEF Own
  <2>2. OwnAt(boards[Master], c)
        BY <1>1, <2>1 DEF OwnInv
  <2>. QED BY <1>1, <1>2, <1>6, <1>7, <2>2 DEF Talks, SpiPart
<1>10. SpiAt(b, c, a.word, a.at) /\ b.pins[reset_n(c)] = 1
      BY <1>2, <1>4, <1>8, <1>9 DEF OwnAt
<1>11. PICK sdio \in {0, 1} : PinSet(sdio)
      BY SetPinDoes
<1>12. /\ BoardOK(b) /\ BoardOK(r) /\ DrivenTo(r, b, SetTo(b, a.pin, a.value), sdio)
       /\ a.pin = "PLL_SDIO" => sdio = Level(a.value)
  <2>1. Master \in Boards
        BY DEF Boards
  <2>. QED BY <1>1, <1>2, <1>11, <2>1 DEF PinSet, BoardsOK
<1>13. SpiAt(r, c, a.word, a.at + 1)
       BY <1>1, <1>6, <1>7, <1>10, <1>12, SpiStep
<1>14. Shifted(r.bits[c], a.word, k)
       BY <1>7, <1>13 DEF SpiAt
<1>15. k = WordBits
       BY <1>3, <1>14 DEF Shifted
<1>16. r.bits[c] = a.word
  <2>1. r.bits[c] \in Seq({0, 1})
        BY <1>1, <1>12, BoardParts DEF BoardType, Chips
  <2>2. a.word \in Words
        BY <1>6 DEF SpiPart
  <2>. QED BY <1>14, <1>15, <2>1, <2>2, ShiftedWord
<1>. QED BY <1>2, <1>6, <1>16 DEF SpiPart

LEMMA OwnDone ==
  ASSUME Here, BoardsOK, OwnInv, SetPin, prog # "rf_test", NEW c, c = Chip(prog),
         Access.chip = c, boards[Board].pins[cs_n(c)] = 0, boards'[Board].pins[cs_n(c)] = 1
  PROVE  boards[Board].bits[c] = Access.word
<1>1. /\ c \in SpiChips /\ Board = Master /\ prog \in {"bring_up", "ad9510_init"}
      /\ pos = 1 => Access = Set(reset_n(c), 0)
      /\ pos = 2 => Access = Set(reset_n(c), 1)
      BY OwnProgram
<1>2. PICK a, b, r : a = Access /\ b = boards[Board] /\ r = boards'[Board]
      OBVIOUS
<1>3. Access.op = "set" /\ Access \in AllAccesses /\ Board \in Boards
      /\ pos \in Nat /\ pos > 0
      BY SetPinDoes, Here_Access
<1>4. a \in SpiAccesses(c) /\ SpiPart(a, c)
      BY <1>1, <1>2, <1>3, SpiTalk, SpiAccessParts
<1>5. PICK sdio \in {0, 1} : PinSet(sdio)
      BY SetPinDoes
<1>6. BoardOK(b) /\ DrivenTo(r, b, SetTo(b, a.pin, a.value), sdio)
      BY <1>2, <1>3, <1>5 DEF PinSet, BoardsOK
<1>7. a.pin \in Pins \cup {"PLL_SDIO"}
      BY <1>2, <1>3, SetTypes
<1>8. /\ cs_n(c) \in Pins /\ cs_n(c) # "PLL_SCLK" /\ cs_n(c) # "PLL_SDIO"
      BY <1>1, SpiPins
<1>9. a.pin = cs_n(c) /\ Level(a.value) = 1
  <2>1. \A p \in Pins : r.pins[p] = IF p = a.pin THEN Level(a.value) ELSE b.pins[p]
        BY <1>6, <1>7, PinsLevel
  <2>2. b.pins[cs_n(c)] = 0 /\ r.pins[cs_n(c)] = 1
        BY <1>2
  <2>. QED BY <1>8, <2>1, <2>2
<1>10. a.at = TransferLen
  <2>1. PICK j : j = a.at /\ j \in 1 .. TransferLen
        BY <1>4 DEF SpiPart
  <2>2. j # 2
        BY <1>4, <1>9, <2>1 DEF SpiPart, Level
  <2>. QED BY <1>4, <1>8, <1>9, <2>1, <2>2, Places DEF SpiPart
<1>11. pos > 2
  <2>1. c # "none"
        BY <1>1 DEF SpiChips
  <2>2. a.chip = c
        BY <1>2
  <2>. QED BY <1>1, <1>2, <1>3, <2>1, <2>2 DEF Set
<1>12. OwnAt(b, c)
  <2>1. Own(c)
        BY <1>1, <1>3, <1>11 DEF Own
  <2>. QED BY <1>1, <1>2, <2>1 DEF OwnInv
<1>13. SpiAt(b, c, a.word, TransferLen)
  <2>1. TransferLen > 1
        BY WordBitsAssumption DEF TransferLen
  <2>2. Talks(a, c)
        BY <1>2, <1>3, <1>10, <2>1 DEF Talks
  <2>. QED BY <1>2, <1>10, <1>12, <2>2 DEF OwnAt
<1>14. Shifted(b.bits[c], a.word, WordBits)
      BY <1>13 DEF SpiAt
<1>15. b.bits[c] = a.word
  <2>1. b.bits[c] \in Seq({0, 1})
        BY <1>1, <1>6, BoardParts DEF BoardType, Chips
  <2>2. a.word \in Words
        BY <1>4 DEF SpiPart
  <2>. QED BY <1>14, <2>1, <2>2, ShiftedWord
<1>. QED BY <1>2, <1>15

LEMMA SpiWord ==
  ASSUME TypeOK, OwnInv, IdleInv, SetPin, NEW c \in SpiChips \ boards[Board].left
  PROVE  /\ TakesWord(boards[Board], boards'[Board], c)
              => Access.chip = c /\ boards'[Board].bits[c] = Access.word
         /\ Access.chip = c /\ boards'[Board].pins[cs_n(c)] = 1
              /\ boards[Board].pins[cs_n(c)] = 0
              => boards[Board].bits[c] = Access.word
<1>1. Here /\ BoardsOK
      BY TypeHere DEF SetPin
<1>2. CASE Other(c)
  <2>1. Board \in Boards /\ ~Own(c)
        BY <1>1, <1>2, Here_Access DEF Own, Other
  <2>2. Idle(boards[Board], c)
        BY <2>1 DEF IdleInv, Idle
  <2>. QED BY <1>1, <1>2, <2>2, OthersTakeNothing
<1>3. CASE ~Other(c)
  <2>1. prog # "rf_test" /\ c = Chip(prog)
        BY <1>3 DEF Other
  <2>2. TakesWord(boards[Board], boards'[Board], c)
          => Access.chip = c /\ boards'[Board].bits[c] = Access.word
        BY <1>1, <2>1, OwnTakes
  <2>3. Access.chip = c /\ boards'[Board].pins[cs_n(c)] = 1 /\ boards[Board].pins[cs_n(c)] = 0
          => boards[Board].bits[c] = Access.word
        BY <1>1, <2>1, OwnDone
  <2>. QED BY <2>2, <2>3
<1>. QED BY <1>2, <1>3

LEMMA AdfWord ==
  ASSUME TypeOK, AdfInv, [Next]_vars, NEW b \in Boards, AdfLatches(boards[b], boards'[b])
  PROVE  /\ Access.chip = "adf" /\ Board = b
         /\ boards'[b].bits["adf"] = Access.word
<1>1. boards'[b].pins # boards[b].pins
      BY DEF AdfLatches
<1>2. CASE SetPin
      BY <1>2, AdfLatched
<1>3. CASE Step /\ ~SetPin
  <2>1. Here /\ BoardsOK
        BY <1>3, TypeHere, StepIsRunning
  <2>. QED BY <1>1, <1>3, <2>1, PinsKept
<1>4. CASE Kill
  <2>1. PICK left : left = {x \in SpiChips : Listens(x, boards[b].pins)}
        OBVIOUS
  <2>2. left \in SUBSET SpiChips /\ boards'[b] = [boards[b] EXCEPT !.left = left]
        BY <1>4, <2>1, KillDoes
  <2>3. BoardOK(boards[b])
        BY DEF TypeOK
  <2>4. boards'[b].pins = boards[b].pins
        BY <2>2, <2>3, LeftChanges DEF LeftTo
  <2>. QED BY <1>1, <2>4
<1>5. CASE Start \/ UNCHANGED vars
      BY <1>1, <1>5 DEF Start, vars
<1>. QED BY <1>2, <1>3, <1>4, <1>5 DEF Next

(* The three chips take the words sent to them, whole, and no others, for  *)
(* every list of words, wherever programs are killed and started again     *)
(* (rf-lib.c:64-101, 250-265). *)
THEOREM WordsReach == Spec => WordsReachTheirChip
<1>1. TypeOK /\ OwnInv /\ IdleInv /\ AdfInv /\ [Next]_vars
        => [SetPin =>
              \A c \in SpiChips \ boards[Board].left :
                LET before == boards[Board]
                    after  == boards'[Board]
                    talk   == Access.chip = c
                IN  /\ TakesWord(before, after, c) => talk /\ after.bits[c] = Access.word
                    /\ talk /\ after.pins[cs_n(c)] = 1 /\ before.pins[cs_n(c)] = 0
                         => before.bits[c] = Access.word]_vars
      BY SpiWord
<1>2. TypeOK /\ OwnInv /\ IdleInv /\ AdfInv /\ [Next]_vars
        => [\A b \in Boards : AdfLatches(boards[b], boards'[b])
              => /\ Access.chip = "adf" /\ Board = b
                 /\ boards'[b].bits["adf"] = Access.word]_vars
      BY AdfWord
<1>. QED BY <1>1, <1>2, InitType, NextType, InitOwn, NextOwn, InitIdle, NextIdle,
            InitAdf, NextAdf, PTL
         DEF Spec, WordsReachTheirChip, SpiWordsReachTheirChip, AdfTakesWholeWords

-----------------------------------------------------------------------------
(* rf_init.  What a board has before access i of it, for i > 1. *)
ModeAt(b, mode, i) ==
  /\ i > 1 => b.regs["CR"] = "0"
  /\ i > 5 => b.regs["RSTR"] = IF mode = "SLAVE" /\ i = AdfLen + 14 THEN "SW_RST" ELSE "0"
  /\ i > 7 => b.cpu # "stopped"
  /\ i > 8 => b.regs["FREQ_HI"] = "tune"
  /\ i > 9 => b.regs["FREQ_LO"] = "tune"
  /\ i > 10 => b.pins["ADF_CE"] = 1
  /\ i > AdfLen + 9 => b.pins["ADF_LE"] = 1 /\ b.bits["adf"] = LastAdfWord
  /\ i > AdfLen + 10 => b.regs["GAIN"] = "3000"
  /\ i > AdfLen + 11 => b.regs["MACH"] = "mac"
  /\ i > AdfLen + 12 => b.regs["MACL"] = "mac"
  /\ mode = "MASTER" /\ i > AdfLen + 13 => b.regs["PIR"] = "gains"
  /\ mode = "SLAVE" /\ i > AdfLen + 15 => b.regs["DLYR"] = "10000"

LEMMA WriteFields ==
  ASSUME NEW r, NEW v
  PROVE  Write(r, v).op = "write" /\ Write(r, v).reg = r /\ Write(r, v).value = v
BY DEF Write

(* Its writes, by their place. *)
Writing(a, mode, i) ==
  /\ i \notin {6, 7} /\ i \notin 10 .. AdfLen + 9
  /\ i = 1 => a.reg = "CR" /\ a.value = "0"
  /\ i \in 2 .. 5 => a.reg = "RSTR" /\ (i = 5 => a.value = "0")
  /\ i = 8 => a.reg = "FREQ_HI" /\ a.value = "tune"
  /\ i = 9 => a.reg = "FREQ_LO" /\ a.value = "tune"
  /\ i = AdfLen + 10 => a.reg = "GAIN" /\ a.value = "3000"
  /\ i = AdfLen + 11 => a.reg = "MACH" /\ a.value = "mac"
  /\ i = AdfLen + 12 => a.reg = "MACL" /\ a.value = "mac"
  /\ mode = "MASTER" =>
       /\ i = AdfLen + 13 => a.reg = "PIR" /\ a.value = "gains"
       /\ i = AdfLen + 14 => a.reg = "CR" /\ a.value = "MASTER"
  /\ mode = "SLAVE" =>
       /\ i = AdfLen + 13 => a.reg = "RSTR" /\ a.value = "SW_RST"
       /\ i = AdfLen + 14 => a.reg = "RSTR" /\ a.value = "0"
       /\ i = AdfLen + 15 => a.reg = "DLYR" /\ a.value = "10000"
       /\ i = AdfLen + 16 => a.reg = "CR" /\ a.value = "SLAVE"

LEMMA InitWriting ==
  ASSUME NEW mode \in Modes, NEW i \in 1 .. InitLen(mode),
         NEW a, a = rf_init(mode)[i], a.op = "write"
  PROVE  Writing(a, mode, i)
<1>1. PICK q : q = rf_init(mode)
      OBVIOUS
<1>2. Beginning(q) /\ Ending(q, mode) /\ a = q[i]
      BY <1>1, RfInit
<1>3. /\ Halt.op # "write" /\ Release.op # "write" /\ Set("ADF_CE", 1).op # "write"
      /\ \A x \in AdfAccesses : x.op # "write"
      BY AdfAccess DEF Halt, Release, Set
<1>4. AdfLen \in Nat /\ AdfLen > 1
      BY InitLens
<1>5. i \notin {6, 7, 10}
      BY <1>2, <1>3 DEF Beginning
<1>6. i \notin 11 .. AdfLen + 9
  <2>1. ASSUME i \in 11 .. AdfLen + 9 PROVE FALSE
    <3>1. q[i] \in AdfAccesses
          BY <1>2, <2>1 DEF Beginning
    <3>. QED BY <1>2, <1>3, <3>1
  <2>. QED BY <2>1
<1>7. i \notin {6, 7} /\ i \notin 10 .. AdfLen + 9
      BY <1>4, <1>5, <1>6
<1>8. /\ i = 1 => a.reg = "CR" /\ a.value = "0"
      /\ i \in 2 .. 5 => a.reg = "RSTR" /\ (i = 5 => a.value = "0")
      /\ i = 8 => a.reg = "FREQ_HI" /\ a.value = "tune"
      /\ i = 9 => a.reg = "FREQ_LO" /\ a.value = "tune"
  <2>1. i \in 2 .. 5 => i \in {2, 3, 4, 5}
        OBVIOUS
  <2>. QED BY <1>2, <2>1, WriteFields DEF Beginning
<1>9. /\ i = AdfLen + 10 => a.reg = "GAIN" /\ a.value = "3000"
      /\ i = AdfLen + 11 => a.reg = "MACH" /\ a.value = "mac"
      /\ i = AdfLen + 12 => a.reg = "MACL" /\ a.value = "mac"
      BY <1>2, WriteFields DEF Beginning
<1>10. mode = "MASTER" =>
       /\ i = AdfLen + 13 => a.reg = "PIR" /\ a.value = "gains"
       /\ i = AdfLen + 14 => a.reg = "CR" /\ a.value = "MASTER"
       BY <1>2, WriteFields DEF Ending
<1>11. mode = "SLAVE" =>
       /\ i = AdfLen + 13 => a.reg = "RSTR" /\ a.value = "SW_RST"
       /\ i = AdfLen + 14 => a.reg = "RSTR" /\ a.value = "0"
       /\ i = AdfLen + 15 => a.reg = "DLYR" /\ a.value = "10000"
       /\ i = AdfLen + 16 => a.reg = "CR" /\ a.value = "SLAVE"
       BY <1>2, WriteFields DEF Ending
<1>. QED BY <1>7, <1>8, <1>9, <1>10, <1>11 DEF Writing

LEMMA WriteModeStep ==
  ASSUME NEW mode \in Modes, NEW i \in 1 .. InitLen(mode), NEW a, Writing(a, mode, i),
         NEW b, BoardOK(b), NEW r, WrittenTo(r, b, a.reg, a.value),
         i > 1 => ModeAt(b, mode, i)
  PROVE  IF i = InitLen(mode) THEN r.regs["CR"] = mode /\ Configured(r, mode)
         ELSE ModeAt(r, mode, i + 1)
<1>1. PICK reg, value, A : reg = a.reg /\ value = a.value /\ A = AdfLen
      OBVIOUS
<1>2. A \in Nat /\ A > 1 /\ i \in Nat /\ i > 0
      /\ InitLen(mode) = (IF mode = "MASTER" THEN A + 14 ELSE A + 16)
      BY <1>1, InitLens DEF InitLen
<1>3. b.regs \in [Registers -> UNION {Values[x] : x \in Registers}]
      BY BoardParts DEF BoardType
<1>4. \A x \in Registers : r.regs[x] = IF x = reg THEN value ELSE b.regs[x]
      BY <1>1, <1>3 DEF WrittenTo
<1>5. r.cpu = b.cpu /\ r.pins = b.pins /\ r.bits = b.bits
      BY DEF WrittenTo
<1>6. PICK cr, rstr, hi, lo, gain, mach, macl, pir, dlyr :
        /\ cr = b.regs["CR"] /\ rstr = b.regs["RSTR"] /\ hi = b.regs["FREQ_HI"]
        /\ lo = b.regs["FREQ_LO"] /\ gain = b.regs["GAIN"] /\ mach = b.regs["MACH"]
        /\ macl = b.regs["MACL"] /\ pir = b.regs["PIR"] /\ dlyr = b.regs["DLYR"]
      OBVIOUS
<1>7. PICK cr2, rstr2, hi2, lo2, gain2, mach2, macl2, pir2, dlyr2 :
        /\ cr2 = r.regs["CR"] /\ rstr2 = r.regs["RSTR"] /\ hi2 = r.regs["FREQ_HI"]
        /\ lo2 = r.regs["FREQ_LO"] /\ gain2 = r.regs["GAIN"] /\ mach2 = r.regs["MACH"]
        /\ macl2 = r.regs["MACL"] /\ pir2 = r.regs["PIR"] /\ dlyr2 = r.regs["DLYR"]
      OBVIOUS
<1>8. /\ cr2 = IF reg = "CR" THEN value ELSE cr
      /\ rstr2 = IF reg = "RSTR" THEN value ELSE rstr
      /\ hi2 = IF reg = "FREQ_HI" THEN value ELSE hi
      /\ lo2 = IF reg = "FREQ_LO" THEN value ELSE lo
      /\ gain2 = IF reg = "GAIN" THEN value ELSE gain
      /\ mach2 = IF reg = "MACH" THEN value ELSE mach
      /\ macl2 = IF reg = "MACL" THEN value ELSE macl
      /\ pir2 = IF reg = "PIR" THEN value ELSE pir
      /\ dlyr2 = IF reg = "DLYR" THEN value ELSE dlyr
      BY <1>4, <1>6, <1>7 DEF Registers
<1>9. PICK cpu, ce, le, bits : /\ cpu = b.cpu /\ ce = b.pins["ADF_CE"]
                               /\ le = b.pins["ADF_LE"] /\ bits = b.bits["adf"]
      OBVIOUS
<1>10. i > 1 =>
         /\ cr = "0"
         /\ i > 5 => rstr = IF mode = "SLAVE" /\ i = A + 14 THEN "SW_RST" ELSE "0"
         /\ i > 7 => cpu # "stopped"
         /\ i > 8 => hi = "tune"
         /\ i > 9 => lo = "tune"
         /\ i > 10 => ce = 1
         /\ i > A + 9 => le = 1 /\ bits = LastAdfWord
         /\ i > A + 10 => gain = "3000"
         /\ i > A + 11 => mach = "mac"
         /\ i > A + 12 => macl = "mac"
         /\ mode = "MASTER" /\ i > A + 13 => pir = "gains"
         /\ mode = "SLAVE" /\ i > A + 15 => dlyr = "10000"
       BY <1>1, <1>6, <1>9 DEF ModeAt
<1>11. ASSUME i # InitLen(mode),
         /\ cr2 = "0"
         /\ i > 4 => rstr2 = IF mode = "SLAVE" /\ i = A + 13 THEN "SW_RST" ELSE "0"
         /\ i > 6 => cpu # "stopped"
         /\ i > 7 => hi2 = "tune"
         /\ i > 8 => lo2 = "tune"
         /\ i > 9 => ce = 1
         /\ i > A + 8 => le = 1 /\ bits = LastAdfWord
         /\ i > A + 9 => gain2 = "3000"
         /\ i > A + 10 => mach2 = "mac"
         /\ i > A + 11 => macl2 = "mac"
         /\ mode = "MASTER" /\ i > A + 12 => pir2 = "gains"
         /\ mode = "SLAVE" /\ i > A + 14 => dlyr2 = "10000"
       PROVE ModeAt(r, mode, i + 1)
       BY <1>1, <1>2, <1>5, <1>7, <1>9, <1>11 DEF ModeAt
<1>12. /\ i \notin {6, 7} /\ i \notin 10 .. A + 9
       /\ i = 1 => reg = "CR" /\ value = "0"
       /\ i \in 2 .. 5 => reg = "RSTR" /\ (i = 5 => value = "0")
       /\ i = 8 => reg = "FREQ_HI" /\ value = "tune"
       /\ i = 9 => reg = "FREQ_LO" /\ value = "tune"
       /\ i = A + 10 => reg = "GAIN" /\ value = "3000"
       /\ i = A + 11 => reg = "MACH" /\ value = "mac"
       /\ i = A + 12 => reg = "MACL" /\ value = "mac"
       /\ mode = "MASTER" =>
            /\ i = A + 13 => reg = "PIR" /\ value = "gains"
            /\ i = A + 14 => reg = "CR" /\ value = "MASTER"
       /\ mode = "SLAVE" =>
            /\ i = A + 13 => reg = "RSTR" /\ value = "SW_RST"
            /\ i = A + 14 => reg = "RSTR" /\ value = "0"
            /\ i = A + 15 => reg = "DLYR" /\ value = "10000"
            /\ i = A + 16 => reg = "CR" /\ value = "SLAVE"
       BY <1>1 DEF Writing
<1>13. CASE i \in 1 .. 5
       BY <1>2, <1>8, <1>10, <1>11, <1>12, <1>13
<1>14. CASE i \in {8, 9}
       BY <1>2, <1>8, <1>10, <1>11, <1>12, <1>14
<1>15. CASE i \in {A + 10, A + 11, A + 12}
       BY <1>2, <1>8, <1>10, <1>11, <1>12, <1>15
<1>16. CASE i = InitLen(mode)
  <2>1. r.regs["CR"] = mode
        BY <1>2, <1>7, <1>8, <1>12, <1>16 DEF Modes
  <2>2. /\ rstr2 = "0" /\ cpu # "stopped" /\ hi2 = "tune" /\ lo2 = "tune"
        /\ gain2 = "3000" /\ mach2 = "mac" /\ macl2 = "mac" /\ ce = 1 /\ le = 1
        /\ bits = LastAdfWord
        /\ IF mode = "MASTER" THEN pir2 = "gains" ELSE dlyr2 = "10000"
        BY <1>2, <1>8, <1>10, <1>12, <1>16 DEF Modes
  <2>3. Configured(r, mode)
        BY <1>5, <1>7, <1>9, <2>2 DEF Configured, LastAdfWord
  <2>. QED BY <1>16, <2>1, <2>3
<1>17. CASE i = A + 13 /\ i # InitLen(mode)
       BY <1>2, <1>8, <1>10, <1>11, <1>12, <1>17 DEF Modes
<1>18. CASE i \in {A + 14, A + 15} /\ i # InitLen(mode)
       BY <1>2, <1>8, <1>10, <1>11, <1>12, <1>18 DEF Modes
<1>. QED BY <1>2, <1>12, <1>13, <1>14, <1>15, <1>16, <1>17, <1>18

(* Its gpio_sets. *)
LEMMA InitSetting ==
  ASSUME NEW mode \in Modes, NEW i \in 1 .. InitLen(mode),
         NEW a, a = rf_init(mode)[i], a.op = "set"
  PROVE  /\ i \in 10 .. AdfLen + 9
         /\ i = 10 => a.pin = "ADF_CE" /\ a.value = 1
         /\ i > 10 => a \in AdfAccesses
         /\ i = AdfLen + 9 => a = adf4002_write(LastAdfWord)[TransferLen]
<1>1. PICK q : q = rf_init(mode)
      OBVIOUS
<1>2. Beginning(q) /\ Ending(q, mode) /\ a = q[i]
      BY <1>1, RfInit
<1>3. Halt.op # "set" /\ Release.op # "set"
      BY DEF Halt, Release
<1>4. AdfLen \in Nat /\ AdfLen > 1 /\ i \in Nat /\ i > 0
      BY InitLens
<1>5. ASSUME NEW r, NEW v PROVE a # Write(r, v)
      BY WriteFields
<1>6. i >= 10
  <2>1. i \in 1 .. 9 => i \in {1, 2, 3, 4, 5, 6, 7, 8, 9}
        OBVIOUS
  <2>2. i \notin {1, 2, 3, 4, 5, 8, 9}
        BY <1>2, <1>5 DEF Beginning
  <2>3. i \notin {6, 7}
        BY <1>2, <1>3 DEF Beginning
  <2>. QED BY <1>4, <2>1, <2>2, <2>3
<1>7. i <= AdfLen + 9
  <2>1. i \notin {AdfLen + 10, AdfLen + 11, AdfLen + 12}
        BY <1>2, <1>5 DEF Beginning
  <2>2. CASE mode = "MASTER"
    <3>1. i \notin {AdfLen + 13, AdfLen + 14}
          BY <1>2, <1>5, <2>2 DEF Ending
    <3>2. i <= AdfLen + 14
          BY <1>4, <2>2 DEF InitLen
    <3>. QED BY <1>4, <2>1, <3>1, <3>2
  <2>3. CASE mode = "SLAVE"
    <3>1. i \notin {AdfLen + 13, AdfLen + 14, AdfLen + 15, AdfLen + 16}
          BY <1>2, <1>5, <2>3 DEF Ending
    <3>2. i <= AdfLen + 16
          BY <1>4, <2>3 DEF InitLen
    <3>. QED BY <1>4, <2>1, <3>1, <3>2
  <2>. QED BY <2>2, <2>3 DEF Modes
<1>8. i = 10 => a.pin = "ADF_CE" /\ a.value = 1
      BY <1>2 DEF Beginning, Set
<1>9. i > 10 => a \in AdfAccesses
  <2>1. i > 10 => i \in 11 .. AdfLen + 9
        BY <1>4, <1>7
  <2>. QED BY <1>2, <2>1 DEF Beginning
<1>10. i = AdfLen + 9 => a = adf4002_write(LastAdfWord)[TransferLen]
       BY <1>2 DEF Beginning
<1>. QED BY <1>4, <1>6, <1>7, <1>8, <1>9, <1>10

(* The last access of adf4002_configure latches the last word. *)
LEMMA LastLatch ==
  ASSUME NEW a, a = adf4002_write(LastAdfWord)[TransferLen],
         NEW b, BoardOK(b), AdfAt(b, a.word, a.at),
         NEW sdio, NEW r, DrivenTo(r, b, SetTo(b, a.pin, a.value), sdio)
  PROVE  r.pins["ADF_LE"] = 1 /\ r.bits["adf"] = LastAdfWord
<1>1. PICK w : w = LastAdfWord
      OBVIOUS
<1>2. w \in Words
      BY <1>1, WordsKnown
<1>3. a = Part("ADF_LE", 1, "adf", w, TransferLen)
      BY <1>1, <1>2, AdfParts
<1>4. a.pin = "ADF_LE" /\ a.value = 1 /\ a.word = w /\ a.at = TransferLen
      BY <1>3 DEF Part
<1>5. EndsWith(b.bits["adf"], w, WordBits)
      BY <1>4 DEF AdfAt
<1>6. b.bits["adf"] = w
  <2>1. b.bits["adf"] \in Seq({0, 1}) /\ Len(b.bits["adf"]) <= WordBits
        BY BoardParts DEF BoardType, Chips
  <2>. QED BY <1>2, <1>5, <2>1, WholeWord
<1>7. DrivenTo(r, b, SetTo(b, "ADF_LE", 1), sdio)
      BY <1>4
<1>8. /\ \A p \in Pins : r.pins[p] = IF p = "ADF_LE" THEN 1 ELSE b.pins[p]
      /\ r.bits["adf"] = AdfShiftedBy(b, r.pins)
  <2>1. "ADF_LE" \in Pins \cup {"PLL_SDIO"} /\ 1 \in {0, 1}
        BY DEF Pins
  <2>. QED BY <1>7, <2>1, PinsAfter
<1>9. r.pins["ADF_LE"] = 1 /\ r.pins["ADF_CLK"] = b.pins["ADF_CLK"]
      BY <1>8 DEF Pins
<1>. QED BY <1>1, <1>6, <1>8, <1>9 DEF AdfShiftedBy, Rises

LEMMA SetModeStep ==
  ASSUME NEW mode \in Modes, NEW i \in 1 .. InitLen(mode),
         NEW a, a = rf_init(mode)[i], a.op = "set",
         NEW b, BoardOK(b), i > 1 => ModeAt(b, mode, i),
         a.chip = "adf" /\ a.at > 1 => AdfAt(b, a.word, a.at),
         NEW sdio, NEW r, DrivenTo(r, b, SetTo(b, a.pin, a.value), sdio)
  PROVE  i < InitLen(mode) /\ ModeAt(r, mode, i + 1)
<1>1. /\ i \in 10 .. AdfLen + 9
      /\ i = 10 => a.pin = "ADF_CE" /\ a.value = 1
      /\ i > 10 => a \in AdfAccesses
      /\ i = AdfLen + 9 => a = adf4002_write(LastAdfWord)[TransferLen]
      BY InitSetting
<1>2. AdfLen \in Nat /\ AdfLen > 1 /\ i \in Nat
      BY <1>1, InitLens
<1>3. i < InitLen(mode)
      BY <1>1, <1>2 DEF InitLen
<1>4. r.regs = b.regs /\ r.cpu = b.cpu
      BY DEF DrivenTo
<1>5. r.pins["ADF_CE"] = 1
  <2>1. a.pin \in {"ADF_CLK", "ADF_LE", "ADF_DATA", "ADF_CE"}
        BY <1>1, <1>2, AdfPins
  <2>2. a.pin = "ADF_CE" => i = 10
    <3>1. ASSUME a \in AdfAccesses PROVE a.pin # "ADF_CE"
      <4>1. AdfPart(a)
            BY <3>1, AdfAccessParts
      <4>2. PICK j : j = a.at /\ j \in 1 .. TransferLen
            BY <4>1 DEF AdfPart
      <4>. QED BY <4>1, <4>2, Places DEF AdfPart
    <3>. QED BY <1>1, <1>2, <3>1
  <2>3. a.pin \in Pins \cup {"PLL_SDIO"} /\ "ADF_CE" \in Pins
        BY <2>1 DEF Pins
  <2>4. PICK pin, value : pin = a.pin /\ value = a.value
        OBVIOUS
  <2>5. pin \in Pins \cup {"PLL_SDIO"} /\ DrivenTo(r, b, SetTo(b, pin, value), sdio)
        BY <2>3, <2>4
  <2>6. \A p \in Pins : r.pins[p] = IF p = pin THEN Level(value) ELSE b.pins[p]
        BY <2>5, PinsLevel
  <2>7. r.pins["ADF_CE"] = IF a.pin = "ADF_CE" THEN Level(a.value) ELSE b.pins["ADF_CE"]
        BY <2>3, <2>4, <2>6
  <2>8. CASE i = 10
        BY <1>1, <2>7, <2>8 DEF Level
  <2>9. CASE i > 10
    <3>1. b.pins["ADF_CE"] = 1
          BY <1>2, <2>9 DEF ModeAt
    <3>. QED BY <2>2, <2>7, <2>9, <3>1
  <2>. QED BY <1>1, <1>2, <2>8, <2>9
<1>6. i = AdfLen + 9 => r.pins["ADF_LE"] = 1 /\ r.bits["adf"] = LastAdfWord
  <2>1. ASSUME i = AdfLen + 9 PROVE r.pins["ADF_LE"] = 1 /\ r.bits["adf"] = LastAdfWord
    <3>1. a = adf4002_write(LastAdfWord)[TransferLen]
          BY <1>1, <2>1
    <3>2. a.chip = "adf" /\ a.at = TransferLen
      <4>1. PICK w : w = LastAdfWord
            OBVIOUS
      <4>2. w \in Words
            BY <4>1, WordsKnown
      <4>3. a = Part("ADF_LE", 1, "adf", w, TransferLen)
            BY <3>1, <4>1, <4>2, AdfParts
      <4>. QED BY <4>3 DEF Part
    <3>3. TransferLen > 1
          BY WordBitsAssumption DEF TransferLen
    <3>4. AdfAt(b, a.word, a.at)
          BY <3>2, <3>3
    <3>. QED BY <3>1, <3>4, LastLatch
  <2>. QED BY <2>1
<1>7. ModeAt(b, mode, i)
      BY <1>1, <1>2
<1>8. /\ b.regs["CR"] = "0" /\ b.regs["RSTR"] = "0" /\ b.cpu # "stopped"
      /\ b.regs["FREQ_HI"] = "tune" /\ b.regs["FREQ_LO"] = "tune"
  <2>1. i > 1 /\ i > 5 /\ i > 7 /\ i > 8 /\ i > 9 /\ i # AdfLen + 14
        BY <1>1, <1>2
  <2>. QED BY <1>7, <2>1 DEF ModeAt
<1>9. /\ i + 1 # AdfLen + 14 /\ ~(i + 1 > AdfLen + 10) /\ ~(i + 1 > AdfLen + 11)
      /\ ~(i + 1 > AdfLen + 12) /\ ~(i + 1 > AdfLen + 13) /\ ~(i + 1 > AdfLen + 15)
      /\ i + 1 > AdfLen + 9 => i = AdfLen + 9
      BY <1>1, <1>2
<1>10. ModeAt(r, mode, i + 1)
      BY <1>4, <1>5, <1>6, <1>8, <1>9 DEF ModeAt
<1>. QED BY <1>3, <1>10

(* Stopping and releasing the processor. *)
LEMMA InitCpu ==
  ASSUME NEW mode \in Modes, NEW i \in 1 .. InitLen(mode),
         NEW a, a = rf_init(mode)[i], a.op \in {"halt", "release"}
  PROVE  i = IF a.op = "halt" THEN 6 ELSE 7
<1>1. PICK q : q = rf_init(mode)
      OBVIOUS
<1>2. Beginning(q) /\ Ending(q, mode) /\ a = q[i]
      BY <1>1, RfInit
<1>3. a.op = "halt" => i = 6
      BY InitHalts
<1>4. ASSUME a.op = "release" PROVE i = 7
  <2>1. AdfLen \in Nat /\ AdfLen > 1 /\ i \in Nat /\ i > 0
        BY InitLens
  <2>2. ASSUME NEW r, NEW v PROVE a # Write(r, v)
        BY <1>4, WriteFields
  <2>3. i \notin {1, 2, 3, 4, 5, 8, 9, AdfLen + 10, AdfLen + 11, AdfLen + 12}
        BY <1>2, <2>2 DEF Beginning
  <2>4. i \notin {6, 10}
    <3>1. Halt.op # "release" /\ Set("ADF_CE", 1).op # "release"
          BY DEF Halt, Set
    <3>. QED BY <1>2, <1>4, <3>1 DEF Beginning
  <2>5. i \notin 11 .. AdfLen + 9
    <3>1. i \in 11 .. AdfLen + 9 => a \in AdfAccesses
          BY <1>2 DEF Beginning
    <3>2. \A x \in AdfAccesses : x.op = "set"
          BY AdfAccess
    <3>. QED BY <1>4, <3>1, <3>2
  <2>6. i <= AdfLen + 12
    <3>2. CASE mode = "MASTER"
      <4>1. i \notin {AdfLen + 13, AdfLen + 14}
            BY <1>2, <2>2, <3>2 DEF Ending
      <4>2. i <= AdfLen + 14
            BY <2>1, <3>2 DEF InitLen
      <4>. QED BY <2>1, <4>1, <4>2
    <3>3. CASE mode = "SLAVE"
      <4>1. i \notin {AdfLen + 13, AdfLen + 14, AdfLen + 15, AdfLen + 16}
            BY <1>2, <2>2, <3>3 DEF Ending
      <4>2. i <= AdfLen + 16
            BY <2>1, <3>3 DEF InitLen
      <4>. QED BY <2>1, <4>1, <4>2
    <3>. QED BY <3>2, <3>3 DEF Modes
  <2>. QED BY <2>1, <2>3, <2>4, <2>5, <2>6
<1>. QED BY <1>3, <1>4

LEMMA CpuModeStep ==
  ASSUME NEW mode \in Modes, NEW i \in {6, 7}, NEW b, ModeAt(b, mode, i),
         NEW r, CpuTo(r, b, r.cpu), NEW n \in {7, 8}, n = 8 => r.cpu # "stopped"
  PROVE  ModeAt(r, mode, n)
<1>1. /\ AdfLen \in Nat /\ AdfLen > 1
      BY InitLens
<1>2. b.regs["CR"] = "0" /\ b.regs["RSTR"] = "0"
      BY <1>1 DEF ModeAt
<1>3. r.regs = b.regs
      BY DEF CpuTo
<1>. QED BY <1>1, <1>2, <1>3 DEF ModeAt

(* The board of each rf_init of rf_test, and where in rf_test it begins.   *)
Mode(b) == IF b = Slave THEN "SLAVE" ELSE "MASTER"
First(b) == IF b = Slave THEN 0 ELSE SlaveLen

Inits(b) == prog = "rf_test" /\ pos - First(b) \in 2 .. InitLen(Mode(b))

MayBeOn(b) == b.regs["CR"] \in Modes => Configured(b, b.regs["CR"])

ModeInv ==
  build = {"rf_test"} =>
    \A b \in Boards : IF Inits(b) THEN ModeAt(boards[b], Mode(b), pos - First(b))
                      ELSE MayBeOn(boards[b])

LEMMA Firsts ==
  /\ First(Slave) = 0 /\ First(Master) = SlaveLen
  /\ Mode(Slave) = "SLAVE" /\ Mode(Master) = "MASTER"
  /\ InitLen("SLAVE") = SlaveLen /\ InitLen("MASTER") = AdfLen + 14
  /\ SlaveLen \in Nat /\ AdfLen \in Nat /\ SlaveLen > 14
  /\ InitsLen = SlaveLen + (AdfLen + 14)
  /\ Boards = {Master, Slave} /\ Master # Slave
<1>1. Master # Slave
      BY BoardsAssumption
<1>. QED BY <1>1, RfTestLens, InitLens DEF First, Mode, Boards, SlaveLen

(* Access i of the rf_init of board b is access First(b) + i of rf_test. *)
LEMMA InitPosition ==
  ASSUME Here, prog = "rf_test", NEW b \in Boards, NEW i \in 1 .. InitLen(Mode(b)),
         pos = First(b) + i
  PROVE  /\ Board = b /\ Access = rf_init(Mode(b))[i] /\ Mode(b) \in Modes
         /\ \A t \in {pos, pos + 1} : t \in 1 .. InitsLen + 8
         /\ \A d \in Boards \ {b} : \A t \in {pos, First(b) + 7, First(b) + 8, pos + 1} :
              t - First(d) \notin 2 .. InitLen(Mode(d))
<1>1. Code[prog] = rf_test
      BY DEF Code, Programs
<1>2. CASE b = Slave
  <2>1. i \in 1 .. SlaveLen /\ pos = i
        BY <1>2, Firsts
  <2>2. rf_test[i].board = Slave /\ rf_test[i].access = rf_init("SLAVE")[i]
        BY <2>1, RfTestParts
  <2>3. Board = b /\ Access = rf_init(Mode(b))[i] /\ Mode(b) \in Modes
        BY <1>1, <1>2, <2>1, <2>2, Firsts DEF Board, Access, Modes
  <2>4. \A t \in {pos, First(b) + 7, First(b) + 8, pos + 1} :
          t - First(Master) \notin 2 .. InitLen(Mode(Master))
        BY <1>2, <2>1, Firsts
  <2>5. \A t \in {pos, pos + 1} : t \in 1 .. InitsLen + 8
        BY <2>1, Firsts
  <2>. QED BY <1>2, <2>3, <2>4, <2>5, Firsts
<1>3. CASE b = Master
  <2>1. i \in 1 .. AdfLen + 14 /\ pos = SlaveLen + i
        BY <1>3, Firsts
  <2>2. rf_test[SlaveLen + i].board = Master
        /\ rf_test[SlaveLen + i].access = rf_init("MASTER")[i]
        BY <2>1, RfTestParts
  <2>3. Board = b /\ Access = rf_init(Mode(b))[i] /\ Mode(b) \in Modes
        BY <1>1, <1>3, <2>1, <2>2, Firsts DEF Board, Access, Modes
  <2>4. \A t \in {pos, First(b) + 7, First(b) + 8, pos + 1} :
          t - First(Slave) \notin 2 .. InitLen(Mode(Slave))
        BY <1>3, <2>1, Firsts
  <2>5. \A t \in {pos, pos + 1} : t \in 1 .. InitsLen + 8
        BY <2>1, Firsts
  <2>. QED BY <1>3, <2>3, <2>4, <2>5, Firsts
<1>. QED BY <1>2, <1>3, Firsts

LEMMA TestPositions ==
  ASSUME Here, prog = "rf_test"
  PROVE  \/ \E b \in Boards : \E i \in 1 .. InitLen(Mode(b)) : pos = First(b) + i
         \/ pos \in InitsLen + 1 .. InitsLen + 8 /\ Access = Reads
<1>1. Code[prog] = rf_test
      BY DEF Code, Programs
<1>2. pos \in 1 .. InitsLen + 8
      BY <1>1, RfTestParts DEF Here
<1>3. CASE pos \in 1 .. SlaveLen
  <2>1. Slave \in Boards /\ pos \in 1 .. InitLen(Mode(Slave)) /\ pos = First(Slave) + pos
        BY <1>2, <1>3, Firsts
  <2>. QED BY <2>1
<1>4. ASSUME NEW j \in 1 .. AdfLen + 14, pos = SlaveLen + j
      PROVE  \E b \in Boards : \E i \in 1 .. InitLen(Mode(b)) : pos = First(b) + i
  <2>1. Master \in Boards /\ j \in 1 .. InitLen(Mode(Master)) /\ pos = First(Master) + j
        BY <1>4, Firsts
  <2>. QED BY <2>1
<1>5. ASSUME NEW j \in 1 .. 8, pos = InitsLen + j
      PROVE  pos \in InitsLen + 1 .. InitsLen + 8 /\ Access = Reads
  <2>1. rf_test[InitsLen + j].access = Reads
        BY RfTestParts
  <2>2. InitsLen \in Nat
        BY Firsts
  <2>. QED BY <1>1, <1>5, <2>1, <2>2 DEF Access
<1>. QED BY <1>2, <1>3, <1>4, <1>5, RfTestRanges

LEMMA TestGoes ==
  ASSUME prog = "rf_test", NEW t \in 1 .. InitsLen + 8, Goto(t)
  PROVE  prog' = prog /\ pos' = t
<1>1. Len(rf_test) = InitsLen + 8 /\ Code[prog] = rf_test /\ InitsLen \in Nat
      BY RfTestParts, Firsts DEF Code, Programs
<1>2. After(t) = t
      BY <1>1 DEF After
<1>. QED BY <1>1, <1>2 DEF Goto

(* The reads go on for ever. *)
LEMMA ReadsGo ==
  ASSUME Here, prog = "rf_test", Step, pos \in InitsLen + 1 .. InitsLen + 8,
         Access = Reads
  PROVE  /\ boards' = boards
         /\ \A b \in Boards : ~Inits(b) /\ ~(pos' - First(b) \in 2 .. InitLen(Mode(b)))
<1>1. ReadReg
  <2>1. Access.op = "read"
        BY DEF Reads
  <2>. QED BY <2>1 DEF Step, SetPin, WriteReg, HaltCpu, NoFirmware, ReleaseCpu,
                       CheckId, CheckLock
<1>2. boards' = boards /\ Goto(pos + 1)
      BY <1>1 DEF ReadReg
<1>3. InitsLen \in Nat
      BY Firsts
<1>4. pos' \in InitsLen + 1 .. InitsLen + 8
  <2>1. CASE pos + 1 \in 1 .. InitsLen + 8
    <3>1. PICK t : t = pos + 1 /\ Goto(t)
          BY <1>2
    <3>2. pos' = t
          BY <2>1, <3>1, TestGoes
    <3>. QED BY <1>3, <2>1, <3>1, <3>2
  <2>2. CASE pos = InitsLen + 8
    <3>1. /\ Len(rf_test) = InitsLen + 8 /\ Code[prog] = rf_test
          /\ Len(RfTestInits) = InitsLen
          BY RfTestParts DEF Code, Programs
    <3>2. After(pos + 1) = InitsLen + 1
          BY <1>3, <2>2, <3>1 DEF After
    <3>3. pos' = InitsLen + 1
          BY <1>2, <1>3, <3>1, <3>2 DEF Goto
    <3>. QED BY <1>3, <3>3
  <2>. QED BY <1>3, <2>1, <2>2
<1>5. ASSUME NEW b \in Boards, NEW t \in InitsLen + 1 .. InitsLen + 8
      PROVE  ~(t - First(b) \in 2 .. InitLen(Mode(b)))
  <2>1. CASE b = Slave
        BY <2>1, Firsts
  <2>2. CASE b = Master
        BY <2>2, Firsts
  <2>. QED BY <2>1, <2>2, Firsts
<1>. QED BY <1>2, <1>4, <1>5 DEF Inits

(* Where the step goes, and what the board has there. *)
ThereAt(b, p) ==
  IF p \in 2 .. InitLen(Mode(b)) THEN ModeAt(boards'[b], Mode(b), p)
  ELSE MayBeOn(boards'[b])

LEMMA InitModeStep ==
  ASSUME TypeOK, AdfInv, ModeInv, Step, build = {"rf_test"}, prog = "rf_test",
         NEW b \in Boards, NEW i \in 1 .. InitLen(Mode(b)), pos = First(b) + i
  PROVE  /\ prog' = prog /\ pos' \in {First(b) + 7, First(b) + 8, pos + 1}
         /\ ThereAt(b, pos' - First(b))
<1>1. Here /\ BoardsOK /\ Running
      BY TypeHere, StepIsRunning
<1>2. /\ Board = b /\ Access = rf_init(Mode(b))[i] /\ Mode(b) \in Modes
      /\ pos + 1 \in 1 .. InitsLen + 8
      BY <1>1, InitPosition
<1>3. PICK mode, n, f : mode = Mode(b) /\ n = InitLen(Mode(b)) /\ f = First(b)
      OBVIOUS
<1>4. /\ mode \in Modes /\ n = InitLen(mode) /\ i \in 1 .. InitLen(mode)
      /\ n \in Nat /\ n > 14 /\ f \in Nat /\ pos = f + i
  <2>1. First(b) \in Nat
        BY Firsts
  <2>. QED BY <1>2, <1>3, <2>1, InitLens
<1>5. PICK a, old, r : a = Access /\ old = boards[b] /\ r = boards'[b]
      OBVIOUS
<1>6. a = rf_init(mode)[i]
      BY <1>2, <1>3, <1>5
<1>7. i > 1 => ModeAt(old, mode, i)
  <2>1. pos - First(b) = i
        BY <1>3, <1>4
  <2>2. i > 1 => Inits(b)
        BY <1>3, <1>4, <2>1 DEF Inits
  <2>. QED BY <1>3, <1>5, <2>1, <2>2 DEF ModeInv
<1>8. BoardOK(old)
      BY <1>1, <1>5 DEF BoardsOK
<1>9. ASSUME NEW t \in {pos + 1, f + 8}, Goto(t)
      PROVE  prog' = prog /\ pos' = t
  <2>1. t \in 1 .. InitsLen + 8
    <3>1. f + 8 \in 1 .. InitsLen + 8
      <4>1. f \in {0, SlaveLen}
            BY <1>3 DEF First
      <4>. QED BY <4>1, Firsts
    <3>. QED BY <1>2, <3>1
  <2>. QED BY <1>9, <2>1, TestGoes
<1>10. ASSUME prog' = prog, pos' = pos + 1, i < n, ModeAt(r, mode, i + 1)
       PROVE  /\ prog' = prog /\ pos' \in {First(b) + 7, First(b) + 8, pos + 1}
              /\ ThereAt(b, pos' - First(b))
  <2>1. pos' - First(b) = i + 1 /\ i + 1 \in 2 .. InitLen(Mode(b))
        BY <1>3, <1>4, <1>10
  <2>. QED BY <1>3, <1>5, <1>10, <2>1 DEF ThereAt
<1>11. CASE SetPin
  <2>1. a.op = "set" /\ Goto(pos + 1)
        BY <1>5, <1>11 DEF SetPin
  <2>2. prog' = prog /\ pos' = pos + 1
        BY <1>9, <2>1
  <2>3. PICK sdio \in {0, 1} : PinSet(sdio)
        BY <1>1, <1>11, SetPinDoes
  <2>4. DrivenTo(r, old, SetTo(old, a.pin, a.value), sdio)
        BY <1>2, <1>5, <2>3 DEF PinSet
  <2>5. a.chip = "adf" /\ a.at > 1 => AdfAt(old, a.word, a.at)
        BY <1>1, <1>2, <1>5, <2>1 DEF AdfInv, Talks
  <2>6. i < InitLen(mode) /\ ModeAt(r, mode, i + 1)
        BY <1>4, <1>6, <1>7, <1>8, <2>1, <2>4, <2>5, SetModeStep
  <2>. QED BY <1>4, <1>10, <2>2, <2>6
<1>12. CASE WriteReg
  <2>1. a.op = "write" /\ Goto(pos + 1)
        BY <1>5, <1>12 DEF WriteReg
  <2>2. prog' = prog /\ pos' = pos + 1
        BY <1>9, <2>1
  <2>3. WrittenTo(r, old, a.reg, a.value)
        BY <1>1, <1>2, <1>5, <1>12, WriteRegDoes
  <2>4. Writing(a, mode, i)
        BY <1>4, <1>6, <2>1, InitWriting
  <2>5. IF i = InitLen(mode) THEN r.regs["CR"] = mode /\ Configured(r, mode)
        ELSE ModeAt(r, mode, i + 1)
        BY <1>4, <1>7, <1>8, <2>3, <2>4, WriteModeStep
  <2>6. CASE i = n
    <3>1. MayBeOn(r)
          BY <1>4, <2>5, <2>6 DEF MayBeOn
    <3>2. pos' - First(b) \notin 2 .. InitLen(Mode(b))
          BY <1>3, <1>4, <2>2, <2>6
    <3>. QED BY <1>5, <2>2, <3>1, <3>2 DEF ThereAt
  <2>7. CASE i # n
    <3>1. i < n
          BY <1>4, <2>7
    <3>. QED BY <1>4, <1>10, <2>2, <2>5, <2>7, <3>1
  <2>. QED BY <2>6, <2>7
<1>13. CASE HaltCpu \/ NoFirmware \/ ReleaseCpu
  <2>1. /\ CpuTo(r, old, r.cpu) /\ a.op = IF ReleaseCpu THEN "release" ELSE "halt"
        /\ NoFirmware \/ ReleaseCpu => r.cpu # "stopped"
        BY <1>1, <1>2, <1>5, <1>13, CpuDoes
  <2>2. i = IF a.op = "halt" THEN 6 ELSE 7
        BY <1>4, <1>6, <2>1, InitCpu
  <2>3. ModeAt(old, mode, i) /\ i \in {6, 7}
        BY <1>7, <2>2
  <2>4. CASE NoFirmware
    <3>1. Goto(pos + 2) /\ a.op = "halt"
          BY <1>5, <2>4 DEF NoFirmware
    <3>2. i = 6 /\ r.cpu # "stopped"
          BY <2>1, <2>2, <2>4, <3>1
    <3>3. prog' = prog /\ pos' = f + 8
      <4>1. PICK t : t = f + 8 /\ Goto(t)
        <5>1. pos + 2 = f + 8
              BY <1>4, <3>2
        <5>. QED BY <3>1, <5>1
      <4>. QED BY <1>9, <4>1
    <3>4. ModeAt(r, mode, 8)
      <4>1. 8 \in {7, 8} /\ i \in {6, 7}
            BY <2>3
      <4>. QED BY <1>4, <2>1, <2>3, <3>2, <4>1, CpuModeStep
    <3>5. pos' - First(b) = 8 /\ 8 \in 2 .. InitLen(Mode(b))
          BY <1>3, <1>4, <3>3
    <3>. QED BY <1>3, <1>5, <3>3, <3>4, <3>5 DEF ThereAt
  <2>5. CASE HaltCpu
    <3>1. Goto(pos + 1) /\ a.op = "halt"
          BY <1>5, <2>5 DEF HaltCpu
    <3>2. i = 6 /\ i + 1 = 7 /\ i < n
          BY <1>4, <2>2, <3>1
    <3>3. ModeAt(r, mode, i + 1)
      <4>1. 7 \in {7, 8} /\ 7 # 8
            OBVIOUS
      <4>2. ModeAt(r, mode, 7)
            BY <1>4, <2>1, <2>3, <4>1, CpuModeStep
      <4>. QED BY <3>2, <4>2
    <3>. QED BY <1>9, <1>10, <3>1, <3>2, <3>3
  <2>6. CASE ReleaseCpu
    <3>1. Goto(pos + 1) /\ a.op = "release"
          BY <1>5, <2>6 DEF ReleaseCpu
    <3>2. i = 7 /\ i + 1 = 8 /\ i < n /\ r.cpu # "stopped"
          BY <1>4, <2>1, <2>2, <2>6, <3>1
    <3>3. ModeAt(r, mode, i + 1)
      <4>1. 8 \in {7, 8}
            OBVIOUS
      <4>2. ModeAt(r, mode, 8)
            BY <1>4, <2>1, <2>3, <3>2, <4>1, CpuModeStep
      <4>. QED BY <3>2, <4>2
    <3>. QED BY <1>9, <1>10, <3>1, <3>2, <3>3
  <2>. QED BY <1>13, <2>4, <2>5, <2>6
<1>14. CASE ReadReg \/ CheckId \/ CheckLock
  <2>1. Access.op \in {"read", "skip", "poll"}
        BY <1>14, OthersDo
  <2>2. a \in InitAccesses
    <3>1. PICK q : q = rf_init(mode)
          OBVIOUS
    <3>2. q \in Seq(InitAccesses) /\ Len(q) = InitLen(mode)
          BY <1>4, <3>1, RfInit DEF Chains
    <3>. QED BY <1>4, <1>6, <3>1, <3>2
  <2>3. \A x \in InitAccesses : x.op \in {"set", "write", "halt", "release"}
    <3>1. \A x \in AdfAccesses : x.op = "set"
          BY AdfAccess
    <3>. QED BY <3>1 DEF InitAccesses, Writes, Write, Set, Halt, Release
  <2>. QED BY <1>5, <2>1, <2>2, <2>3
<1>. QED BY <1>11, <1>12, <1>13, <1>14 DEF Step

LEMMA InitMode == Init => ModeInv
<1>1. ASSUME Init, NEW b \in Boards PROVE ~Inits(b) /\ MayBeOn(boards[b])
  <2>1. boards[b] = PowerUp /\ prog = "none"
        BY <1>1 DEF Init
  <2>2. PowerUp.regs["CR"] = "0"
        BY DEF PowerUp, Registers
  <2>. QED BY <2>1, <2>2 DEF Inits, MayBeOn, Modes
<1>. QED BY <1>1 DEF ModeInv

LEMMA NextMode == TypeOK /\ AdfInv /\ ModeInv /\ [Next]_vars => ModeInv'
<1>1. SUFFICES ASSUME TypeOK, AdfInv, ModeInv, [Next]_vars, build' = {"rf_test"},
                      NEW b \in Boards
               PROVE  IF prog' = "rf_test" /\ pos' - First(b) \in 2 .. InitLen(Mode(b))
                      THEN ModeAt(boards'[b], Mode(b), pos' - First(b))
                      ELSE MayBeOn(boards'[b])
      BY DEF ModeInv, Inits
<1>2. build = {"rf_test"}
  <2>1. Step => build' = build
        BY <1>1, TypeHere, StepIsRunning, StepAdvances
  <2>. QED BY <1>1, <2>1 DEF Next, Start, Kill, vars
<1>3. IF Inits(b) THEN ModeAt(boards[b], Mode(b), pos - First(b)) ELSE MayBeOn(boards[b])
      BY <1>1, <1>2 DEF ModeInv
<1>4. CASE Step
  <2>1. Here /\ BoardsOK /\ Running
        BY <1>1, <1>4, TypeHere, StepIsRunning
  <2>2. prog = "rf_test"
        BY <1>1, <1>2, <2>1 DEF TypeOK, Running
  <2>3. CASE pos \in InitsLen + 1 .. InitsLen + 8 /\ Access = Reads
    <3>1. /\ boards' = boards
          /\ \A d \in Boards : ~Inits(d) /\ ~(pos' - First(d) \in 2 .. InitLen(Mode(d)))
          BY <1>4, <2>1, <2>2, <2>3, ReadsGo
    <3>. QED BY <1>3, <3>1
  <2>4. ASSUME NEW d \in Boards, NEW i \in 1 .. InitLen(Mode(d)), pos = First(d) + i
        PROVE  IF prog' = "rf_test" /\ pos' - First(b) \in 2 .. InitLen(Mode(b))
               THEN ModeAt(boards'[b], Mode(b), pos' - First(b))
               ELSE MayBeOn(boards'[b])
    <3>1. /\ prog' = prog /\ pos' \in {First(d) + 7, First(d) + 8, pos + 1}
          /\ ThereAt(d, pos' - First(d))
          BY <1>1, <1>2, <1>4, <2>2, <2>4, InitModeStep
    <3>2. CASE b = d
          BY <2>2, <3>1, <3>2 DEF ThereAt
    <3>3. CASE b # d
      <4>1. /\ Board = d
            /\ \A t \in {pos, First(d) + 7, First(d) + 8, pos + 1} :
                 t - First(b) \notin 2 .. InitLen(Mode(b))
            BY <2>1, <2>2, <2>4, <3>3, InitPosition
      <4>2. ~Inits(b) /\ pos' - First(b) \notin 2 .. InitLen(Mode(b))
            BY <3>1, <4>1 DEF Inits
      <4>3. boards'[b] = boards[b]
            BY <1>4, <2>1, <3>3, <4>1, OtherBoard
      <4>. QED BY <1>3, <4>2, <4>3
    <3>. QED BY <3>2, <3>3
  <2>. QED BY <2>1, <2>2, <2>3, <2>4, TestPositions
<1>5. CASE Start
  <2>1. boards' = boards /\ pos' = 1 /\ ~Inits(b)
        BY <1>5 DEF Start, Inits, Running
  <2>2. pos' - First(b) \notin 2 .. InitLen(Mode(b))
    <3>1. First(b) \in Nat
          BY Firsts
    <3>. QED BY <2>1, <3>1
  <2>. QED BY <1>3, <2>1, <2>2
<1>6. CASE Kill
  <2>1. PICK left : left = {x \in SpiChips : Listens(x, boards[b].pins)}
        OBVIOUS
  <2>2. /\ left \in SUBSET SpiChips /\ boards'[b] = [boards[b] EXCEPT !.left = left]
        /\ prog' = "none"
        BY <1>6, <2>1, KillDoes
  <2>3. BoardOK(boards[b])
        BY <1>1 DEF TypeOK
  <2>4. LeftTo(boards'[b], boards[b], left)
        BY <2>2, <2>3, LeftChanges
  <2>5. MayBeOn(boards[b])
    <3>1. CASE Inits(b)
      <4>1. pos - First(b) > 1
            BY <3>1 DEF Inits
      <4>2. boards[b].regs["CR"] = "0"
            BY <1>3, <3>1, <4>1 DEF ModeAt
      <4>. QED BY <4>2 DEF MayBeOn, Modes
    <3>. QED BY <1>3, <3>1
  <2>6. MayBeOn(boards'[b])
        BY <2>4, <2>5 DEF LeftTo, MayBeOn, Configured
  <2>. QED BY <2>2, <2>6
<1>7. CASE UNCHANGED vars
      BY <1>3, <1>7 DEF vars, Inits
<1>. QED BY <1>1, <1>4, <1>5, <1>6, <1>7 DEF Next

LEMMA ModeIsConfigured == ModeInv => ModeMeansConfigured
<1>1. ASSUME ModeInv, build = {"rf_test"}, NEW b \in Boards,
             boards[b].regs["CR"] \in {"SLAVE", "MASTER"}
      PROVE  Configured(boards[b], boards[b].regs["CR"])
  <2>1. IF Inits(b) THEN ModeAt(boards[b], Mode(b), pos - First(b)) ELSE MayBeOn(boards[b])
        BY <1>1 DEF ModeInv
  <2>2. ~Inits(b)
    <3>1. Inits(b) => pos - First(b) > 1
          BY DEF Inits
    <3>. QED BY <1>1, <2>1, <3>1 DEF ModeAt
  <2>. QED BY <1>1, <2>1, <2>2 DEF MayBeOn, Modes
<1>. QED BY <1>1 DEF ModeMeansConfigured

(* A board that is in a mode has all its settings, wherever rf-test is     *)
(* killed and started again, for every list of words (rf-lib.c:354-397).   *)
THEOREM ModeConfigured == Spec => []ModeMeansConfigured
<1>. QED BY InitType, NextType, InitAdf, NextAdf, InitMode, NextMode, ModeIsConfigured, PTL
         DEF Spec
=============================================================================
