----------------------- MODULE DroppingBufferProofs -----------------------
(***************************************************************************)
(* Theorems about DroppingBuffer for every buffer size and every set of    *)
(* words.  The invariant is TypeOK /\ RingOrder: without the ring order    *)
(* the slots between rd_ptr and wr_ptr are not a queue, and accepting      *)
(* would not extend what the reader sees.                                  *)
(***************************************************************************)
EXTENDS DroppingBuffer, SequenceTheorems, TLAPS

(* The arithmetic of the pointers stays in the ring, and a step of one     *)
(* moves the distance to a fixed pointer by one.                           *)
LEMMA IncInRing ==
  ASSUME NEW p \in Index
  PROVE  Inc(p) \in Index
BY SizeAssumption DEF Index, Inc

LEMMA DistInRing ==
  ASSUME NEW p \in Index, NEW q \in Index
  PROVE  /\ Dist(p, q) \in 0 .. Size - 1
         /\ Dist(p, q) = 0 <=> p = q
BY SizeAssumption DEF Index, Dist

LEMMA DistStep ==
  ASSUME NEW p \in Index, NEW q \in Index
  PROVE  /\ Inc(q) # p => Dist(p, Inc(q)) = Dist(p, q) + 1
         /\ p # q => Dist(Inc(p), q) = Dist(p, q) - 1
BY SizeAssumption DEF Index, Dist, Inc

-----------------------------------------------------------------------------
(* Every signal keeps its type, whatever the inputs of the cycle are. *)
LEMMA ResetKeepsTypes ==
  ASSUME TypeOK, NEW req \in BOOLEAN, NEW valid \in BOOLEAN, NEW d \in Data,
         Reset(req, valid, d)
  PROVE  TypeOK'
BY SizeAssumption DEF TypeOK, Reset, MemRead, MemWrite, Reads, Index

LEMMA ClockKeepsTypes ==
  ASSUME TypeOK, NEW req \in BOOLEAN, NEW valid \in BOOLEAN, NEW d \in Data,
         NEW accept \in BOOLEAN, NEW drop \in BOOLEAN,
         Clock(req, valid, d, accept, drop)
  PROVE  TypeOK'
<1> USE DEF TypeOK
<1>1. wr_ptr' \in Index /\ rd_ptr' \in Index /\ boundary' \in Index
  BY IncInRing DEF Clock, Counters
<1>2. empty_reg' \in BOOLEAN
  BY DEF Clock, EmptyReg, empty_comb
<1>3. mem' \in [Index -> Data]
  BY DEF Clock, MemWrite
<1>4. d_o' \in Data /\ d_valid_o' \in BOOLEAN
  BY DEF Clock, MemRead, Reads, empty_comb
<1>5. QED BY <1>1, <1>2, <1>3, <1>4

THEOREM TypeCorrect == Spec => []TypeOK
<1>1. Init => TypeOK
  <2> SUFFICES ASSUME Init PROVE TypeOK
    OBVIOUS
  <2>1. 0 \in Index
    BY SizeAssumption DEF Index
  <2>2. QED BY <2>1 DEF Init, TypeOK
<1>2. TypeOK /\ [Next]_vars => TypeOK'
  <2> SUFFICES ASSUME TypeOK, [Next]_vars PROVE TypeOK'
    OBVIOUS
  <2>1. CASE UNCHANGED vars
    BY <2>1 DEF vars, TypeOK
  <2>2. QED BY <2>1, ResetKeepsTypes, ClockKeepsTypes DEF Next, ResetEdge, ClockEdge
<1>3. QED BY <1>1, <1>2, PTL DEF Spec

(* The moves of one pointer that keep the ring order. *)
LEMMA OrderKeepingMoves ==
  ASSUME NEW r \in Index, NEW b \in Index, NEW w \in Index, InOrder(r, b, w)
  PROVE  /\ InOrder(r, b, b)
         /\ InOrder(r, w, w)
         /\ r # b => r # w
         /\ r # b => InOrder(Inc(r), b, w)
         /\ Inc(w) # r => InOrder(r, b, Inc(w)) /\ InOrder(r, w, Inc(w))
         /\ Inc(w) # r => Inc(w) # b /\ Dist(r, w) + 1 <= Size - 1
<1> USE SizeAssumption DEF Index, InOrder, Dist
<1>1. InOrder(r, b, b) /\ InOrder(r, w, w) /\ (r # b => r # w)
  OBVIOUS
<1>2. r # b => InOrder(Inc(r), b, w)
  BY DEF Inc
<1>3. Inc(w) # r => InOrder(r, b, Inc(w))
  BY DEF Inc
<1>4. Inc(w) # r => InOrder(r, w, Inc(w))
  BY DEF Inc
<1>5. Inc(w) # r => Inc(w) # b /\ Dist(r, w) + 1 <= Size - 1
  BY DEF Inc
<1>6. QED BY <1>1, <1>2, <1>3, <1>4, <1>5

(* One clock cycle under the writer's protocol keeps the ring order: the   *)
(* writer moves first, then the reader.                                    *)
LEMMA ClockKeepsRingOrder ==
  ASSUME TypeOK, RingOrder,
         NEW req \in BOOLEAN, NEW valid \in BOOLEAN, NEW d \in Data,
         NEW accept \in BOOLEAN, NEW drop \in BOOLEAN,
         NeverBoth(accept, drop), Clock(req, valid, d, accept, drop)
  PROVE  RingOrder'
<1>1. /\ drop => wr_ptr' = boundary
      /\ ~drop => wr_ptr' = wr_ptr
                  \/ (wr_ptr' = Inc(wr_ptr) /\ Inc(wr_ptr) # rd_ptr)
      /\ accept => ~drop /\ boundary' = wr_ptr
      /\ ~accept => boundary' = boundary
  BY Zenon DEF Clock, Counters, NeverBoth, full
<1>2. rd_ptr' = rd_ptr \/ (rd_ptr' = Inc(rd_ptr) /\ rd_ptr # boundary)
  BY Zenon DEF Clock, Counters, Reads, empty_comb
<1>3. InOrder(rd_ptr, boundary, wr_ptr)
  BY DEF RingOrder
<1>4. /\ wr_ptr \in Index /\ rd_ptr \in Index /\ boundary \in Index
      /\ wr_ptr' \in Index /\ boundary' \in Index
  BY <1>1, IncInRing DEF TypeOK
<1>5. InOrder(rd_ptr, boundary', wr_ptr')
  BY <1>1, <1>3, <1>4, OrderKeepingMoves
<1>6. rd_ptr # boundary => rd_ptr # boundary'
  BY <1>1, <1>3, <1>4, OrderKeepingMoves
<1>7. InOrder(rd_ptr', boundary', wr_ptr')
  BY <1>2, <1>4, <1>5, <1>6, OrderKeepingMoves
<1>8. QED BY <1>7 DEF RingOrder

LEMMA ResetKeepsRingOrder ==
  ASSUME NEW req, NEW valid, NEW d, Reset(req, valid, d)
  PROVE  RingOrder'
BY DEF Reset, RingOrder, InOrder, Dist

(* rd_ptr, boundary and wr_ptr are always met in this order: the reader    *)
(* stops at the last accepted word and the writer stops behind the reader. *)
THEOREM RingOrderHolds == Spec => []RingOrder
<1>1. Init => RingOrder
  BY DEF Init, RingOrder, InOrder, Dist
<1>2. TypeOK /\ RingOrder /\ [Next]_vars => RingOrder'
  <2> SUFFICES ASSUME TypeOK, RingOrder, [Next]_vars PROVE RingOrder'
    OBVIOUS
  <2>1. CASE ResetEdge
    BY <2>1, ResetKeepsRingOrder DEF ResetEdge
  <2>2. ASSUME NEW req \in BOOLEAN, ClockEdge(req)
        PROVE  RingOrder'
    BY <2>2, ClockKeepsRingOrder DEF ClockEdge
  <2>3. CASE UNCHANGED vars
    BY <2>3 DEF vars, RingOrder
  <2>4. QED BY <2>1, <2>2, <2>3 DEF Next
<1>3. QED BY <1>1, <1>2, TypeCorrect, PTL DEF Spec

-----------------------------------------------------------------------------
(* The ring read as sequences: what each move of a pointer, and each write *)
(* of a slot, does to the words between two pointers.                      *)
LEMMA SlotsAreWords ==
  ASSUME NEW m \in [Index -> Data], NEW p \in Index, NEW q \in Index
  PROVE  /\ Slots(m, p, q) \in Seq(Data)
         /\ Len(Slots(m, p, q)) = Dist(p, q)
         /\ \A i \in 1 .. Dist(p, q) : Slots(m, p, q)[i] = m[Plus(p, i - 1)]
<1>1. Dist(p, q) \in 0 .. Size - 1 /\ Size \in Nat
  BY DistInRing, SizeAssumption
<1>2. \A i \in 1 .. Dist(p, q) : Plus(p, i - 1) \in Index
  BY <1>1 DEF Plus, Index
<1>3. Slots(m, p, q) \in [1 .. Dist(p, q) -> Data]
  BY <1>2 DEF Slots
<1>4. Slots(m, p, q) \in Seq(Data) /\ Len(Slots(m, p, q)) = Dist(p, q)
  BY <1>1, <1>3
<1>5. QED BY <1>4 DEF Slots

LEMMA SlotsOfEmpty ==
  ASSUME NEW m \in [Index -> Data], NEW p \in Index
  PROVE  Slots(m, p, p) = <<>>
BY SlotsAreWords, DistInRing, EmptySeq

(* Reading moves the first word out. *)
LEMMA SlotsAfterRead ==
  ASSUME NEW m \in [Index -> Data], NEW p \in Index, NEW q \in Index, p # q
  PROVE  /\ Slots(m, p, q) # <<>>
         /\ Head(Slots(m, p, q)) = m[p]
         /\ Tail(Slots(m, p, q)) = Slots(m, Inc(p), q)
<1> DEFINE s == Slots(m, p, q)
           t == Slots(m, Inc(p), q)
<1>1. /\ s \in Seq(Data) /\ Len(s) = Dist(p, q)
      /\ \A i \in 1 .. Dist(p, q) : s[i] = m[Plus(p, i - 1)]
  BY SlotsAreWords
<1>2. /\ t \in Seq(Data) /\ Len(t) = Dist(Inc(p), q)
      /\ \A i \in 1 .. Dist(Inc(p), q) : t[i] = m[Plus(Inc(p), i - 1)]
  BY SlotsAreWords, IncInRing
<1>3. /\ Dist(p, q) \in 1 .. Size - 1
      /\ Dist(Inc(p), q) = Dist(p, q) - 1
  BY DistInRing, DistStep, SizeAssumption
<1>4. s # <<>> /\ Head(s) = m[p]
  <2>1. Plus(p, 0) = p
    BY SizeAssumption DEF Plus, Index
  <2>2. s[1] = m[Plus(p, 0)]
    BY <1>1, <1>3
  <2>3. QED BY <1>1, <1>3, <2>1, <2>2
<1>5. Tail(s) \in Seq(Data) /\ Len(Tail(s)) = Len(t)
  BY <1>1, <1>2, <1>3, <1>4, HeadTailProperties
<1>6. \A i \in 1 .. Len(Tail(s)) : Tail(s)[i] = t[i]
  <2> SUFFICES ASSUME NEW i \in 1 .. Dist(Inc(p), q)
               PROVE  Tail(s)[i] = t[i]
    BY <1>2, <1>5
  <2>1. Tail(s)[i] = m[Plus(p, i)]
    <3>1. Tail(s)[i] = s[i + 1]
      BY <1>1, <1>2, <1>4, <1>5, HeadTailProperties
    <3>2. i + 1 \in 1 .. Dist(p, q) /\ (i + 1) - 1 = i
      BY <1>3
    <3>3. QED BY <3>1, <3>2, <1>1
  <2>2. Plus(p, i) = Plus(Inc(p), i - 1)
    BY <1>3, SizeAssumption DEF Plus, Inc, Index
  <2>3. QED BY <2>1, <2>2, <1>2
<1>7. Tail(s) = t
  BY <1>2, <1>5, <1>6, SeqEqual
<1>8. QED BY <1>4, <1>7

(* A word written into the free slot q is appended when q moves on. *)
LEMMA SlotsAfterWrite ==
  ASSUME NEW m \in [Index -> Data], NEW p \in Index, NEW q \in Index,
         NEW d \in Data, Inc(q) # p
  PROVE  Slots([m EXCEPT ![q] = d], p, Inc(q)) = Slots(m, p, q) \o <<d>>
<1> DEFINE n == [m EXCEPT ![q] = d]
           s == Slots(m, p, q)
           t == Slots(n, p, Inc(q))
<1>1. n \in [Index -> Data] /\ Inc(q) \in Index
  BY IncInRing
<1>2. /\ s \in Seq(Data) /\ Len(s) = Dist(p, q)
      /\ \A i \in 1 .. Dist(p, q) : s[i] = m[Plus(p, i - 1)]
  BY SlotsAreWords
<1>3. /\ t \in Seq(Data) /\ Len(t) = Dist(p, Inc(q))
      /\ \A i \in 1 .. Dist(p, Inc(q)) : t[i] = n[Plus(p, i - 1)]
  <2> HIDE DEF n
  <2>. QED BY <1>1, SlotsAreWords
<1>4. /\ Dist(p, Inc(q)) = Dist(p, q) + 1
      /\ Dist(p, q) \in 0 .. Size - 1
  BY DistStep, DistInRing
<1>5. /\ s \o <<d>> \in Seq(Data)
      /\ Len(s \o <<d>>) = Len(t)
      /\ \A i \in 1 .. Len(t) :
           (s \o <<d>>)[i] = IF i <= Len(s) THEN s[i] ELSE d
  <2> HIDE DEF s, t
  <2>1. /\ <<d>> \in Seq(Data)
        /\ Len(<<d>>) = 1
        /\ <<d>>[1] = d
    OBVIOUS
  <2>2. /\ s \o <<d>> \in Seq(Data)
        /\ Len(s \o <<d>>) = Len(s) + 1
        /\ \A i \in 1 .. Len(s) + 1 :
             (s \o <<d>>)[i] = IF i <= Len(s) THEN s[i] ELSE <<d>>[i - Len(s)]
    BY <1>2, <2>1, ConcatProperties
  <2>3. Len(t) = Len(s) + 1 /\ Len(s) \in Nat
    BY <1>2, <1>3, <1>4
  <2>4. \A i \in 1 .. Len(s) + 1 : ~(i <= Len(s)) => i - Len(s) = 1
    BY <2>3
  <2>5. QED BY <2>1, <2>2, <2>3, <2>4
<1>6. ASSUME NEW i \in 1 .. Len(t)
      PROVE  t[i] = (s \o <<d>>)[i]
  <2>1. i <= Dist(p, q) => Plus(p, i - 1) \in Index /\ Plus(p, i - 1) # q
    BY <1>3, <1>4, SizeAssumption DEF Plus, Dist, Index
  <2>2. ~(i <= Dist(p, q)) => Plus(p, i - 1) = q
    BY <1>3, <1>4, SizeAssumption DEF Plus, Dist, Index
  <2>3. t[i] = n[Plus(p, i - 1)]
    BY <1>3
  <2>4. CASE i <= Dist(p, q)
    <3>1. t[i] = m[Plus(p, i - 1)]
      BY <2>1, <2>3, <2>4
    <3>2. i \in 1 .. Dist(p, q)
      BY <2>4, <1>3, <1>4
    <3>3. QED BY <3>1, <3>2, <1>2, <1>5
  <2>5. CASE ~(i <= Dist(p, q))
    <3>1. t[i] = d
      BY <2>2, <2>3, <2>5
    <3>2. ~(i <= Len(s))
      BY <2>5, <1>2, <1>3, <1>4
    <3>3. QED BY <3>1, <3>2, <1>5
  <2>6. QED BY <2>4, <2>5
<1>7. QED BY <1>3, <1>5, <1>6, SeqEqual

(* A word written outside the slots between two pointers leaves them. *)
LEMMA SlotsElsewhere ==
  ASSUME NEW m \in [Index -> Data], NEW p \in Index, NEW q \in Index,
         NEW w \in Index, NEW d \in Data, InOrder(p, q, w)
  PROVE  Slots([m EXCEPT ![w] = d], p, q) = Slots(m, p, q)
<1> DEFINE n == [m EXCEPT ![w] = d]
<1>1. \A i \in 1 .. Dist(p, q) :
        Plus(p, i - 1) \in Index /\ Plus(p, i - 1) # w
  BY SizeAssumption DEF InOrder, Plus, Dist, Index
<1>2. \A i \in 1 .. Dist(p, q) : n[Plus(p, i - 1)] = m[Plus(p, i - 1)]
  BY <1>1
<1>3. QED BY <1>2 DEF Slots

(* Two stretches that meet at the boundary are one. *)
LEMMA SlotsJoin ==
  ASSUME NEW m \in [Index -> Data], NEW r \in Index, NEW b \in Index,
         NEW w \in Index, InOrder(r, b, w)
  PROVE  Slots(m, r, b) \o Slots(m, b, w) = Slots(m, r, w)
<1> DEFINE s == Slots(m, r, b)
           t == Slots(m, b, w)
           u == Slots(m, r, w)
<1>1. /\ s \in Seq(Data) /\ Len(s) = Dist(r, b)
      /\ \A i \in 1 .. Dist(r, b) : s[i] = m[Plus(r, i - 1)]
  BY SlotsAreWords
<1>2. /\ t \in Seq(Data) /\ Len(t) = Dist(b, w)
      /\ \A i \in 1 .. Dist(b, w) : t[i] = m[Plus(b, i - 1)]
  BY SlotsAreWords
<1>3. /\ u \in Seq(Data) /\ Len(u) = Dist(r, w)
      /\ \A i \in 1 .. Dist(r, w) : u[i] = m[Plus(r, i - 1)]
  BY SlotsAreWords
<1>4. /\ Dist(r, w) = Dist(r, b) + Dist(b, w)
      /\ Dist(r, b) \in Nat /\ Dist(b, w) \in Nat
  BY DistInRing DEF InOrder
<1>5. /\ s \o t \in Seq(Data)
      /\ Len(s \o t) = Len(u)
      /\ \A i \in 1 .. Len(u) :
           (s \o t)[i] = IF i <= Len(s) THEN s[i] ELSE t[i - Len(s)]
  <2> HIDE DEF s, t, u
  <2>1. Len(u) = Len(s) + Len(t)
    BY <1>1, <1>2, <1>3, <1>4
  <2>2. QED BY <2>1, <1>1, <1>2, ConcatProperties
<1>6. ASSUME NEW i \in 1 .. Len(u)
      PROVE  (s \o t)[i] = u[i]
  <2>1. CASE i <= Dist(r, b)
    <3>1. i \in 1 .. Dist(r, b) /\ i \in 1 .. Dist(r, w) /\ i <= Len(s)
      BY <2>1, <1>1, <1>3, <1>4
    <3>2. QED BY <3>1, <1>1, <1>3, <1>5
  <2>2. CASE ~(i <= Dist(r, b))
    <3>1. i - Dist(r, b) \in 1 .. Dist(b, w)
      BY <2>2, <1>3, <1>4
    <3>2. Plus(b, (i - Dist(r, b)) - 1) = Plus(r, i - 1)
      BY <2>2, <1>3, <1>4, SizeAssumption DEF InOrder, Plus, Dist, Index
    <3>3. QED BY <2>2, <3>1, <3>2, <1>1, <1>2, <1>3, <1>5
  <2>3. QED BY <2>1, <2>2
<1>7. QED BY <1>3, <1>5, <1>6, SeqEqual

-----------------------------------------------------------------------------
(* What the reader leaves of the readable words in a cycle. *)
Left == Slots(mem, rd_ptr', boundary)

(* The read side of a cycle, reset or not, is a step of the block FIFO's   *)
(* reader.                                                                 *)
LEMMA ReadSide ==
  ASSUME TypeOK, NEW req \in BOOLEAN, MemRead(req)
  PROVE  \/ /\ Reads(req) /\ rd_ptr # boundary
            /\ Fifo!Deliver
            /\ Tail(Readable) = Slots(mem, Inc(rd_ptr), boundary)
         \/ ~Reads(req) /\ Fifo!NoDelivery
<1>1. CASE Reads(req)
  <2>1. rd_ptr # boundary
    BY <1>1 DEF Reads, empty_comb
  <2>2. d_valid_o' = TRUE /\ d_o' = mem[rd_ptr]
    BY <1>1, Zenon DEF MemRead
  <2>3. /\ mem \in [Index -> Data] /\ rd_ptr \in Index /\ boundary \in Index
    BY DEF TypeOK
  <2>4. /\ Readable # <<>> /\ Head(Readable) = mem[rd_ptr]
        /\ Tail(Readable) = Slots(mem, Inc(rd_ptr), boundary)
    BY <2>1, <2>3, SlotsAfterRead DEF Readable
  <2>5. QED BY <1>1, <2>1, <2>2, <2>4, Zenon DEF Fifo!Deliver
<1>2. CASE ~Reads(req)
  <2>1. Reads(req) = FALSE
    BY <1>2 DEF Reads
  <2>2. d_valid_o' = FALSE /\ d_o' = d_o
    BY <1>2, <2>1, Zenon DEF MemRead
  <2>3. QED BY <1>2, <2>2, Zenon DEF Fifo!NoDelivery
<1>3. QED BY <1>1, <1>2

(* The word that a cycle stores, and whether there is room for it. *)
Taken(valid, d) == IF valid /\ ~full THEN <<d>> ELSE <<>>

LEMMA FullMeansNoRoom ==
  ASSUME TypeOK, RingOrder
  PROVE  full <=> Len(Readable) + Len(Unaccepted) = Size - 1
<1>1. /\ mem \in [Index -> Data]
      /\ wr_ptr \in Index /\ rd_ptr \in Index /\ boundary \in Index
  BY DEF TypeOK
<1>2. Len(Readable) + Len(Unaccepted) = Dist(rd_ptr, wr_ptr)
  BY <1>1, SlotsAreWords DEF RingOrder, InOrder, Readable, Unaccepted
<1>3. full <=> Dist(rd_ptr, wr_ptr) = Size - 1
  BY <1>1, SizeAssumption DEF full, Inc, Dist, Index
<1>4. QED BY <1>2, <1>3

(* The write side of a cycle is a step of the block FIFO's writer: a drop, *)
(* an accept, or neither, with the word that is stored in this cycle. *)
LEMMA WriteSide ==
  ASSUME TypeOK, RingOrder,
         NEW req \in BOOLEAN, NEW valid \in BOOLEAN, NEW d \in Data,
         NEW accept \in BOOLEAN, NEW drop \in BOOLEAN,
         NeverBoth(accept, drop), Clock(req, valid, d, accept, drop)
  PROVE  /\ drop => Fifo!Drop(Left)
         /\ ~drop /\ accept => Fifo!Accept(Left, Taken(valid, d))
         /\ ~drop /\ ~accept => Fifo!Keep(Left, Taken(valid, d))
<1> DEFINE new == Taken(valid, d)
<1>1. /\ mem \in [Index -> Data]
      /\ wr_ptr \in Index /\ rd_ptr \in Index /\ boundary \in Index
  BY DEF TypeOK
<1>2. rd_ptr' = rd_ptr \/ (rd_ptr' = Inc(rd_ptr) /\ rd_ptr # boundary)
  BY Zenon DEF Clock, Counters, Reads, empty_comb
<1>3. rd_ptr' \in Index /\ InOrder(rd_ptr', boundary, wr_ptr)
  BY <1>1, <1>2, IncInRing, OrderKeepingMoves DEF RingOrder
<1>4. mem' \in {mem, [mem EXCEPT ![wr_ptr] = d]} /\ mem' \in [Index -> Data]
  BY <1>1 DEF Clock, MemWrite
<1>5. Slots(mem', rd_ptr', boundary) = Left
  BY <1>1, <1>3, <1>4, SlotsElsewhere DEF Left
<1>6. ASSUME drop PROVE Fifo!Drop(Left)
  <2>1. boundary' = boundary /\ wr_ptr' = boundary
    BY <1>6, Zenon DEF Clock, Counters, NeverBoth
  <2>2. Readable' = Left /\ Unaccepted' = <<>>
    BY <1>1, <1>4, <1>5, <2>1, SlotsOfEmpty DEF Readable, Unaccepted
  <2>3. QED BY <2>2 DEF Fifo!Drop
<1>7. ASSUME ~drop
      PROVE  /\ Slots(mem', boundary, wr_ptr') = Unaccepted \o new
             /\ Slots(mem', wr_ptr, wr_ptr') = new
  <2>1. CASE valid /\ ~full
    <3>1. wr_ptr' = Inc(wr_ptr) /\ mem' = [mem EXCEPT ![wr_ptr] = d]
      BY <1>7, <2>1, Zenon DEF Clock, Counters, MemWrite
    <3>2. Inc(wr_ptr) # boundary
      BY <2>1, <1>1, OrderKeepingMoves DEF full, RingOrder
    <3>3. Inc(wr_ptr) # wr_ptr
      BY <1>1, SizeAssumption DEF Inc, Index
    <3>4. Slots(mem', boundary, wr_ptr') = Unaccepted \o <<d>>
      BY <1>1, <3>1, <3>2, SlotsAfterWrite DEF Unaccepted
    <3>5. Slots(mem', wr_ptr, wr_ptr') = <<>> \o <<d>>
      <4>1. Slots(mem', wr_ptr, wr_ptr') = Slots(mem, wr_ptr, wr_ptr) \o <<d>>
        BY <1>1, <3>1, <3>3, SlotsAfterWrite
      <4>2. Slots(mem, wr_ptr, wr_ptr) = <<>>
        BY <1>1, SlotsOfEmpty
      <4>3. QED BY <4>1, <4>2
    <3>6. <<>> \o <<d>> = <<d>> /\ new = <<d>>
      BY <2>1 DEF Taken
    <3>7. QED BY <3>4, <3>5, <3>6
  <2>2. CASE ~(valid /\ ~full)
    <3>1. wr_ptr' = wr_ptr /\ new = <<>>
      BY <1>7, <2>2, Zenon DEF Clock, Counters, Taken
    <3>2. InOrder(boundary, wr_ptr, wr_ptr)
      BY <1>1, DistInRing, SizeAssumption DEF InOrder
    <3>3. Slots(mem', boundary, wr_ptr) = Unaccepted
      BY <1>1, <1>4, <3>2, SlotsElsewhere DEF Unaccepted
    <3>4. Unaccepted \in Seq(Data)
      BY <1>1, SlotsAreWords DEF Unaccepted
    <3>5. Unaccepted \o <<>> = Unaccepted
      BY <3>4, ConcatEmptySeq
    <3>6. Slots(mem', wr_ptr, wr_ptr) = <<>>
      BY <1>1, <1>4, SlotsOfEmpty
    <3>7. QED BY <3>1, <3>3, <3>5, <3>6
  <2>3. QED BY <2>1, <2>2
<1> HIDE DEF new
<1>8. ASSUME ~drop, accept PROVE Fifo!Accept(Left, new)
  <2>1. boundary' = wr_ptr
    BY <1>8, Zenon DEF Clock, Counters
  <2>2. InOrder(rd_ptr', wr_ptr, wr_ptr)
    BY <1>1, <1>3, OrderKeepingMoves
  <2>3. Readable' = Slots(mem, rd_ptr', wr_ptr)
    BY <1>1, <1>3, <1>4, <2>1, <2>2, SlotsElsewhere DEF Readable
  <2>4. Slots(mem, rd_ptr', wr_ptr) = Left \o Unaccepted
    BY <1>1, <1>3, SlotsJoin DEF Left, Unaccepted
  <2>5. Unaccepted' = new
    BY <1>7, <1>8, <2>1 DEF Unaccepted
  <2>6. QED BY <2>3, <2>4, <2>5 DEF Fifo!Accept
<1>9. ASSUME ~drop, ~accept PROVE Fifo!Keep(Left, new)
  <2>1. boundary' = boundary
    BY <1>9, Zenon DEF Clock, Counters
  <2>2. Readable' = Left /\ Unaccepted' = Unaccepted \o new
    BY <1>5, <1>7, <1>9, <2>1 DEF Readable, Unaccepted
  <2>3. QED BY <2>2 DEF Fifo!Keep
<1>10. QED BY <1>6, <1>8, <1>9 DEF new

(* Such a step is one of BlockFifo's: the word fits. *)
LEMMA WriteSideStep ==
  ASSUME TypeOK, RingOrder,
         NEW req \in BOOLEAN, NEW valid \in BOOLEAN, NEW d \in Data,
         NEW accept \in BOOLEAN, NEW drop \in BOOLEAN,
         NeverBoth(accept, drop), Clock(req, valid, d, accept, drop)
  PROVE  Fifo!Write(Left)
<1> DEFINE new == Taken(valid, d)
<1>1. Readable \in Seq(Data) /\ Unaccepted \in Seq(Data)
  BY SlotsAreWords DEF TypeOK, Readable, Unaccepted
<1>2. new \in Fifo!Stored /\ (new = <<>> \/ (new = <<d>> /\ ~full))
  BY DEF Fifo!Stored, Taken
<1>3. Len(Readable) + Len(Unaccepted) <= Size - 1
  <2>1. Len(Readable) + Len(Unaccepted) = Dist(rd_ptr, wr_ptr)
    BY SlotsAreWords DEF TypeOK, RingOrder, InOrder, Readable, Unaccepted
  <2>2. Dist(rd_ptr, wr_ptr) <= Size - 1
    BY DistInRing DEF TypeOK
  <2>3. QED BY <2>1, <2>2
<1>4. Len(Readable) + Len(Unaccepted) + Len(new) <= Size - 1
  <2>1. CASE new = <<>>
    BY <1>1, <1>3, <2>1, SizeAssumption
  <2>2. CASE new = <<d>> /\ ~full
    BY <1>1, <1>3, <2>2, FullMeansNoRoom, SizeAssumption
  <2>3. QED BY <1>2, <2>1, <2>2
<1> HIDE DEF new
<1>5. Fifo!Drop(Left) \/ Fifo!Keep(Left, new) \/ Fifo!Accept(Left, new)
  BY WriteSide DEF new
<1>6. QED BY <1>2, <1>4, <1>5 DEF Fifo!Write

(* The dropping buffer implements the block FIFO: every cycle, with its    *)
(* read, accept, drop, write and reset at once, is a step of BlockFifo.    *)
THEOREM BufferImplementsBlockFifo == Spec => ImplementsBlockFifo
<1>1. Init => Fifo!Init
  <2> SUFFICES ASSUME Init PROVE Fifo!Init
    OBVIOUS
  <2>1. mem \in [Index -> Data] /\ 0 \in Index
    BY SizeAssumption DEF Init, Index
  <2>2. Readable = <<>> /\ Unaccepted = <<>>
    BY <2>1, SlotsOfEmpty DEF Init, Readable, Unaccepted
  <2>3. QED BY <2>2 DEF Init, Fifo!Init
<1>2. TypeOK /\ RingOrder /\ [Next]_vars => [Fifo!Next]_(Fifo!vars)
  <2> SUFFICES ASSUME TypeOK, RingOrder, [Next]_vars
               PROVE  Fifo!Next \/ UNCHANGED Fifo!vars
    OBVIOUS
  <2>1. ASSUME NEW req \in BOOLEAN, NEW valid \in BOOLEAN, NEW d \in Data,
               Reset(req, valid, d)
        PROVE  Fifo!Next
    <3>1. mem' \in [Index -> Data] /\ 0 \in Index
      BY <2>1, SizeAssumption DEF Reset, MemWrite, TypeOK, Index
    <3>2. Readable' = <<>> /\ Unaccepted' = <<>>
      BY <2>1, <3>1, SlotsOfEmpty DEF Reset, Readable, Unaccepted
    <3>3. \A left : Fifo!Write(left)
      BY <3>2 DEF Fifo!Write, Fifo!Clear
    <3>4. Fifo!Deliver \/ Fifo!NoDelivery
      BY <2>1, ReadSide DEF Reset
    <3>5. QED BY <3>3, <3>4 DEF Fifo!Next
  <2>2. ASSUME NEW req \in BOOLEAN, NEW valid \in BOOLEAN, NEW d \in Data,
               NEW accept \in BOOLEAN, NEW drop \in BOOLEAN,
               NeverBoth(accept, drop), Clock(req, valid, d, accept, drop)
        PROVE  Fifo!Next
    <3>1. Fifo!Write(Left)
      BY <2>2, WriteSideStep
    <3>2. CASE Reads(req)
      <4>1. Left = Tail(Readable)
        BY <2>2, <3>2, ReadSide DEF Clock, Counters, Left
      <4>2. QED BY <2>2, <3>1, <3>2, <4>1, ReadSide DEF Clock, Fifo!Next
    <3>3. CASE ~Reads(req)
      <4>1. Left = Readable
        BY <2>2, <3>3 DEF Clock, Counters, Left, Readable
      <4>2. QED BY <2>2, <3>1, <3>3, <4>1, ReadSide DEF Clock, Fifo!Next
    <3>4. QED BY <3>2, <3>3
  <2>3. CASE UNCHANGED vars
    BY <2>3 DEF vars, Fifo!vars, Readable, Unaccepted
  <2>4. QED BY <2>1, <2>2, <2>3 DEF Next, ResetEdge, ClockEdge
<1>3. QED
  BY <1>1, <1>2, TypeCorrect, RingOrderHolds, PTL
  DEF Spec, Fifo!Spec, ImplementsBlockFifo
=============================================================================
