----------------------------- MODULE HostProofs -----------------------------
(***************************************************************************)
(* The computer with its cards, for any number of cards, loaders and       *)
(* files, all sizes and every order of the driver's directory:             *)
(* - a program holds the card it was asked for (an induction over the      *)
(*   directory), everything has its type, and no key is lost, repeated or  *)
(*   overtaken on its way to a processor (TypeInv);                        *)
(* - with one spec-cl at a time no processor runs a firmware that is not   *)
(*   whole, wherever programs are killed, and one that succeeds has loaded *)
(*   a card it was asked for (HostInv).  Two loaders on a card can break   *)
(*   this: nothing locks a card.                                           *)
(*                                                                         *)
(* The control loop of the main program, for every number of taps, all     *)
(* coefficients and samples: the ring of fir_process implements the        *)
(* sliding window.  For all depths of the FIFOs and all ranges: the loop   *)
(* never reads an empty FIFO or writes a full one, everything in it is in  *)
(* its range, and what it feeds its filter is always in the range the      *)
(* filter is made for, so that the filter in the loop is the sliding       *)
(* window, too.  Last, the model of the synthesizer.                       *)
(***************************************************************************)
EXTENDS Host, TestLoop, WellFoundedInduction, FiniteSetTheorems, TLAPS

(* A card and a loader have the fields that they have. *)
CardShape(c) == c = [fpga |-> c.fpga, cpu |-> c.cpu, mem |-> c.mem,
                     tdr |-> c.tdr, fifo |-> c.fifo]
LoaderShape(l) == l = [pc |-> l.pc, req |-> l.req, card |-> l.card,
                       file |-> l.file, i |-> l.i]

(* A file has words, and fits. *)
LEMMA FileFits ==
  \A f \in Files : /\ f \in Seq(STRING) /\ Len(f) \in Nat \ {0} /\ Len(f) <= MemSize
BY FilesAssumption, SizesAssumption

(* A set of numbers with 0 and the successors of its members has all. *)
LEMMA NatSetInduction ==
  ASSUME NEW S, 0 \in S, \A n \in Nat : n \in S => n + 1 \in S
  PROVE  Nat \subseteq S
<1> DEFINE T == Nat \ S
           R == {ss \in Nat \X Nat : ss[1] < ss[2]}
<1>1. SUFFICES ASSUME T # {} PROVE FALSE
      OBVIOUS
<1>0. IsWellFoundedOn(R, Nat)
      BY NatLessThanWellFounded DEF OpToRel
<1> HIDE DEF R
<1>2. PICK x \in T : \A y \in T : ~(<<y, x>> \in R)
      BY <1>1, <1>0, WFMin, Zenon
<1>3. x \in Nat /\ x # 0 /\ x - 1 \in Nat
      BY <1>2
<1>4. <<x - 1, x>> \in R
      BY <1>3 DEF R
<1>5. x - 1 \in S
      BY <1>2, <1>3, <1>4
<1>. QED BY <1>2, <1>3, <1>5

-----------------------------------------------------------------------------
(* What spec_scan knows after n names of a directory: the recursion has a  *)
(* solution. *)
Asked(req) == [bus |-> req.bus, devfn |-> req.devfn, found |-> FALSE]

LEMMA ScanEnds ==
  ASSUME NEW list, Len(list) \in Nat, NEW req
  PROVE  \E f : f = [n \in 0 .. Len(list) |->
                       IF n = 0 THEN Asked(req)
                       ELSE Visit(list[Len(list) + 1 - n], f[n - 1])]
<1> DEFINE N == Len(list)
           Known(f, n) == IF n = 0 THEN Asked(req) ELSE Visit(list[N + 1 - n], f[n - 1])
           Solves(f, k) == DOMAIN f = 0 .. k /\ f = [n \in 0 .. k |-> f[n]]
                           /\ \A n \in 0 .. k : f[n] = Known(f, n)
           P(k) == \E f : Solves(f, k)
           S == {k \in Nat : P(k)}
<1>1. P(0)
  <2> DEFINE f == [n \in 0 .. 0 |-> Asked(req)]
  <2>1. Solves(f, 0)
        OBVIOUS
  <2>. QED BY <2>1
<1>2. ASSUME NEW k \in Nat, P(k) PROVE P(k + 1)
  <2>1. PICK f : Solves(f, k)
        BY <1>2
  <2> DEFINE last == Visit(list[N + 1 - (k + 1)], f[k])
             g == [n \in 0 .. k + 1 |-> IF n = k + 1 THEN last ELSE f[n]]
  <2>4. ASSUME NEW n \in 0 .. k + 1
        PROVE  g[n] = Known(g, n)
    <3>1. CASE n = k + 1
      <4>1. g[n - 1] = f[k] /\ n - 1 = k /\ n # 0
            BY <3>1
      <4>. QED BY <3>1, <4>1
    <3>2. CASE n \in 0 .. k
      <4>1. g[n] = f[n] /\ f[n] = Known(f, n)
            BY <3>2, <2>1
      <4>2. n # 0 => g[n - 1] = f[n - 1]
            BY <3>2
      <4>. QED BY <4>1, <4>2
    <3>. QED BY <3>1, <3>2
  <2>5. Solves(g, k + 1)
        BY <2>4
  <2>. QED BY <2>5
<1>3. P(N)
  <2> HIDE DEF P
  <2>1. 0 \in S /\ \A k \in Nat : k \in S => k + 1 \in S
        BY <1>1, <1>2
  <2> HIDE DEF S
  <2>2. Nat \subseteq S
        BY <2>1, NatSetInduction
  <2>3. N \in S
        BY <2>2
  <2>. QED BY <2>3 DEF S
<1>4. PICK f : Solves(f, N)
      BY <1>3
<1>5. f = [n \in 0 .. N |-> Known(f, n)]
      BY <1>4
<1>. QED BY <1>5

(* What stays true of it: a number that was asked for is not replaced, and *)
(* a card is found where the numbers are those of a card. *)
Knows(slot, req) ==
  /\ req.bus < 0 \/ slot.bus = req.bus
  /\ req.devfn < 0 \/ slot.devfn = req.devfn
  /\ slot.found => [bus |-> slot.bus, devfn |-> slot.devfn] \in Slots

LEMMA VisitKnows ==
  ASSUME NEW req, NEW slot, Knows(slot, req), NEW name
  PROVE  Knows(Visit(name, slot), req)
<1>1. CASE slot.found \/ name \notin Slots
      BY <1>1 DEF Visit
<1>2. CASE ~(slot.found \/ name \notin Slots)
  <2>1. name = [bus |-> name.bus, devfn |-> name.devfn]
        BY <1>2, SlotsAssumption
  <2> DEFINE bus == IF slot.bus < 0 THEN name.bus ELSE slot.bus
             devfn == IF slot.devfn < 0 THEN name.devfn ELSE slot.devfn
             found == bus = name.bus /\ devfn = name.devfn
  <2>2. Visit(name, slot) = [bus |-> bus, devfn |-> devfn, found |-> found]
        BY <1>2 DEF Visit
  <2>3. req.bus < 0 \/ bus = req.bus
        BY DEF Knows
  <2>4. req.devfn < 0 \/ devfn = req.devfn
        BY DEF Knows
  <2>5. found => [bus |-> bus, devfn |-> devfn] \in Slots
        BY <1>2, <2>1
  <2> HIDE DEF bus, devfn, found
  <2>. QED BY <2>2, <2>3, <2>4, <2>5 DEF Knows
<1>. QED BY <1>1, <1>2

LEMMA ScanKnows ==
  ASSUME NEW list, Len(list) \in Nat, NEW req
  PROVE  Knows(spec_scan(list, req), req)
<1> DEFINE N == Len(list)
           known[n \in 0 .. N] == IF n = 0 THEN Asked(req)
                                  ELSE Visit(list[N + 1 - n], known[n - 1])
           body(n) == IF n = 0 THEN Asked(req) ELSE Visit(list[N + 1 - n], known[n - 1])
<1>0. \E f : f = [n \in 0 .. N |-> IF n = 0 THEN Asked(req)
                                     ELSE Visit(list[N + 1 - n], f[n - 1])]
      BY ScanEnds
<1>1. known = [n \in 0 .. N |-> body(n)]
      BY <1>0, Zenon
<1>2. known[N] = spec_scan(list, req)
      BY DEF spec_scan, Asked
<1> HIDE DEF known
<1>3. \A n \in 0 .. N : known[n] = body(n)
  <2> HIDE DEF body
  <2>. QED BY <1>1
<1> DEFINE P(k) == k <= N => Knows(known[k], req)
           S == {k \in Nat : P(k)}
<1>4. P(0)
      BY <1>3 DEF Knows, Asked
<1>5. ASSUME NEW k \in Nat, P(k) PROVE P(k + 1)
  <2> SUFFICES ASSUME k + 1 <= N PROVE Knows(known[k + 1], req)
      OBVIOUS
  <2>1. Knows(known[k], req)
        BY <1>5
  <2>2. known[k + 1] = Visit(list[N + 1 - (k + 1)], known[k])
    <3>1. k + 1 \in 0 .. N
          OBVIOUS
    <3>2. known[k + 1] = body(k + 1)
          BY <1>3, <3>1
    <3>. QED BY <3>2
  <2>. QED BY <2>1, <2>2, VisitKnows
<1>6. P(N)
  <2> HIDE DEF P
  <2>1. 0 \in S /\ \A k \in Nat : k \in S => k + 1 \in S
        BY <1>4, <1>5
  <2> HIDE DEF S
  <2>2. Nat \subseteq S
        BY <2>1, NatSetInduction
  <2>3. N \in S
        BY <2>2
  <2>. QED BY <2>3 DEF S
<1>. QED BY <1>2, <1>6

(* A directory is a finite list. *)
LEMMA ListingsEnd == \A list \in Listings : Len(list) \in Nat
<1>1. IsFiniteSet(Slots \cup Others)
      BY SlotsAssumption, FS_Union
<1>2. Cardinality(Slots \cup Others) \in Nat
      BY <1>1, FS_CardinalityType
<1> DEFINE C == Cardinality(Slots \cup Others)
<1> HIDE DEF C
<1>3. ASSUME NEW list \in Listings PROVE list \in [1 .. C -> Slots \cup Others]
      BY DEF Listings, SetToSeqs, C
<1>. QED BY <1>2, <1>3 DEF C

(* What spec_open returns: no handle, one whose area is missing, or one    *)
(* for a card that meets the request.                                      *)
LEMMA OpenMeets ==
  ASSUME NEW req, NEW h \in spec_open(req)
  PROVE  /\ h \in Handles
         /\ h \in Slots => Meets(h, req)
<1>1. PICK list \in Listings :
        h \in LET slot == spec_scan(list, req)
              IN  IF driver /\ slot.found THEN spec_map_area(slot) ELSE {NoHandle}
      BY DEF spec_open
<1> DEFINE slot == spec_scan(list, req)
           card == [bus |-> slot.bus, devfn |-> slot.devfn]
<1>2. Knows(slot, req)
      BY ListingsEnd, ScanKnows
<1> HIDE DEF slot
<1>3. h \in {NoHandle, NULL} \/ (slot.found /\ h = card)
      BY <1>1 DEF spec_map_area, slot
<1>4. CASE h \in {NoHandle, NULL}
      BY <1>4, SlotsAssumption DEF Handles
<1>5. CASE slot.found /\ h = card
      BY <1>2, <1>5 DEF Knows, Handles, Meets
<1>. QED BY <1>3, <1>4, <1>5

-----------------------------------------------------------------------------
(* The types, for any number of loaders at a time: those of TypeOK and     *)
(* what a program holds at each of its steps. *)
CpuStates == {"running", "stopping", "stopped"}

CardTyped(c) ==
  /\ CardShape(c)
  /\ c.cpu \in CpuStates
  /\ c.mem \in [1 .. MemSize -> Words]
  /\ c.tdr \in Seq(Keys) /\ Len(c.tdr) <= 1
  /\ c.fifo \in Seq({"char"}) /\ Len(c.fifo) <= FifoSize

CardsTyped == /\ cards = [slot \in Slots |-> cards[slot]]
              /\ \A slot \in Slots : CardTyped(cards[slot])

HoldsRequested(proc) == /\ proc.card \in Handles
                        /\ proc.card \in Slots => Meets(proc.card, proc.req)

LoaderTyped(l) ==
  /\ LoaderShape(l) /\ HoldsRequested(l)
  /\ \/ /\ l.pc \in Ended \cup {"open"}
        /\ l.card = NoHandle /\ l.file = NULL
     \/ /\ l.pc \in {"halt", "wait", "write", "verify", "release"}
        /\ l.card \in Slots \/ (l.pc = "halt" /\ l.card = NULL)
        /\ l.file \in Files /\ l.i \in 0 .. Len(l.file) - 1

LoadersTyped == /\ loader = [p \in Loaders |-> loader[p]]
                /\ \A p \in Loaders : LoaderTyped(loader[p])

FwTyped == /\ LoaderShape(fwloader) /\ HoldsRequested(fwloader)
           /\ fwloader.pc \in {"idle", "open", "load"}
           /\ fwloader.pc = "load" => fwloader.card \in Slots \cup {NULL}

ConsoleTyped ==
  /\ console = [pc |-> console.pc, req |-> console.req, card |-> console.card,
                byte |-> console.byte, need_exit |-> console.need_exit]
  /\ HoldsRequested(console)
  /\ \/ console.pc \in {"idle", "open"} /\ console.card = NoHandle
     \/ console.pc \in {"select", "tx", "rx"} /\ console.card \in Slots \cup {NULL}
  /\ IF console.pc = "tx" THEN \E key \in Keys : console.byte = <<key>>
     ELSE console.byte = <<>>

KeyboardTyped == keyboard \in Seq(Keys \cup {CtrlA}) /\ Len(keyboard) <= MaxKeys

(* spec-fwloader does not run besides the console either. *)
NoConsoleThen == fwloader.pc # "idle" => ~Running

TypeInv == /\ driver \in BOOLEAN
           /\ CardsTyped /\ LoadersTyped /\ FwTyped
           /\ ConsoleTyped /\ KeyboardTyped /\ NoConsoleThen

-----------------------------------------------------------------------------
(* A card of which one field is written. *)
LEMMA FieldsTyped ==
  ASSUME NEW c, CardTyped(c)
  PROVE  /\ \A v \in CpuStates : CardTyped([c EXCEPT !.cpu = v])
         /\ \A v \in [1 .. MemSize -> Words] : CardTyped([c EXCEPT !.mem = v])
         /\ \A v \in Seq(Keys) : Len(v) <= 1 => CardTyped([c EXCEPT !.tdr = v])
         /\ \A v \in Seq({"char"}) :
              Len(v) <= FifoSize => CardTyped([c EXCEPT !.fifo = v])
<1>1. ASSUME NEW v \in CpuStates PROVE CardTyped([c EXCEPT !.cpu = v])
      BY DEF CardTyped, CardShape
<1>2. ASSUME NEW v \in [1 .. MemSize -> Words] PROVE CardTyped([c EXCEPT !.mem = v])
      BY DEF CardTyped, CardShape
<1>3. ASSUME NEW v \in Seq(Keys), Len(v) <= 1 PROVE CardTyped([c EXCEPT !.tdr = v])
      BY <1>3 DEF CardTyped, CardShape
<1>4. ASSUME NEW v \in Seq({"char"}), Len(v) <= FifoSize
      PROVE  CardTyped([c EXCEPT !.fifo = v])
      BY <1>4, SMTT(30) DEF CardTyped, CardShape
<1>. QED BY <1>1, <1>2, <1>3, <1>4

LEMMA CardReplaced ==
  ASSUME CardsTyped, NEW slot, NEW c, cards' = [cards EXCEPT ![slot] = c],
         slot \in Slots => CardTyped(c)
  PROVE  CardsTyped'
<1>1. cards' = [u \in Slots |-> cards'[u]]
      BY DEF CardsTyped
<1>2. ASSUME NEW u \in Slots PROVE CardTyped(cards'[u])
  <2>1. CASE u = slot
        BY <2>1 DEF CardsTyped
  <2>2. CASE u # slot
        BY <2>2 DEF CardsTyped
  <2>. QED BY <2>1, <2>2
<1>. QED BY <1>1, <1>2 DEF CardsTyped

LEMMA CardUntouched == ASSUME CardsTyped, UNCHANGED cards PROVE CardsTyped'
BY DEF CardsTyped

LEMMA LoaderReplaced ==
  ASSUME LoadersTyped, NEW p \in Loaders, NEW l,
         loader' = [loader EXCEPT ![p] = l], LoaderTyped(l)
  PROVE  LoadersTyped'
<1>1. loader' = [q \in Loaders |-> loader'[q]]
      BY DEF LoadersTyped
<1>2. ASSUME NEW q \in Loaders PROVE LoaderTyped(loader'[q])
      BY DEF LoadersTyped
<1>. QED BY <1>1, <1>2 DEF LoadersTyped

LEMMA AtFields ==
  \A pc, req, card, file :
    LET l == At(pc, req, card, file)
    IN  /\ LoaderShape(l)
        /\ l.pc = pc /\ l.req = req /\ l.card = card /\ l.file = file /\ l.i = 0
BY DEF At, LoaderShape

(* A program that ended, and one that starts, holds nothing. *)
LEMMA HoldsNothing ==
  ASSUME NEW pc, NEW req
  PROVE  HoldsRequested(At(pc, req, NoHandle, NULL))
BY AtFields, SlotsAssumption DEF HoldsRequested, Handles

LEMMA EndTyped ==
  ASSUME NEW how \in Ended PROVE LoaderTyped(End(how))
BY AtFields, HoldsNothing DEF LoaderTyped, End

(* The fields of a program that moves on. *)
LEMMA MovedFields ==
  ASSUME NEW r, LoaderShape(r)
  PROVE  /\ \A pc : LET l == [r EXCEPT !.pc = pc]
                    IN  /\ LoaderShape(l) /\ l.pc = pc /\ l.req = r.req
                        /\ l.file = r.file /\ l.i = r.i /\ l.card = r.card
         /\ \A n : LET l == [r EXCEPT !.i = n]
                   IN  /\ LoaderShape(l) /\ l.i = n /\ l.req = r.req
                       /\ l.pc = r.pc /\ l.file = r.file /\ l.card = r.card
BY DEF LoaderShape

(* A loader that has opened card h. *)
Opened(r, pc, h) == [r EXCEPT !.pc = pc, !.card = h]

LEMMA OpenedFields ==
  ASSUME NEW r, LoaderShape(r), NEW pc, NEW h
  PROVE  /\ LoaderShape(Opened(r, pc, h)) /\ Opened(r, pc, h).pc = pc
         /\ Opened(r, pc, h).card = h /\ Opened(r, pc, h).req = r.req
<1> DEFINE q == [r EXCEPT !.pc = pc]
<1>1. LoaderShape(q) /\ q.pc = pc /\ q.req = r.req
      BY MovedFields
<1>2. [r EXCEPT !.pc = pc, !.card = h] = [q EXCEPT !.card = h]
      OBVIOUS
<1> HIDE DEF q
<1> DEFINE l == [q EXCEPT !.card = h]
<1>3. LoaderShape(l) /\ l.pc = pc /\ l.card = h /\ l.req = r.req
      BY <1>1 DEF LoaderShape
<1> HIDE DEF l
<1>. QED BY <1>2, <1>3 DEF l, Opened

LEMMA LoadTyped ==
  ASSUME TypeInv, NEW p \in Loaders, Load(p)
  PROVE  CardsTyped' /\ LoadersTyped'
<1> DEFINE r == loader[p]
           f == r.file
           slot == r.card
           i == r.i + 1
<1>0. /\ LoaderTyped(r) /\ LoaderShape(r) /\ HoldsRequested(r)
      /\ CardsTyped /\ LoadersTyped
      BY DEF TypeInv, LoadersTyped, LoaderTyped
<1>1. ASSUME NEW how \in Ended, UNCHANGED cards, loader' = [loader EXCEPT ![p] = End(how)]
      PROVE  CardsTyped' /\ LoadersTyped'
      BY <1>0, <1>1, EndTyped, LoaderReplaced, CardUntouched
<1>2. ASSUME NEW pc \in {"wait", "write"}, r.pc \in {"halt", "wait"}, slot \in Slots,
             loader' = [loader EXCEPT ![p].pc = pc]
      PROVE  LoadersTyped'
  <2> DEFINE l == [r EXCEPT !.pc = pc]
  <2>1. loader' = [loader EXCEPT ![p] = l]
        BY <1>2
  <2>2. /\ LoaderShape(l) /\ l.pc = pc /\ l.req = r.req
        /\ l.file = r.file /\ l.i = r.i /\ l.card = r.card
        BY <1>0, MovedFields
  <2> HIDE DEF l
  <2>3. LoaderTyped(l)
        BY <1>0, <1>2, <2>2 DEF LoaderTyped, HoldsRequested, Ended
  <2>. QED BY <1>0, <2>1, <2>3, LoaderReplaced
<1>3. ASSUME NEW pc \in {"verify", "release"}, r.pc \in {"write", "verify"},
             loader' = [loader EXCEPT ![p] = At(pc, r.req, slot, f)]
      PROVE  LoadersTyped'
  <2> DEFINE l == At(pc, r.req, slot, f)
  <2>1. /\ LoaderShape(l) /\ l.pc = pc /\ l.req = r.req
        /\ l.file = r.file /\ l.i = 0 /\ l.card = r.card
        BY AtFields
  <2>2. f \in Files /\ slot \in Slots
        BY <1>0, <1>3 DEF LoaderTyped, Ended
  <2>3. 0 \in 0 .. Len(f) - 1
        BY <2>2, FileFits
  <2> HIDE DEF l
  <2>4. LoaderTyped(l)
        BY <1>0, <2>1, <2>2, <2>3 DEF LoaderTyped, HoldsRequested
  <2>. QED BY <1>0, <1>3, <2>4, LoaderReplaced DEF l
<1>4. ASSUME r.pc \in {"write", "verify"}, i # Len(f),
             loader' = [loader EXCEPT ![p] = [r EXCEPT !.i = i]]
      PROVE  LoadersTyped'
  <2> DEFINE l == [r EXCEPT !.i = i]
  <2>1. /\ LoaderShape(l) /\ l.pc = r.pc /\ l.req = r.req
        /\ l.file = r.file /\ l.i = i /\ l.card = r.card
        BY <1>0, MovedFields
  <2>2. f \in Files /\ slot \in Slots /\ r.i \in 0 .. Len(f) - 1
        BY <1>0, <1>4 DEF LoaderTyped, Ended
  <2>3. i \in 0 .. Len(f) - 1
        BY <1>4, <2>2, FileFits
  <2> HIDE DEF l
  <2>4. LoaderTyped(l)
        BY <1>0, <1>4, <2>1, <2>2, <2>3 DEF LoaderTyped, HoldsRequested
  <2>. QED BY <1>0, <1>4, <2>4, LoaderReplaced DEF l
<1>5. ASSUME NEW v \in CpuStates, cards' = [cards EXCEPT ![slot].cpu = v]
      PROVE  CardsTyped'
  <2> DEFINE c == [cards[slot] EXCEPT !.cpu = v]
  <2>1. cards' = [cards EXCEPT ![slot] = c]
        BY <1>5
  <2>2. slot \in Slots => CardTyped(c)
        BY <1>0, FieldsTyped DEF CardsTyped
  <2>. QED BY <1>0, <2>1, <2>2, CardReplaced
<1>6. CASE LoaderOpen(p)
  <2>1. PICK h \in spec_open(r.req), buf \in load_binary_file :
          loader' = [loader EXCEPT ![p] =
                     IF h = NoHandle THEN End("no_card")
                     ELSE IF buf = NULL THEN End("failed")
                     ELSE At("halt", r.req, h, buf)]
        BY <1>6 DEF LoaderOpen
  <2>2. CASE h = NoHandle \/ buf = NULL
        BY <1>1, <1>6, <2>1, <2>2 DEF LoaderOpen, Ended
  <2>3. CASE ~(h = NoHandle \/ buf = NULL)
    <3> DEFINE l == At("halt", r.req, h, buf)
    <3>1. /\ LoaderShape(l) /\ l.pc = "halt" /\ l.req = r.req
          /\ l.file = buf /\ l.i = 0 /\ l.card = h
          BY AtFields
    <3>2. h \in Slots \cup {NULL} /\ (h \in Slots => Meets(h, r.req))
          BY <2>3, OpenMeets DEF Handles
    <3>3. buf \in Files /\ 0 \in 0 .. Len(buf) - 1
          BY <2>3, FileFits DEF load_binary_file
    <3> HIDE DEF l
    <3>4. LoaderTyped(l)
          BY <3>1, <3>2, <3>3 DEF LoaderTyped, HoldsRequested, Handles
    <3>. QED BY <1>0, <1>6, <2>1, <2>3, <3>4, LoaderReplaced, CardUntouched
             DEF l, LoaderOpen
  <2>. QED BY <2>2, <2>3
<1>7. CASE Segfault(p)
      BY <1>1, <1>7 DEF Segfault, Ended
<1>8. CASE Halt(p)
  <2>1. slot \in Slots
        BY <1>0, <1>8 DEF Halt, LoaderTyped, Ended
  <2>2. LoadersTyped'
        BY <1>2, <1>8, <2>1 DEF Halt, Goto
  <2>3. PICK v \in CpuStates : cards' = [cards EXCEPT ![slot].cpu = v]
    <3>1. cards[slot].cpu \in CpuStates
          BY <1>0, <2>1 DEF CardsTyped, CardTyped
    <3> DEFINE v == IF cards[slot].cpu = "running" THEN "stopping" ELSE cards[slot].cpu
    <3>2. cards' = [cards EXCEPT ![slot].cpu = v] /\ v \in CpuStates
          BY <1>8, <3>1 DEF Halt, CpuStates
    <3>. QED BY <3>2
  <2>. QED BY <1>5, <2>2, <2>3
<1>9. CASE WaitHalted(p)
  <2>1. slot \in Slots
        BY <1>0, <1>9 DEF WaitHalted, LoaderTyped, Ended
  <2>. QED BY <1>0, <1>2, <1>9, <2>1, CardUntouched DEF WaitHalted, Goto
<1>10. CASE WriteWord(p)
  <2>1. f \in Files /\ slot \in Slots /\ r.i \in 0 .. Len(f) - 1
        BY <1>0, <1>10 DEF WriteWord, LoaderTyped, Ended
  <2>2. PICK w \in {f[i], "damaged"} : cards' = [cards EXCEPT ![slot].mem[i] = w]
        BY <1>10 DEF WriteWord
  <2>3. i \in 1 .. Len(f)
        BY <2>1, FileFits
  <2>4. i \in DOMAIN f /\ f[i] \in ToSet(f)
        BY <2>1, <2>3, FileFits DEF ToSet
  <2>5. w \in Words
        BY <2>1, <2>4 DEF Words
  <2> DEFINE m == [cards[slot].mem EXCEPT ![i] = w]
             c == [cards[slot] EXCEPT !.mem = m]
  <2>6. cards' = [cards EXCEPT ![slot] = c]
        BY <2>2
  <2>7. CardTyped(cards[slot])
        BY <1>0, <2>1 DEF CardsTyped
  <2>8. m \in [1 .. MemSize -> Words]
        BY <2>5, <2>7 DEF CardTyped
  <2> HIDE DEF m
  <2>9. CardTyped(c)
        BY <2>7, <2>8, FieldsTyped
  <2> HIDE DEF c
  <2>10. CardsTyped'
        BY <1>0, <2>6, <2>9, CardReplaced
  <2>11. LoadersTyped'
        BY <1>3, <1>4, <1>10 DEF WriteWord
  <2>. QED BY <2>10, <2>11
<1>11. CASE VerifyWord(p)
  <2>1. CASE cards[slot].mem[i] # f[i]
        BY <1>1, <1>11, <2>1 DEF VerifyWord, Ended
  <2>2. CASE cards[slot].mem[i] = f[i]
        BY <1>0, <1>3, <1>4, <1>11, <2>2, CardUntouched DEF VerifyWord
  <2>. QED BY <2>1, <2>2
<1>12. CASE Release(p)
  <2>1. CardsTyped'
        BY <1>5, <1>12 DEF Release, CpuStates
  <2>2. LoadersTyped'
        BY <1>0, <1>12, EndTyped, LoaderReplaced DEF Release, Ended
  <2>. QED BY <2>1, <2>2
<1>. QED BY <1>6, <1>7, <1>8, <1>9, <1>10, <1>11, <1>12 DEF Load, LoaderNext

(* spec-fwloader: it has the card it was asked for, and writes all of it.  *)
LEMMA FwStepTyped ==
  ASSUME TypeInv, FwLoad
  PROVE  CardsTyped' /\ LoadersTyped' /\ FwTyped' /\ NoConsoleThen'
<1>0. CardsTyped /\ LoadersTyped /\ FwTyped /\ NoConsoleThen
      BY DEF TypeInv
<1>1. UNCHANGED <<loader, console>>
      BY DEF FwLoad, FwStart, FwNext, FwOpen, spec_load_bitstream
<1>2. LoadersTyped'
      BY <1>0, <1>1 DEF LoadersTyped, LoaderTyped, HoldsRequested
<1>3. NoConsoleThen'
      BY <1>0, <1>1 DEF FwLoad, FwStart, FwNext, FwOpen, spec_load_bitstream, Quiet,
                        NoConsoleThen, Running
<1>4. LoaderShape(End("idle")) /\ End("idle").pc = "idle" /\ HoldsRequested(End("idle"))
      BY AtFields, HoldsNothing DEF End
<1>5. CASE \E req \in FwRequests : FwStart(req)
  <2>1. PICK req \in FwRequests : fwloader' = At("open", req, NoHandle, NULL)
        BY <1>5 DEF FwStart
  <2>2. FwTyped'
        BY <2>1, AtFields, HoldsNothing DEF FwTyped
  <2>. QED BY <1>0, <1>2, <1>3, <1>5, <2>2, CardUntouched DEF FwStart
<1>6. CASE FwOpen
  <2>1. PICK h \in spec_open(fwloader.req) :
          fwloader' = IF h = NoHandle THEN End("idle")
                      ELSE [fwloader EXCEPT !.pc = "load", !.card = h]
        BY <1>6 DEF FwOpen
  <2>2. h \in Handles /\ (h \in Slots => Meets(h, fwloader.req))
        BY OpenMeets
  <2>3. ASSUME h # NoHandle PROVE FwTyped'
    <3> DEFINE l == Opened(fwloader, "load", h)
    <3>0. LoaderShape(fwloader)
          BY <1>0 DEF FwTyped
    <3>1. LoaderShape(l) /\ l.pc = "load" /\ l.card = h /\ l.req = fwloader.req
          BY <3>0, OpenedFields
    <3> HIDE DEF l
    <3>2. fwloader' = l
          BY <2>1, <2>3 DEF l, Opened
    <3>3. HoldsRequested(l)
          BY <2>2, <3>1 DEF HoldsRequested
    <3>4. l.pc \in {"idle", "open", "load"} /\ l.card \in Slots \cup {NULL}
          BY <2>2, <2>3, <3>1 DEF Handles
    <3>. QED BY <3>1, <3>2, <3>3, <3>4 DEF FwTyped
  <2>. QED BY <1>0, <1>2, <1>3, <1>4, <1>6, <2>1, <2>3, CardUntouched
           DEF FwOpen, FwTyped
<1>7. CASE spec_load_bitstream
  <2>1. FwTyped'
        BY <1>4, <1>7 DEF spec_load_bitstream, FwTyped
  <2>2. \A c \in {Configured, Blank} : CardTyped(c)
    <3>1. BootFirmware \in [1 .. MemSize -> Words]
          BY DEF BootFirmware, Words
    <3>2. <<>> \in Seq(Keys) /\ <<>> \in Seq({"char"}) /\ Len(<<>>) = 0
          OBVIOUS
    <3>3. FifoSize \in Nat
          BY SizesAssumption
    <3>4. ASSUME NEW fpga, NEW cpu \in CpuStates PROVE CardTyped(Card(fpga, cpu))
      <4> HIDE DEF BootFirmware
      <4>. QED BY <3>1, <3>2, <3>3 DEF Card, CardTyped, CardShape
    <3>. QED BY <3>4 DEF Configured, Blank, CpuStates
  <2>3. CardsTyped'
        BY <1>0, <1>7, <2>2, CardUntouched, CardReplaced DEF spec_load_bitstream
  <2>. QED BY <1>2, <1>3, <2>1, <2>3
<1>. QED BY <1>5, <1>6, <1>7 DEF FwLoad, FwNext

(* The console. *)
LEMMA NoConsoleTyped ==
  ASSUME ConsoleEnds PROVE ConsoleTyped' /\ ~Running'
<1>1. NoHandle \in Handles /\ NoHandle \notin Slots
      BY SlotsAssumption DEF Handles
<1>. QED BY <1>1 DEF ConsoleEnds, NoConsole, ConsoleTyped, HoldsRequested, Running

MovesTo(pc, b, exit) ==
  console' = [console EXCEPT !.pc = pc, !.byte = b, !.need_exit = exit]

LEMMA ConsoleFields ==
  ASSUME ConsoleTyped, NEW pc, NEW b, NEW exit, MovesTo(pc, b, exit)
  PROVE  /\ console' = [pc |-> console'.pc, req |-> console'.req,
                        card |-> console'.card, byte |-> console'.byte,
                        need_exit |-> console'.need_exit]
         /\ console'.pc = pc /\ console'.byte = b /\ console'.need_exit = exit
         /\ console'.card = console.card /\ console'.req = console.req
BY DEF ConsoleTyped, MovesTo

(* A console that moves on with the card it has. *)
LEMMA ConsoleGoesOn ==
  ASSUME ConsoleTyped, NEW pc \in {"select", "tx", "rx"}, NEW b, NEW exit,
         console.pc \in {"select", "tx", "rx"},
         MovesTo(pc, b, exit),
         IF pc = "tx" THEN \E key \in Keys : b = <<key>> ELSE b = <<>>
  PROVE  ConsoleTyped'
<1>1. /\ console' = [pc |-> console'.pc, req |-> console'.req,
                     card |-> console'.card, byte |-> console'.byte,
                     need_exit |-> console'.need_exit]
      /\ console'.pc = pc /\ console'.byte = b /\ console'.need_exit = exit
      /\ console'.card = console.card /\ console'.req = console.req
      BY ConsoleFields
<1>2. console.card \in Slots \cup {NULL} /\ HoldsRequested(console)
      BY DEF ConsoleTyped
<1>. QED BY <1>1, <1>2 DEF ConsoleTyped, HoldsRequested

(* The steps of the console in that form. *)
LEMMA ConsoleMoves ==
  ASSUME ConsoleTyped, NEW pc
  PROVE  /\ console' = [console EXCEPT !.pc = pc]
              => MovesTo(pc, console.byte, console.need_exit)
         /\ console' = [console EXCEPT !.pc = pc, !.need_exit = TRUE]
              => MovesTo(pc, console.byte, TRUE)
         /\ \A b : console' = [console EXCEPT !.pc = pc, !.byte = b]
              => MovesTo(pc, b, console.need_exit)
<1> DEFINE Rec(c, b, e) == [pc |-> c, req |-> console.req, card |-> console.card,
                            byte |-> b, need_exit |-> e]
<1>1. console = Rec(console.pc, console.byte, console.need_exit)
      BY DEF ConsoleTyped
<1>. QED BY <1>1 DEF MovesTo

(* A key that was typed. *)
LEMMA HeadKey ==
  ASSUME KeyboardTyped, keyboard # <<>>
  PROVE  /\ Head(keyboard) \in Keys \cup {CtrlA}
         /\ Tail(keyboard) \in Seq(Keys \cup {CtrlA})
         /\ Len(Tail(keyboard)) <= MaxKeys
         /\ keyboard = <<Head(keyboard)>> \o Tail(keyboard)
<1>1. keyboard \in Seq(Keys \cup {CtrlA}) /\ Len(keyboard) \in Nat /\ Len(keyboard) # 0
      BY DEF KeyboardTyped
<1>2. Len(Tail(keyboard)) = Len(keyboard) - 1
      BY <1>1
<1>. QED BY <1>1, <1>2, KeysAssumption DEF KeyboardTyped

LEMMA ConsoleStepTyped ==
  ASSUME TypeInv, RunConsole
  PROVE  CardsTyped' /\ ConsoleTyped' /\ KeyboardTyped' /\ (Running' => Running)
<1>0. CardsTyped /\ ConsoleTyped /\ KeyboardTyped
      BY DEF TypeInv
<1>1. CASE ConsoleOpen
  <2>1. PICK h \in spec_open(console.req) :
          IF h = NoHandle THEN ConsoleEnds /\ UNCHANGED keyboard
          ELSE /\ console' = [console EXCEPT !.pc = "select", !.card = h]
               /\ keyboard' \in {keyboard, <<>>}
        BY <1>1 DEF ConsoleOpen
  <2>2. CASE h = NoHandle
        BY <1>0, <1>1, <2>1, <2>2, NoConsoleTyped, CardUntouched
        DEF ConsoleOpen, KeyboardTyped
  <2>3. CASE h # NoHandle
    <3>1. h \in Handles /\ (h \in Slots => Meets(h, console.req))
          BY OpenMeets
    <3>2. /\ console' = [pc |-> console'.pc, req |-> console'.req,
                         card |-> console'.card, byte |-> console'.byte,
                         need_exit |-> console'.need_exit]
          /\ console'.pc = "select" /\ console'.byte = console.byte
          /\ console'.card = h /\ console'.req = console.req
          BY <1>0, <2>1, <2>3 DEF ConsoleTyped
    <3>3. console.byte = <<>>
          BY <1>0, <1>1 DEF ConsoleOpen, ConsoleTyped
    <3>4. ConsoleTyped'
          BY <2>3, <3>1, <3>2, <3>3 DEF ConsoleTyped, HoldsRequested, Handles
    <3>5. KeyboardTyped'
      <4>1. <<>> \in Seq(Keys \cup {CtrlA}) /\ Len(<<>>) <= MaxKeys
            BY KeysAssumption
      <4>2. keyboard' = keyboard \/ keyboard' = <<>>
            BY <2>1, <2>3
      <4>. QED BY <1>0, <4>1, <4>2 DEF KeyboardTyped
    <3>. QED BY <1>0, <1>1, <3>4, <3>5, CardUntouched DEF ConsoleOpen, Running
  <2>. QED BY <2>2, <2>3
<1>2. CASE Select
  <2>0. console.pc = "select" /\ UNCHANGED cards /\ console.byte = <<>> /\ Running
        BY <1>0, <1>2 DEF Select, ConsoleTyped, Running
  <2>1. CASE transfer_byte /\ Head(keyboard) # CtrlA
    <3>1. keyboard # <<>> /\ Head(keyboard) \in Keys
          BY <1>0, <2>1, HeadKey DEF transfer_byte
    <3>2. MovesTo("tx", <<Head(keyboard)>>, console.need_exit)
          BY <1>0, <2>1, ConsoleMoves DEF transfer_byte
    <3>3. ConsoleTyped'
          BY <1>0, <2>0, <3>1, <3>2, ConsoleGoesOn
    <3>. QED BY <1>0, <2>0, <2>1, <3>1, <3>3, HeadKey, CardUntouched
             DEF transfer_byte, KeyboardTyped
  <2>2. CASE ~(transfer_byte /\ Head(keyboard) # CtrlA)
    <3>1. PICK exit : MovesTo("rx", <<>>, exit)
          BY <1>0, <1>2, <2>0, <2>2, ConsoleMoves
          DEF Select, transfer_byte, TerminalGone
    <3>2. ConsoleTyped'
          BY <1>0, <2>0, <3>1, ConsoleGoesOn
    <3>3. \/ UNCHANGED keyboard
          \/ keyboard # <<>> /\ keyboard' = Tail(keyboard)
          BY <1>2 DEF Select, transfer_byte, TerminalGone
    <3>4. KeyboardTyped'
          BY <1>0, <3>3, HeadKey DEF KeyboardTyped
    <3>. QED BY <1>0, <2>0, <3>2, <3>4, CardUntouched
  <2>. QED BY <2>1, <2>2
<1>3. CASE ConsoleSegfault
      BY <1>0, <1>3, NoConsoleTyped, CardUntouched DEF ConsoleSegfault, KeyboardTyped
<1>4. CASE vuart_tx
  <2> DEFINE c == [cards[Area] EXCEPT !.tdr = console.byte]
  <2>1. cards' = [cards EXCEPT ![Area] = c] /\ Area \in Slots /\ console.pc = "tx"
        BY <1>4 DEF vuart_tx
  <2>2. console.byte \in Seq(Keys) /\ Len(console.byte) <= 1
    <3>1. PICK key \in Keys : console.byte = <<key>>
          BY <1>0, <2>1 DEF ConsoleTyped
    <3>2. <<key>> \in Seq(Keys) /\ Len(<<key>>) = 1
          OBVIOUS
    <3>. QED BY <3>1, <3>2
  <2>3. CardTyped(c)
        BY <1>0, <2>1, <2>2, FieldsTyped DEF CardsTyped
  <2> HIDE DEF c
  <2>4. CardsTyped'
        BY <1>0, <2>1, <2>3, CardReplaced
  <2>5. MovesTo("rx", <<>>, console.need_exit)
        BY <1>0, <1>4, ConsoleMoves DEF vuart_tx
  <2>6. ConsoleTyped'
        BY <1>0, <2>1, <2>5, ConsoleGoesOn
  <2>. QED BY <1>0, <1>4, <2>1, <2>4, <2>6 DEF vuart_tx, KeyboardTyped, Running
<1>5. CASE vuart_rx
  <2> DEFINE c == [cards[Area] EXCEPT !.fifo = Tail(cards[Area].fifo)]
  <2>1. cards' = [cards EXCEPT ![Area] = c] /\ Area \in Slots
        BY <1>5 DEF vuart_rx
  <2>2. CardTyped(cards[Area]) /\ cards[Area].fifo # <<>>
        BY <1>0, <1>5, <2>1 DEF CardsTyped, vuart_rx
  <2>3. Tail(cards[Area].fifo) \in Seq({"char"})
        /\ Len(Tail(cards[Area].fifo)) = Len(cards[Area].fifo) - 1
        BY <2>2 DEF CardTyped
  <2>4. Len(Tail(cards[Area].fifo)) <= FifoSize
        BY <2>2, <2>3, SizesAssumption DEF CardTyped
  <2>5. CardTyped(c)
        BY <2>2, <2>3, <2>4, FieldsTyped
  <2> HIDE DEF c
  <2>6. CardsTyped'
        BY <1>0, <2>1, <2>5, CardReplaced
  <2>. QED BY <1>0, <1>5, <2>6
           DEF vuart_rx, ConsoleTyped, HoldsRequested, KeyboardTyped, Running
<1>6. CASE NothingToPrint
  <2>0. console.pc = "rx" /\ UNCHANGED <<cards, keyboard>> /\ console.byte = <<>>
        BY <1>0, <1>6 DEF NothingToPrint, ConsoleTyped
  <2>1. CASE console.need_exit
        BY <1>0, <1>6, <2>0, <2>1, NoConsoleTyped, CardUntouched
        DEF NothingToPrint, KeyboardTyped
  <2>2. CASE ~console.need_exit
    <3>1. MovesTo("select", <<>>, console.need_exit)
          BY <1>0, <1>6, <2>0, <2>2, ConsoleMoves DEF NothingToPrint
    <3>2. ConsoleTyped'
          BY <1>0, <2>0, <3>1, ConsoleGoesOn
    <3>. QED BY <1>0, <2>0, <3>2, CardUntouched DEF KeyboardTyped, Running
  <2>. QED BY <2>1, <2>2
<1>. QED BY <1>1, <1>2, <1>3, <1>4, <1>5, <1>6 DEF RunConsole, ConsoleNext

(* What the cards do by themselves. *)
LEMMA CardStepTyped ==
  ASSUME TypeInv, NEW slot \in Slots, CardStops(slot) \/ CardTakes(slot) \/ CardTalks(slot)
  PROVE  CardsTyped'
<1>0. CardsTyped /\ CardTyped(cards[slot])
      BY DEF TypeInv, CardsTyped
<1>1. CASE CardStops(slot)
  <2> DEFINE c == [cards[slot] EXCEPT !.cpu = "stopped"]
  <2>1. cards' = [cards EXCEPT ![slot] = c]
        BY <1>1 DEF CardStops, Stops
  <2>2. CardTyped(c)
        BY <1>0, FieldsTyped DEF CpuStates
  <2> HIDE DEF c
  <2>. QED BY <1>0, <2>1, <2>2, CardReplaced
<1>2. CASE CardTakes(slot)
  <2> DEFINE c == [cards[slot] EXCEPT !.tdr = <<>>]
  <2>1. cards' = [cards EXCEPT ![slot] = c]
        BY <1>2 DEF CardTakes, TakesByte
  <2>2. <<>> \in Seq(Keys) /\ Len(<<>>) <= 1
        OBVIOUS
  <2>3. CardTyped(c)
        BY <1>0, <2>2, FieldsTyped
  <2> HIDE DEF c
  <2>. QED BY <1>0, <2>1, <2>3, CardReplaced
<1>3. CASE CardTalks(slot)
  <2> DEFINE m == Append(cards[slot].fifo, "char")
             c == [cards[slot] EXCEPT !.fifo = m]
  <2>1. cards' = [cards EXCEPT ![slot] = c] /\ Len(cards[slot].fifo) < FifoSize
        BY <1>3 DEF CardTalks, Talks
  <2>2. cards[slot].fifo \in Seq({"char"}) /\ FifoSize \in Nat
        BY <1>0, SizesAssumption DEF CardTyped
  <2>3. m \in Seq({"char"}) /\ Len(m) = Len(cards[slot].fifo) + 1
        BY <2>2
  <2>4. Len(m) <= FifoSize
        BY <2>1, <2>2, <2>3
  <2> HIDE DEF m
  <2>5. CardTyped(c)
        BY <1>0, <2>3, <2>4, FieldsTyped
  <2> HIDE DEF c
  <2>. QED BY <1>0, <2>1, <2>5, CardReplaced
<1>. QED BY <1>1, <1>2, <1>3

(* The parts of the invariant that a step leaves alone. *)
LEMMA TypedKept ==
  ASSUME TypeInv
  PROVE  /\ UNCHANGED driver => driver' \in BOOLEAN
         /\ UNCHANGED cards => CardsTyped'
         /\ UNCHANGED loader => LoadersTyped'
         /\ UNCHANGED fwloader => FwTyped'
         /\ UNCHANGED console => ConsoleTyped'
         /\ UNCHANGED keyboard => KeyboardTyped'
         /\ UNCHANGED fwloader /\ (Running' => Running) => NoConsoleThen'
<1>1. UNCHANGED cards => CardsTyped'
      BY CardUntouched DEF TypeInv
<1>2. UNCHANGED loader => LoadersTyped'
      BY DEF TypeInv, LoadersTyped, LoaderTyped, HoldsRequested
<1>3. UNCHANGED fwloader => FwTyped'
      BY DEF TypeInv, FwTyped, HoldsRequested
<1>4. UNCHANGED console => ConsoleTyped'
  <2> SUFFICES ASSUME UNCHANGED console PROVE ConsoleTyped'
      OBVIOUS
  <2>. QED BY DEF TypeInv, ConsoleTyped, HoldsRequested
<1>5. UNCHANGED keyboard => KeyboardTyped'
      BY DEF TypeInv, KeyboardTyped
<1>6. UNCHANGED fwloader /\ (Running' => Running) => NoConsoleThen'
      BY DEF TypeInv, NoConsoleThen
<1>. QED BY <1>1, <1>2, <1>3, <1>4, <1>5, <1>6 DEF TypeInv

LEMMA TypeInvInductive ==
  ASSUME TypeInv, [Next]_hvars PROVE TypeInv'
<1>1. CASE Insmod \/ UNCHANGED hvars
  <2>1. /\ UNCHANGED <<cards, fwloader, loader, console, keyboard>>
        /\ driver' \in BOOLEAN
        BY <1>1 DEF Insmod, hvars, TypeInv
  <2>. QED BY <2>1, TypedKept DEF TypeInv, Running
<1>2. CASE FwLoad
      BY <1>2, FwStepTyped, TypedKept DEF TypeInv, FwLoad
<1>3. CASE StartLoader
  <2>1. PICK p \in Loaders, req \in LoadRequests : LoaderStart(p, req)
        BY <1>3 DEF StartLoader
  <2> DEFINE l == At("open", req, NoHandle, NULL)
  <2>2. LoaderTyped(l)
        BY AtFields, HoldsNothing DEF LoaderTyped
  <2>3. LoadersTyped'
        BY <2>1, <2>2, LoaderReplaced DEF TypeInv, LoaderStart
  <2>. QED BY <1>3, <2>1, <2>3, TypedKept
           DEF TypeInv, StartLoader, LoaderStart, Running
<1>4. CASE StartConsole
  <2>1. PICK req \in ConsoleRequests :
          console' = [NoConsole EXCEPT !.pc = "open", !.req = req]
        BY <1>4 DEF StartConsole, ConsoleStart
  <2>2. console' = [pc |-> "open", req |-> req, card |-> NoHandle,
                    byte |-> <<>>, need_exit |-> FALSE]
        BY <2>1 DEF NoConsole
  <2>3. NoHandle \in Handles /\ NoHandle \notin Slots
        BY SlotsAssumption DEF Handles
  <2>4. ConsoleTyped'
        BY <2>2, <2>3 DEF ConsoleTyped, HoldsRequested
  <2>5. NoConsoleThen'
        BY <1>4 DEF StartConsole, Ready, NoConsoleThen
  <2>. QED BY <1>4, <2>4, <2>5, TypedKept DEF TypeInv, StartConsole, ConsoleStart
<1>5. CASE RunConsole
      BY <1>5, ConsoleStepTyped, TypedKept DEF TypeInv, RunConsole
<1>6. CASE Type
  <2>1. PICK key \in Keys \cup {CtrlA} : Types(key)
        BY <1>6 DEF Type
  <2>2. keyboard \in Seq(Keys \cup {CtrlA}) /\ Len(keyboard) < MaxKeys
        BY <2>1 DEF TypeInv, KeyboardTyped, Types
  <2>3. keyboard' \in Seq(Keys \cup {CtrlA}) /\ Len(keyboard') = Len(keyboard) + 1
        BY <2>1, <2>2 DEF Types
  <2>4. KeyboardTyped'
        BY <2>2, <2>3, KeysAssumption DEF KeyboardTyped
  <2>. QED BY <1>6, <2>1, <2>4, TypedKept DEF TypeInv, Type, Types, Running
<1>7. CASE Kill
  <2>1. ASSUME NEW p \in Loaders, LoaderKilled(p), UNCHANGED <<driver, console, keyboard>>
        PROVE  TypeInv'
    <3>1. LoadersTyped'
          BY <2>1, EndTyped, LoaderReplaced DEF TypeInv, LoaderKilled, Ended
    <3>. QED BY <2>1, <3>1, TypedKept DEF TypeInv, LoaderKilled, Running
  <2>2. CASE ConsoleKilled /\ UNCHANGED <<driver, fwloader, loader>>
        BY <2>2, NoConsoleTyped, TypedKept DEF TypeInv, ConsoleKilled
  <2>. QED BY <1>7, <2>1, <2>2 DEF Kill
<1>8. ASSUME NEW p \in Loaders, Load(p) PROVE TypeInv'
  <2>1. UNCHANGED <<driver, fwloader, console, keyboard>>
        BY <1>8 DEF Load, LoaderNext, LoaderOpen, Segfault, Halt, WaitHalted,
                    WriteWord, VerifyWord, Release
  <2>. QED BY <1>8, <2>1, LoadTyped, TypedKept DEF TypeInv, Running
<1>9. ASSUME NEW slot \in Slots, CardStops(slot) \/ CardTakes(slot) \/ CardTalks(slot)
      PROVE  TypeInv'
      BY <1>9, CardStepTyped, TypedKept
      DEF TypeInv, Running, CardStops, CardTakes, CardTalks, Untouched
<1>. QED BY <1>1, <1>2, <1>3, <1>4, <1>5, <1>6, <1>7, <1>8, <1>9 DEF Next

LEMMA TypeInvInit ==
  ASSUME Init PROVE TypeInv
<1>1. CardTyped(Blank)
  <2>1. BootFirmware \in [1 .. MemSize -> Words]
        BY DEF BootFirmware, Words
  <2>2. <<>> \in Seq(Keys) /\ <<>> \in Seq({"char"}) /\ Len(<<>>) = 0 /\ FifoSize \in Nat
        BY SizesAssumption
  <2> HIDE DEF BootFirmware
  <2>. QED BY <2>1, <2>2 DEF Blank, Card, CardTyped, CardShape, CpuStates
<1>2. CardsTyped
      BY <1>1 DEF Init, CardsTyped
<1>3. LoaderTyped(End("idle"))
      BY EndTyped DEF Ended
<1>4. LoadersTyped
      BY <1>3 DEF Init, LoadersTyped
<1>5. FwTyped
      BY AtFields, HoldsNothing DEF Init, FwTyped, End
<1>6. ConsoleTyped /\ ~Running
  <2>1. NoHandle \in Handles /\ NoHandle \notin Slots
        BY SlotsAssumption DEF Handles
  <2>. QED BY <2>1 DEF Init, NoConsole, ConsoleTyped, HoldsRequested, Running
<1>7. KeyboardTyped
      BY KeysAssumption DEF Init, KeyboardTyped
<1>. QED BY <1>2, <1>4, <1>5, <1>6, <1>7 DEF Init, TypeInv, NoConsoleThen

LEMMA TypeInvariant == Spec => []TypeInv
BY TypeInvInit, TypeInvInductive, PTL DEF Spec

(* Types, for any number of loaders and any sizes. *)
THEOREM HostTypeCorrect == Spec => []TypeOK
<1>1. TypeInv => TypeOK
  <2> SUFFICES ASSUME TypeInv PROVE TypeOK
      OBVIOUS
  <2>1. \A slot \in Slots :
          /\ cards[slot].cpu \in {"running", "stopping", "stopped"}
          /\ cards[slot].mem \in [1 .. MemSize -> Words]
          /\ Len(cards[slot].tdr) <= 1 /\ Len(cards[slot].fifo) <= FifoSize
        BY DEF TypeInv, CardsTyped, CardTyped, CpuStates
  <2>2. \A p \in Loaders : /\ loader[p].card \in Handles
                           /\ loader[p].file # NULL =>
                                loader[p].i \in 0 .. Len(loader[p].file) - 1
        BY DEF TypeInv, LoadersTyped, LoaderTyped, HoldsRequested
  <2>. QED BY <2>1, <2>2 DEF TypeInv, ConsoleTyped, HoldsRequested, KeyboardTyped, TypeOK
<1>. QED BY <1>1, TypeInvariant, PTL

(* A program that holds a card holds one it was asked for, whatever the    *)
(* order of the driver's directory, which the scan reads without sorting   *)
(* it, and whatever the wildcards (speclib.c:34-68, 87-101).               *)
THEOREM RequestedCardIsOpened == Spec => []OpensRequestedCard
<1>1. TypeInv => OpensRequestedCard
      BY DEF TypeInv, LoadersTyped, LoaderTyped, FwTyped, ConsoleTyped,
             HoldsRequested, OpensRequestedCard
<1>. QED BY <1>1, TypeInvariant, PTL

-----------------------------------------------------------------------------
(* The first, the second and the last part of a longer sequence. *)
(* Of the keys in a card, in the console and typed: a key typed comes last, *)
(* and the key in the card goes first.                                       *)
KeyLast(t, b, k, x) == t \o b \o Append(k, x) = Append(t \o b \o k, x)

LEMMA KeyJoinsLast ==
  ASSUME NEW W, NEW t \in Seq(W), NEW b \in Seq(W), NEW k \in Seq(W), NEW x \in W
  PROVE  KeyLast(t, b, k, x)
BY DEF KeyLast

HeadGoes(t, b, k) == t \o b \o k # <<>> /\ <<>> \o b \o k = Tail(t \o b \o k)

LEMMA FirstKeyGoes ==
  ASSUME NEW W, NEW t \in Seq(W), NEW b \in Seq(W), NEW k \in Seq(W),
         t # <<>>, Len(t) <= 1
  PROVE  HeadGoes(t, b, k)
BY SMTT(30) DEF HeadGoes

LEMMA PartMoves ==
  ASSUME NEW W, NEW t \in Seq(W), NEW b \in Seq(W), NEW k \in Seq(W)
  PROVE  /\ \A x \in W : t \o b \o Append(k, x) = Append(t \o b \o k, x)
         /\ k # <<>> /\ b = <<>> => t \o <<Head(k)>> \o Tail(k) = t \o b \o k
         /\ t = <<>> => b \o <<>> \o k = t \o b \o k
         /\ b = <<>> => t \o b \o k = t \o k
<1>1. ASSUME NEW x \in W PROVE t \o b \o Append(k, x) = Append(t \o b \o k, x)
      OBVIOUS
<1>2. ASSUME k # <<>>, b = <<>>
      PROVE  t \o <<Head(k)>> \o Tail(k) = t \o b \o k
      BY <1>2
<1>3. t = <<>> => b \o <<>> \o k = t \o b \o k
      OBVIOUS
<1>4. b = <<>> => t \o b \o k = t \o k
      OBVIOUS
<1>. QED BY <1>1, <1>2, <1>3, <1>4

(* The areas of the cards as the keys see them. *)
LEMMA KeysUndisturbed ==
  ASSUME TypeInv, Area \in Slots, UNCHANGED <<console, keyboard>>,
         cards'[Area].tdr = cards[Area].tdr
  PROVE  Pending' = Pending
BY DEF Pending, Area

LEMMA LoadersLeaveKeys ==
  ASSUME TypeInv, NEW p \in Loaders, Load(p), NEW u \in Slots
  PROVE  cards'[u].tdr = cards[u].tdr
<1>0. u \in DOMAIN cards /\ CardShape(cards[u])
      BY DEF TypeInv, CardsTyped, CardTyped
<1>1. CASE UNCHANGED cards
      BY <1>1
<1>2. ASSUME NEW slot, NEW v, cards' = [cards EXCEPT ![slot].cpu = v]
      PROVE  cards'[u].tdr = cards[u].tdr
  <2>1. CASE u = slot
        BY <1>0, <1>2, <2>1 DEF CardShape
  <2>2. CASE u # slot
        BY <1>0, <1>2, <2>2
  <2>. QED BY <2>1, <2>2
<1>3. ASSUME NEW slot, NEW i, NEW v, cards' = [cards EXCEPT ![slot].mem[i] = v]
      PROVE  cards'[u].tdr = cards[u].tdr
  <2>1. CASE u = slot
    <3> DEFINE m == [cards[u].mem EXCEPT ![i] = v]
    <3>1. cards'[u] = [cards[u] EXCEPT !.mem = m]
          BY <1>0, <1>3, <2>1
    <3> HIDE DEF m
    <3>. QED BY <1>0, <3>1 DEF CardShape
  <2>2. CASE u # slot
        BY <1>0, <1>3, <2>2
  <2>. QED BY <2>1, <2>2
<1>4. CASE Halt(p) \/ Release(p)
  <2>1. PICK slot, v : cards' = [cards EXCEPT ![slot].cpu = v]
        BY <1>4 DEF Halt, Release
  <2>. QED BY <1>2, <2>1
<1>5. CASE WriteWord(p)
  <2>1. PICK slot, i, v : cards' = [cards EXCEPT ![slot].mem[i] = v]
        BY <1>5 DEF WriteWord
  <2>. QED BY <1>3, <2>1
<1>. QED BY <1>1, <1>4, <1>5 DEF Load, LoaderNext, LoaderOpen, Segfault, WaitHalted,
                                 VerifyWord

(* The characters on their way, as a sequence. *)
LEMMA PendingParts ==
  ASSUME TypeInv, Area \in Slots
  PROVE  /\ cards[Area].tdr \in Seq(Keys \cup {CtrlA}) /\ Len(cards[Area].tdr) <= 1
         /\ console.byte \in Seq(Keys \cup {CtrlA})
         /\ keyboard \in Seq(Keys \cup {CtrlA})
         /\ Pending = cards[Area].tdr \o console.byte \o keyboard
<1>1. cards[Area].tdr \in Seq(Keys) /\ Len(cards[Area].tdr) <= 1
      BY DEF TypeInv, CardsTyped, CardTyped
<1>2. console.byte \in Seq(Keys \cup {CtrlA})
  <2>1. console.byte = <<>> \/ \E key \in Keys : console.byte = <<key>>
        BY DEF TypeInv, ConsoleTyped
  <2>2. <<>> \in Seq(Keys \cup {CtrlA}) /\ \A key \in Keys : <<key>> \in Seq(Keys \cup {CtrlA})
        OBVIOUS
  <2>. QED BY <2>1, <2>2
<1>3. keyboard \in Seq(Keys \cup {CtrlA})
      BY DEF TypeInv, KeyboardTyped
<1>4. cards[Area].tdr \in Seq(Keys \cup {CtrlA})
      BY <1>1
<1>5. Pending = cards[Area].tdr \o console.byte \o keyboard
      BY DEF Pending
<1>. QED BY <1>1, <1>2, <1>3, <1>4, <1>5

LEMMA ConsoleKeyStep ==
  ASSUME TypeInv, RunConsole, Area \in Slots, console.pc # "open", console'.pc # "idle"
  PROVE  KeyStep
<1> DEFINE W == Keys \cup {CtrlA}
           t == cards[Area].tdr
           b == console.byte
<1>0. /\ t \in Seq(W) /\ b \in Seq(W) /\ keyboard \in Seq(W)
      /\ Pending = t \o b \o keyboard
      /\ ConsoleTyped /\ CardsTyped
      BY PendingParts DEF TypeInv
<1>1. CASE Select /\ transfer_byte /\ Head(keyboard) # CtrlA
  <2>1. keyboard # <<>> /\ keyboard' = Tail(keyboard) /\ b = <<>> /\ UNCHANGED cards
        BY <1>0, <1>1 DEF Select, transfer_byte, ConsoleTyped, Area
  <2>2. console'.byte = <<Head(keyboard)>> /\ console'.card = Area
        BY <1>0, <1>1 DEF transfer_byte, ConsoleTyped, Area
  <2>3. Pending' = t \o <<Head(keyboard)>> \o Tail(keyboard)
        BY <2>1, <2>2 DEF Pending, Area
  <2>4. Pending' = Pending
    <3>1. t \o <<Head(keyboard)>> \o Tail(keyboard) = t \o b \o keyboard
      <4> HIDE DEF W, t, b
      <4>. QED BY <1>0, <2>1, PartMoves
    <3>. QED BY <1>0, <2>3, <3>1
  <2>. QED BY <2>4 DEF KeyStep
<1>2. CASE Select /\ transfer_byte /\ Head(keyboard) = CtrlA
  <2>1. keyboard # <<>> /\ keyboard' = Tail(keyboard) /\ b = <<>> /\ UNCHANGED cards
        BY <1>0, <1>2 DEF Select, transfer_byte, ConsoleTyped, Area
  <2>2. console'.byte = <<>> /\ console'.card = Area /\ console'.need_exit
        BY <1>0, <1>2, <2>1 DEF transfer_byte, ConsoleTyped, Area
  <2>3. Pending' = t \o <<>> \o Tail(keyboard)
        BY <2>1, <2>2 DEF Pending, Area
  <2>4. Tail(keyboard) \in Seq(W) /\ <<>> \in Seq(W)
        BY <1>0, <2>1
  <2>5. Pending' = t \o Tail(keyboard)
        BY <1>0, <2>3, <2>4, PartMoves
  <2>. QED BY <1>2, <2>1, <2>2, <2>5 DEF KeyStep
<1>3. CASE Select /\ ~transfer_byte
  <2>1. UNCHANGED <<cards, keyboard>>
        BY <1>3 DEF Select, TerminalGone
  <2>2. console'.byte = b /\ console'.card = Area
        BY <1>0, <1>3 DEF Select, TerminalGone, ConsoleTyped, Area
  <2>. QED BY <2>1, <2>2 DEF KeyStep, Pending, Area
<1>4. CASE vuart_tx
  <2>1. t = <<>> /\ UNCHANGED keyboard
        BY <1>4 DEF vuart_tx
  <2>2. console'.byte = <<>> /\ console'.card = Area
        BY <1>0, <1>4 DEF vuart_tx, ConsoleTyped, Area
  <2>3. cards'[Area].tdr = b
        BY <1>0, <1>4 DEF vuart_tx, CardsTyped, CardTyped, CardShape, Area
  <2>4. Pending' = b \o <<>> \o keyboard
        BY <2>1, <2>2, <2>3 DEF Pending, Area
  <2>5. Pending' = Pending
        BY <1>0, <2>1, <2>4, PartMoves
  <2>. QED BY <2>5 DEF KeyStep
<1>5. CASE vuart_rx
  <2>1. cards'[Area].tdr = t
        BY <1>0, <1>5 DEF vuart_rx, CardsTyped, CardTyped, CardShape, Area
  <2>2. Pending' = Pending
        BY <1>5, <2>1, KeysUndisturbed DEF vuart_rx
  <2>. QED BY <2>2 DEF KeyStep
<1>6. CASE NothingToPrint
  <2>1. UNCHANGED <<cards, keyboard>>
        BY <1>6 DEF NothingToPrint
  <2>2. console'.byte = b /\ console'.card = Area
        BY <1>0, <1>6 DEF NothingToPrint, ConsoleTyped, ConsoleEnds, NoConsole, Area
  <2>. QED BY <2>1, <2>2 DEF KeyStep, Pending, Area
<1>7. CASE ConsoleOpen \/ ConsoleSegfault
      BY <1>7, SlotsAssumption DEF ConsoleOpen, ConsoleSegfault
<1>. QED BY <1>1, <1>2, <1>3, <1>4, <1>5, <1>6, <1>7 DEF RunConsole, ConsoleNext

LEMMA KeysKept ==
  ASSUME TypeInv, [Next]_hvars PROVE [KeyStep]_hvars
<1> SUFFICES ASSUME Running, console.pc # "open", Area \in Slots, console'.pc # "idle",
                    Next
             PROVE  KeyStep
    BY DEF KeyStep
<1>0. fwloader.pc = "idle"
      BY DEF TypeInv, NoConsoleThen
<1>1. CASE Insmod
      BY <1>1 DEF Insmod, KeyStep, Pending, Area
<1>2. CASE FwLoad
      BY <1>0, <1>2 DEF FwLoad, Quiet, FwNext, FwOpen, spec_load_bitstream
<1>3. CASE StartLoader
  <2>1. UNCHANGED <<cards, console, keyboard>>
        BY <1>3 DEF StartLoader, LoaderStart
  <2>. QED BY <2>1 DEF KeyStep, Pending, Area
<1>4. CASE StartConsole
      BY <1>4 DEF StartConsole, ConsoleStart
<1>5. CASE RunConsole
      BY <1>5, ConsoleKeyStep
<1>6. CASE Type
  <2>1. PICK key \in Keys \cup {CtrlA} : Types(key)
        BY <1>6 DEF Type
  <2>2. Pending' = cards[Area].tdr \o console.byte \o Append(keyboard, key)
        BY <2>1 DEF Types, Pending, Area
  <2>3. Append(Pending, key) = cards[Area].tdr \o console.byte \o Append(keyboard, key)
    <3> DEFINE W == Keys \cup {CtrlA}
               t == cards[Area].tdr
               b == console.byte
    <3>1. t \in Seq(W) /\ b \in Seq(W) /\ keyboard \in Seq(W)
          BY PendingParts
    <3>2. key \in W
          OBVIOUS
    <3> HIDE DEF W, t, b
    <3>3. t \o b \o Append(keyboard, key) = Append(t \o b \o keyboard, key)
      <4>1. KeyLast(t, b, keyboard, key)
            BY <3>1, <3>2, KeyJoinsLast
      <4>. QED BY <4>1 DEF KeyLast
    <3>. QED BY <3>3, PendingParts DEF t, b
  <2>. QED BY <2>2, <2>3 DEF KeyStep
<1>7. CASE Kill
  <2>1. CASE ConsoleKilled
    <3>1. console' = NoConsole
          BY <2>1 DEF ConsoleKilled, ConsoleEnds
    <3>2. NoConsole.pc = "idle"
          BY Zenon DEF NoConsole
    <3>. QED BY <3>1, <3>2, Zenon
  <2>2. CASE ~ConsoleKilled
        BY <1>7, <2>2 DEF Kill, LoaderKilled, KeyStep, Pending, Area
  <2>. QED BY <2>1, <2>2
<1>8. ASSUME NEW p \in Loaders, Load(p) PROVE KeyStep
  <2>1. UNCHANGED <<console, keyboard>>
        BY <1>8 DEF Load
  <2>2. Pending' = Pending
        BY <1>8, <2>1, LoadersLeaveKeys, KeysUndisturbed
  <2>. QED BY <2>2 DEF KeyStep
<1>9. ASSUME NEW slot \in Slots, CardStops(slot) \/ CardTakes(slot) \/ CardTalks(slot)
      PROVE  KeyStep
  <2>0. /\ UNCHANGED <<console, keyboard>>
        /\ CardShape(cards[Area]) /\ Area \in DOMAIN cards
        BY <1>9 DEF CardStops, CardTakes, CardTalks, Untouched, TypeInv, CardsTyped,
                    CardTyped
  <2>1. CASE cards'[Area].tdr = cards[Area].tdr
        BY <2>0, <2>1, KeysUndisturbed DEF KeyStep
  <2>2. CASE CardTakes(slot) /\ slot = Area
    <3>1. cards[Area].tdr # <<>> /\ cards'[Area].tdr = <<>>
          BY <2>0, <2>2 DEF CardTakes, TakesByte, CardShape, Area
    <3>2. Pending' = <<>> \o console.byte \o keyboard
          BY <2>0, <3>1 DEF Pending, Area
    <3>3. Pending # <<>> /\ Pending' = Tail(Pending)
      <4> DEFINE W == Keys \cup {CtrlA}
                 t == cards[Area].tdr
                 b == console.byte
      <4>1. /\ t \in Seq(W) /\ Len(t) <= 1
            /\ b \in Seq(W) /\ keyboard \in Seq(W)
            BY PendingParts
      <4>2. t # <<>>
            BY <3>1
      <4> HIDE DEF W, t, b
      <4>3. t \o b \o keyboard # <<>> /\ <<>> \o b \o keyboard = Tail(t \o b \o keyboard)
        <5>1. HeadGoes(t, b, keyboard)
              BY <4>1, <4>2, FirstKeyGoes
        <5>. QED BY <5>1 DEF HeadGoes
      <4>. QED BY <3>2, <4>3, PendingParts DEF t, b
    <3>. QED BY <3>1, <3>3 DEF KeyStep
  <2>3. CASE ~(CardTakes(slot) /\ slot = Area)
        BY <1>9, <2>0, <2>1, <2>3
        DEF CardStops, Stops, CardTakes, TakesByte, CardTalks, Talks, CardShape
  <2>. QED BY <2>2, <2>3
<1>. QED BY <1>1, <1>2, <1>3, <1>4, <1>5, <1>6, <1>7, <1>8, <1>9 DEF Next

(* No key is lost, repeated or overtaken on its way to the processor, with *)
(* any number of loaders at work on its card (spec-vuart.c:64-92,          *)
(* speclib.c:146-151). *)
THEOREM KeysStayInOrder == Spec => KeysReachCpuInOrder
<1>1. TypeInv /\ [Next]_hvars => [KeyStep]_hvars
      BY KeysKept
<1>. QED BY <1>1, TypeInvariant, PTL DEF Spec, KeysReachCpuInOrder

-----------------------------------------------------------------------------
(* What the loader has established at each of its steps, for the theorems  *)
(* about what it loads. *)

(* What a word of memory can be. *)
Contents == STRING \cup {"boot", "damaged"}

CardsOK == /\ cards = [slot \in Slots |-> cards[slot]]
           /\ \A slot \in Slots : /\ CardShape(cards[slot])
                               /\ cards[slot].mem \in [1 .. MemSize -> Contents]

Loading(p) == loader[p].pc \in {"halt", "wait", "write", "verify", "release"}

LoadersOK == /\ loader = [p \in Loaders |-> loader[p]]
             /\ \A p \in Loaders :
                  /\ LoaderShape(loader[p])
                  /\ Loading(p) => /\ loader[p].file \in Files
                                   /\ loader[p].i \in 0 .. Len(loader[p].file) - 1

(* The first n words of the card's memory are those of the file. *)
Holds(mem, f, n) == \A j \in 1 .. n : mem[j] = f[j]

(* From the moment the processor has stopped the loader knows it is        *)
(* stopped, and how much of the memory it has found to be right.           *)
Progress ==
  \A p \in Loaders : loader[p].card \in Slots =>
    LET c == cards[loader[p].card]
        f == loader[p].file
    IN  /\ loader[p].pc \in {"write", "verify", "release"} => c.cpu = "stopped"
        /\ loader[p].pc = "verify" => Holds(c.mem, f, loader[p].i)
        /\ loader[p].pc = "release" => Holds(c.mem, f, Len(f))

(* spec-fwloader has the computer for itself. *)
Alone == fwloader.pc # "idle" => \A p \in Loaders : ~Active(p)

(* A processor that is not stopped has a whole firmware. *)
Whole(c) == \E f \in Files \cup {BootFirmware} : Holds(c.mem, f, Len(f))
AllWhole == \A slot \in Slots : cards[slot].cpu # "stopped" => Whole(cards[slot])

HostInv == CardsOK /\ LoadersOK /\ Progress /\ Alone /\ AllWhole

(* The step leaves memories, processors and loaders as they are. *)
Apart == /\ cards' = [slot \in Slots |-> cards'[slot]]
         /\ \A slot \in Slots : /\ CardShape(cards'[slot])
                             /\ cards'[slot].cpu = cards[slot].cpu
                             /\ cards'[slot].mem = cards[slot].mem
         /\ UNCHANGED loader

-----------------------------------------------------------------------------
(* What the UART holds is no concern of the invariant. *)
LEMMA UartIsApart ==
  ASSUME CardsOK, NEW slot, NEW v, UNCHANGED loader,
         \/ cards' = [cards EXCEPT ![slot].tdr = v]
         \/ cards' = [cards EXCEPT ![slot].fifo = v]
  PROVE  Apart
<1>1. ASSUME NEW u \in Slots
      PROVE  /\ CardShape(cards'[u])
             /\ cards'[u].cpu = cards[u].cpu /\ cards'[u].mem = cards[u].mem
  <2>1. CardShape(cards[u]) /\ u \in DOMAIN cards
        BY DEF CardsOK
  <2>2. CASE u # slot
        BY <2>1, <2>2
  <2>3. CASE u = slot
        BY <2>1, <2>3 DEF CardShape
  <2>. QED BY <2>2, <2>3
<1>2. cards' = [u \in Slots |-> cards'[u]]
      BY DEF CardsOK
<1>. QED BY <1>1, <1>2 DEF Apart

(* The console, the cards and insmod leave alone what the invariant is     *)
(* about.                                                                  *)
LEMMA ConsoleIsApart ==
  ASSUME HostInv, RunConsole \/ StartConsole \/ Type PROVE Apart
<1>0. UNCHANGED loader
      BY DEF RunConsole, StartConsole, Type
<1>1. CASE cards' = cards
      BY <1>0, <1>1 DEF HostInv, CardsOK, Apart
<1>2. CASE vuart_tx
      BY <1>0, <1>2, UartIsApart DEF vuart_tx, HostInv
<1>3. CASE vuart_rx
      BY <1>0, <1>3, UartIsApart DEF vuart_rx, HostInv
<1>4. cards' = cards \/ vuart_tx \/ vuart_rx
      BY DEF RunConsole, ConsoleNext, StartConsole, Type, ConsoleOpen, Select,
             ConsoleSegfault, NothingToPrint, ConsoleStart, Types
<1>. QED BY <1>1, <1>2, <1>3, <1>4

(* So do the processors, but for stopping. *)
LEMMA CardIsApart ==
  ASSUME HostInv, NEW slot \in Slots, CardTakes(slot) \/ CardTalks(slot) PROVE Apart
<1>1. UNCHANGED loader
      BY DEF CardTakes, CardTalks, Untouched
<1>. QED BY <1>1, UartIsApart DEF HostInv, CardTakes, CardTalks, TakesByte, Talks

(* A step apart keeps the invariant. *)
LEMMA ApartKeeps ==
  ASSUME HostInv, Apart, UNCHANGED fwloader PROVE HostInv'
<1>1. CardsOK'
      BY DEF HostInv, CardsOK, Apart
<1>2. LoadersOK' /\ Alone'
      BY DEF HostInv, LoadersOK, Loading, LoaderShape, Alone, Active, Apart
<1>3. Progress'
      BY DEF HostInv, Progress, Holds, Apart
<1>4. AllWhole'
      BY DEF HostInv, AllWhole, Whole, Apart, Holds
<1>. QED BY <1>1, <1>2, <1>3, <1>4 DEF HostInv

(* A processor that stops takes nothing from what the loader knows. *)
LEMMA StopKeeps ==
  ASSUME HostInv, NEW slot \in Slots, CardStops(slot) PROVE HostInv'
<1>1. UNCHANGED <<loader, fwloader>>
      BY DEF CardStops, Untouched
<1>2. cards' = [cards EXCEPT ![slot].cpu = "stopped"]
      BY DEF CardStops, Stops
<1>3. ASSUME NEW u \in Slots
      PROVE  /\ CardShape(cards'[u]) /\ cards'[u].mem = cards[u].mem
             /\ cards'[u].cpu = cards[u].cpu \/ cards'[u].cpu = "stopped"
  <2>1. CardShape(cards[u]) /\ u \in DOMAIN cards
        BY DEF HostInv, CardsOK
  <2>2. CASE u # slot
        BY <1>2, <2>1, <2>2
  <2>3. CASE u = slot
        BY <1>2, <2>1, <2>3 DEF CardShape
  <2>. QED BY <2>2, <2>3
<1>4. CardsOK'
      BY <1>2, <1>3 DEF HostInv, CardsOK
<1>5. LoadersOK' /\ Alone'
      BY <1>1 DEF HostInv, LoadersOK, Loading, LoaderShape, Alone, Active
<1>6. Progress'
      BY <1>1, <1>3 DEF HostInv, Progress, Holds
<1>7. AllWhole'
      BY <1>3 DEF HostInv, AllWhole, Whole, Holds
<1>. QED BY <1>4, <1>5, <1>6, <1>7 DEF HostInv

(* A card whose FPGA was configured runs the firmware of its bitstream. *)
LEMMA BootIsWhole ==
  /\ \A c \in {Configured, Blank} :
       /\ CardShape(c) /\ c.mem \in [1 .. MemSize -> Contents]
       /\ Whole(c)
<1>1. BootFirmware \in [1 .. MemSize -> Contents]
      BY DEF BootFirmware, Contents
<1>2. Holds(BootFirmware, BootFirmware, Len(BootFirmware))
      BY DEF Holds
<1>3. \A c \in {Configured, Blank} : c.mem = BootFirmware /\ CardShape(c)
      BY DEF Configured, Blank, Card, CardShape
<1>. QED BY <1>1, <1>2, <1>3 DEF Whole

(* spec-fwloader writes over the whole card, when no loader holds it. *)
LEMMA FwKeeps ==
  ASSUME HostInv, FwLoad PROVE HostInv'
<1>1. UNCHANGED loader
      BY DEF FwLoad, FwStart, FwNext, FwOpen, spec_load_bitstream
<1>2. \A p \in Loaders : ~Active(p)
      BY DEF FwLoad, Quiet, BusyLoaders, FwNext, FwOpen, spec_load_bitstream,
             HostInv, Alone
<1>3. ASSUME NEW u \in Slots
      PROVE  \/ cards'[u] = cards[u]
             \/ cards'[u] \in {Configured, Blank}
      BY DEF FwLoad, FwStart, FwNext, FwOpen, spec_load_bitstream, HostInv, CardsOK
<1>4. cards' = [u \in Slots |-> cards'[u]]
      BY DEF FwLoad, FwStart, FwNext, FwOpen, spec_load_bitstream, HostInv, CardsOK
<1>5. CardsOK'
      BY <1>3, <1>4, BootIsWhole DEF HostInv, CardsOK
<1>6. LoadersOK' /\ Alone'
      BY <1>1, <1>2 DEF HostInv, LoadersOK, Loading, LoaderShape, Alone, Active
<1>7. Progress'
      BY <1>1, <1>2 DEF Progress, Active, Ended
<1>8. AllWhole'
      BY <1>3, BootIsWhole DEF HostInv, AllWhole, Whole
<1>. QED BY <1>5, <1>6, <1>7, <1>8 DEF HostInv

-----------------------------------------------------------------------------
(* The loaders are one: what holds of the one that moves holds of all.     *)
OneLoader == \A p, q \in Loaders : p = q

(* What a loader must have made sure of. *)
LoaderDue(l, cs) ==
  /\ LoaderShape(l)
  /\ l.pc \in {"halt", "wait", "write", "verify", "release"} =>
       l.file \in Files /\ l.i \in 0 .. Len(l.file) - 1
  /\ l.card \in Slots =>
       /\ l.pc \in {"write", "verify", "release"} => cs[l.card].cpu = "stopped"
       /\ l.pc = "verify" => Holds(cs[l.card].mem, l.file, l.i)
       /\ l.pc = "release" => Holds(cs[l.card].mem, l.file, Len(l.file))

(* A step of the loader keeps the invariant if it keeps the cards' part    *)
(* and does not stop short of what it has to do. *)
LEMMA LoaderCardKeeps ==
  ASSUME HostInv, OneLoader, NEW p \in Loaders, NEW l,
         UNCHANGED fwloader, CardsOK', AllWhole',
         loader' = [loader EXCEPT ![p] = l],
         l.pc \notin Ended => fwloader.pc = "idle",
         LoaderDue(l, cards')
  PROVE  HostInv'
<1>1. loader' = [q \in Loaders |-> l]
      BY DEF OneLoader, HostInv, LoadersOK
<1>3. LoadersOK'
      BY <1>1 DEF LoadersOK, Loading, LoaderShape, LoaderDue
<1>4. Progress'
      BY <1>1 DEF Progress, LoaderDue
<1>5. Alone'
      BY <1>1 DEF Alone, Active
<1>. QED BY <1>3, <1>4, <1>5 DEF HostInv

LEMMA LoaderStepKeeps ==
  ASSUME HostInv, OneLoader, NEW p \in Loaders, NEW l,
         UNCHANGED <<cards, fwloader>>,
         loader' = [loader EXCEPT ![p] = l],
         l.pc \notin Ended => fwloader.pc = "idle",
         LoaderDue(l, cards)
  PROVE  HostInv'
<1>1. CardsOK' /\ AllWhole'
      BY DEF HostInv, CardsOK, AllWhole, Whole, Holds
<1>. QED BY <1>1, LoaderCardKeeps

(* A program that ended holds nothing; nor does one that starts. *)
LEMMA EndKeeps ==
  ASSUME HostInv, OneLoader, NEW p \in Loaders, NEW how \in Ended,
         UNCHANGED <<cards, fwloader>>, loader' = [loader EXCEPT ![p] = End(how)]
  PROVE  HostInv'
<1>1. LoaderShape(End(how)) /\ End(how).pc = how
      BY DEF End, At, LoaderShape
<1>2. LoaderDue(End(how), cards)
      BY <1>1 DEF Ended, LoaderDue
<1>. QED BY <1>1, <1>2, LoaderStepKeeps

LEMMA StartKeeps ==
  ASSUME HostInv, OneLoader, StartLoader PROVE HostInv'
<1>1. PICK p \in Loaders, req \in LoadRequests : LoaderStart(p, req)
      BY DEF StartLoader
<1>2. loader' = [loader EXCEPT ![p] = At("open", req, NoHandle, NULL)]
      BY <1>1 DEF LoaderStart
<1>3. fwloader.pc = "idle" /\ UNCHANGED <<cards, fwloader>>
      BY <1>1 DEF StartLoader, Ready, LoaderStart
<1>. DEFINE l == At("open", req, NoHandle, NULL)
<1>4. l.pc = "open" /\ LoaderDue(l, cards)
      BY AtFields DEF LoaderDue
<1>. QED BY <1>2, <1>3, <1>4, LoaderStepKeeps

(* What the invariant says of a loader about to move. *)
LEMMA LoaderNow ==
  ASSUME HostInv, NEW p \in Loaders, Active(p)
  PROVE  LoaderShape(loader[p]) /\ fwloader.pc = "idle" /\ p \in DOMAIN loader
BY DEF HostInv, LoadersOK, Alone

(* Memory is written and nothing else. *)
LEMMA Rewritten ==
  ASSUME NEW c, CardShape(c), NEW m
  PROVE  LET d == [c EXCEPT !.mem = m]
         IN  CardShape(d) /\ d.mem = m /\ d.cpu = c.cpu
BY DEF CardShape

LEMMA OpenKeeps ==
  ASSUME HostInv, OneLoader, NEW p \in Loaders, LoaderOpen(p), UNCHANGED fwloader
  PROVE  HostInv'
<1>1. PICK h \in spec_open(loader[p].req), buf \in load_binary_file :
        loader' = [loader EXCEPT ![p] =
                     IF h = NoHandle THEN End("no_card")
                     ELSE IF buf = NULL THEN End("failed")
                     ELSE At("halt", loader[p].req, h, buf)]
      BY DEF LoaderOpen
<1>2. CASE h = NoHandle \/ buf = NULL
  <2>1. PICK how \in Ended : loader' = [loader EXCEPT ![p] = End(how)]
        BY <1>1, <1>2 DEF Ended
  <2>. QED BY <2>1, EndKeeps DEF LoaderOpen
<1>3. CASE ~(h = NoHandle \/ buf = NULL)
  <2>1. Active(p)
        BY DEF LoaderOpen, Active, Ended
  <2>2. buf \in Files /\ 0 \in 0 .. Len(buf) - 1
        BY <1>3, FileFits DEF load_binary_file
  <2>. DEFINE l == At("halt", loader[p].req, h, buf)
  <2>3. loader' = [loader EXCEPT ![p] = l]
        BY <1>1, <1>3
  <2>4. LoaderShape(l) /\ l.pc = "halt" /\ l.file = buf /\ l.i = 0
        BY AtFields
  <2>5. fwloader.pc = "idle" /\ UNCHANGED <<cards, fwloader>>
        BY <2>1, LoaderNow DEF LoaderOpen
  <2>6. LoaderDue(l, cards)
        BY <2>2, <2>4 DEF LoaderDue
  <2>. HIDE DEF l
  <2>. QED BY <2>3, <2>4, <2>5, <2>6, LoaderStepKeeps
<1>. QED BY <1>2, <1>3

(* The write that stops the processor, and its answer. *)
LEMMA HaltKeeps ==
  ASSUME HostInv, OneLoader, NEW p \in Loaders, Halt(p), UNCHANGED fwloader
  PROVE  HostInv'
<1>. DEFINE l == [loader[p] EXCEPT !.pc = "wait"]
<1>1. Active(p) /\ loader[p].pc = "halt"
      BY DEF Halt, Active, Ended
<1>2. /\ LoaderShape(l) /\ l.pc = "wait"
      /\ l.file = loader[p].file /\ l.i = loader[p].i /\ l.card = loader[p].card
      BY <1>1, LoaderNow, MovedFields
<1>3. l.file \in Files /\ l.i \in 0 .. Len(l.file) - 1
      BY <1>1, <1>2 DEF HostInv, LoadersOK, Loading
<1>4. loader' = [q \in Loaders |-> l]
      BY DEF Halt, Goto, HostInv, LoadersOK, OneLoader
<1>. HIDE DEF l
<1>5. LoadersOK' /\ Progress'
      BY <1>2, <1>3, <1>4 DEF LoadersOK, Loading, LoaderShape, Progress
<1>6. Alone'
      BY <1>1, LoaderNow DEF Alone
<1>7. ASSUME NEW u \in Slots
      PROVE  /\ CardShape(cards'[u]) /\ cards'[u].mem = cards[u].mem
             /\ cards'[u].cpu # "stopped" => cards[u].cpu # "stopped"
  <2>1. CardShape(cards[u]) /\ u \in DOMAIN cards
        BY DEF HostInv, CardsOK
  <2>2. CASE u # loader[p].card
        BY <2>1, <2>2 DEF Halt
  <2>3. CASE u = loader[p].card
    <3>1. cards' = [cards EXCEPT ![loader[p].card].cpu = IF @ = "running" THEN "stopping"
                                                         ELSE @]
          BY Zenon DEF Halt
    <3>2. cards' = [cards EXCEPT ![u].cpu = IF @ = "running" THEN "stopping" ELSE @]
          BY <2>3, <3>1, Zenon
    <3>. QED BY <2>1, <3>2 DEF CardShape
  <2>. QED BY <2>2, <2>3
<1>8. CardsOK'
      BY <1>7 DEF Halt, HostInv, CardsOK
<1>9. AllWhole'
      BY <1>7 DEF HostInv, AllWhole, Whole, Holds
<1>. QED BY <1>5, <1>6, <1>8, <1>9 DEF HostInv

LEMMA WaitKeeps ==
  ASSUME HostInv, OneLoader, NEW p \in Loaders, WaitHalted(p), UNCHANGED fwloader
  PROVE  HostInv'
<1>. DEFINE l == [loader[p] EXCEPT !.pc = "write"]
<1>1. Active(p) /\ loader[p].pc = "wait"
      BY DEF WaitHalted, Active, Ended
<1>2. /\ LoaderShape(l) /\ l.pc = "write"
      /\ l.file = loader[p].file /\ l.i = loader[p].i /\ l.card = loader[p].card
      BY <1>1, LoaderNow, MovedFields
<1>3. l.file \in Files /\ l.i \in 0 .. Len(l.file) - 1
      BY <1>1, <1>2 DEF HostInv, LoadersOK, Loading
<1>4. loader' = [loader EXCEPT ![p] = l] /\ UNCHANGED <<cards, fwloader>>
      BY DEF WaitHalted, Goto
<1>5. fwloader.pc = "idle" /\ cards[l.card].cpu = "stopped"
      BY <1>1, <1>2, LoaderNow DEF WaitHalted
<1>. HIDE DEF l
<1>6. LoaderDue(l, cards)
      BY <1>2, <1>3, <1>5 DEF LoaderDue
<1>. QED BY <1>4, <1>5, <1>6, LoaderStepKeeps

(* One word written: the processor of that card is stopped. *)
LEMMA WriteKeeps ==
  ASSUME HostInv, OneLoader, NEW p \in Loaders, WriteWord(p), UNCHANGED fwloader
  PROVE  HostInv'
<1>. DEFINE f == loader[p].file
            i == loader[p].i + 1
            slot == loader[p].card
            done == At("verify", loader[p].req, slot, f)
            on == [loader[p] EXCEPT !.i = i]
            l == IF i = Len(f) THEN done ELSE on
<1>1. Active(p) /\ loader[p].pc = "write"
      BY DEF WriteWord, Active, Ended
<1>2. f \in Files /\ i \in 1 .. Len(f)
      BY <1>1 DEF HostInv, LoadersOK, Loading
<1>3. i \in 1 .. MemSize /\ f[i] \in STRING
      BY <1>2, FileFits, SizesAssumption
<1>4. PICK w \in {f[i], "damaged"} : cards' = [cards EXCEPT ![slot].mem[i] = w]
      BY DEF WriteWord
<1>5. ASSUME NEW u \in Slots
      PROVE  /\ CardShape(cards'[u]) /\ cards'[u].mem \in [1 .. MemSize -> Contents]
             /\ cards'[u].cpu = cards[u].cpu
             /\ u # slot => cards'[u] = cards[u]
  <2>1. CardShape(cards[u]) /\ u \in DOMAIN cards
        BY DEF HostInv, CardsOK
  <2>2. cards[u].mem \in [1 .. MemSize -> Contents] /\ w \in Contents
        BY <1>3 DEF HostInv, CardsOK, Contents
  <2>3. CASE u # slot
        BY <1>4, <2>1, <2>2, <2>3
  <2>4. CASE u = slot
    <3>. DEFINE m == [cards[u].mem EXCEPT ![i] = w]
    <3>1. cards'[u] = [cards[u] EXCEPT !.mem = m]
          BY <1>4, <2>1, <2>4
    <3>2. m \in [1 .. MemSize -> Contents]
          BY <2>2
    <3>. HIDE DEF m
    <3>. QED BY <2>1, <2>4, <3>1, <3>2, Rewritten
  <2>. QED BY <2>3, <2>4
<1>6. CardsOK'
  <2>1. cards = [u \in Slots |-> cards[u]]
        BY Zenon DEF HostInv, CardsOK
  <2>2. cards' = [u \in Slots |-> cards'[u]]
        BY <1>4, <2>1
  <2>. QED BY <1>5, <2>2 DEF CardsOK
<1>7. slot \in Slots => cards[slot].cpu = "stopped"
      BY <1>1 DEF HostInv, Progress
<1>8. AllWhole'
      BY <1>5, <1>7 DEF HostInv, AllWhole
<1>9. loader' = [loader EXCEPT ![p] = l]
      BY DEF WriteWord
<1>10. LoaderDue(done, cards')
  <2>1. LoaderShape(done) /\ done.pc = "verify" /\ done.file = f /\ done.i = 0
        /\ done.card = slot
        BY AtFields
  <2>2. 0 \in 0 .. Len(f) - 1
        BY <1>2, FileFits
  <2>. HIDE DEF done
  <2>. QED BY <1>2, <1>5, <1>7, <2>1, <2>2 DEF LoaderDue, Holds
<1>11. ASSUME i # Len(f) PROVE LoaderDue(on, cards')
  <2>1. /\ LoaderShape(on) /\ on.pc = "write" /\ on.file = f /\ on.i = i
        /\ on.card = slot
        BY <1>1, LoaderNow, MovedFields
  <2>2. i \in 0 .. Len(f) - 1
        BY <1>2, <1>11, FileFits
  <2>. HIDE DEF on
  <2>. QED BY <1>2, <1>5, <1>7, <2>1, <2>2 DEF LoaderDue
<1>12. LoaderDue(l, cards')
      BY <1>10, <1>11
<1>. HIDE DEF l
<1>. QED BY <1>1, <1>6, <1>8, <1>9, <1>12, LoaderNow, LoaderCardKeeps

(* One word read back. *)
LEMMA VerifyKeeps ==
  ASSUME HostInv, OneLoader, NEW p \in Loaders, VerifyWord(p), UNCHANGED fwloader
  PROVE  HostInv'
<1>. DEFINE f == loader[p].file
            i == loader[p].i + 1
            slot == loader[p].card
            done == At("release", loader[p].req, slot, f)
            on == [loader[p] EXCEPT !.i = i]
<1>1. Active(p) /\ loader[p].pc = "verify"
      BY DEF VerifyWord, Active, Ended
<1>2. f \in Files /\ i \in 1 .. Len(f) /\ loader[p].i \in Nat
      BY <1>1 DEF HostInv, LoadersOK, Loading
<1>3. slot \in Slots => cards[slot].cpu = "stopped" /\ Holds(cards[slot].mem, f, i - 1)
      BY <1>1, <1>2 DEF HostInv, Progress
<1>4. UNCHANGED <<cards, fwloader>> /\ fwloader.pc = "idle"
      BY <1>1, LoaderNow DEF VerifyWord
<1>5. CASE cards[slot].mem[i] # f[i]
  <2>1. loader' = [loader EXCEPT ![p] = End("failed")]
        BY <1>5 DEF VerifyWord
  <2>. QED BY <1>4, <2>1, EndKeeps DEF Ended
<1>6. ASSUME cards[slot].mem[i] = f[i], slot \in Slots PROVE Holds(cards[slot].mem, f, i)
      BY <1>2, <1>3, <1>6 DEF Holds
<1>7. CASE cards[slot].mem[i] = f[i] /\ i = Len(f)
  <2>1. loader' = [loader EXCEPT ![p] = done]
        BY <1>7 DEF VerifyWord
  <2>2. LoaderShape(done) /\ done.pc = "release" /\ done.file = f /\ done.i = 0
        /\ done.card = slot
        BY AtFields
  <2>3. 0 \in 0 .. Len(f) - 1
        BY <1>2, FileFits
  <2>. HIDE DEF done
  <2>4. LoaderDue(done, cards)
        BY <1>2, <1>3, <1>6, <1>7, <2>2, <2>3 DEF LoaderDue
  <2>. QED BY <1>4, <2>1, <2>4, LoaderStepKeeps
<1>8. CASE cards[slot].mem[i] = f[i] /\ i # Len(f)
  <2>1. loader' = [loader EXCEPT ![p] = on]
        BY <1>8 DEF VerifyWord
  <2>2. /\ LoaderShape(on) /\ on.pc = "verify" /\ on.file = f /\ on.i = i
        /\ on.card = slot
        BY <1>1, LoaderNow, MovedFields
  <2>3. i \in 0 .. Len(f) - 1
        BY <1>2, <1>8, FileFits
  <2>. HIDE DEF on
  <2>4. LoaderDue(on, cards)
        BY <1>2, <1>3, <1>6, <1>8, <2>2, <2>3 DEF LoaderDue
  <2>. QED BY <1>4, <2>1, <2>4, LoaderStepKeeps
<1>. QED BY <1>5, <1>7, <1>8

(* The processor is released: here the whole file has been found.          *)
LEMMA ReleaseKeeps ==
  ASSUME HostInv, OneLoader, NEW p \in Loaders, Release(p), UNCHANGED fwloader
  PROVE  HostInv'
<1>. DEFINE slot == loader[p].card
            l == End("done")
<1>1. Active(p) /\ loader[p].pc = "release"
      BY DEF Release, Active, Ended
<1>2. slot \in Slots => Whole(cards[slot])
      BY <1>1 DEF HostInv, Progress, LoadersOK, Loading, Whole
<1>3. ASSUME NEW u \in Slots
      PROVE  /\ CardShape(cards'[u]) /\ cards'[u].mem = cards[u].mem
             /\ u # slot => cards'[u] = cards[u]
  <2>1. CardShape(cards[u]) /\ u \in DOMAIN cards
        BY DEF HostInv, CardsOK
  <2>2. CASE u # slot
        BY <2>1, <2>2 DEF Release
  <2>3. CASE u = slot
        BY <2>1, <2>3 DEF Release, CardShape
  <2>. QED BY <2>2, <2>3
<1>4. CardsOK'
      BY <1>3 DEF Release, HostInv, CardsOK
<1>5. AllWhole'
  <2>1. ASSUME NEW u \in Slots, cards'[u].cpu # "stopped" PROVE Whole(cards'[u])
    <3>1. Whole(cards[u])
      <4>1. CASE u = slot
            BY <1>2, <4>1
      <4>2. CASE u # slot
            BY <1>3, <2>1, <4>2 DEF HostInv, AllWhole
      <4>. QED BY <4>1, <4>2
    <3>2. cards'[u].mem = cards[u].mem
          BY <1>3
    <3>. QED BY <3>1, <3>2 DEF Whole
  <2>. QED BY <2>1 DEF AllWhole
<1>6. loader' = [loader EXCEPT ![p] = l]
      BY DEF Release
<1>7. LoaderDue(l, cards') /\ l.pc \in Ended
      BY AtFields DEF LoaderDue, End, Ended
<1>. HIDE DEF l
<1>. QED BY <1>4, <1>5, <1>6, <1>7, LoaderCardKeeps

LEMMA LoadKeeps ==
  ASSUME HostInv, OneLoader, NEW p \in Loaders, Load(p) PROVE HostInv'
<1>1. UNCHANGED fwloader
      BY DEF Load, LoaderNext, LoaderOpen, Segfault, Halt, WaitHalted, WriteWord,
             VerifyWord, Release
<1>2. CASE Segfault(p)
      BY <1>1, <1>2, EndKeeps DEF Segfault, Ended
<1>3. CASE ~Segfault(p)
      BY <1>1, <1>3, OpenKeeps, HaltKeeps, WaitKeeps, WriteKeeps, VerifyKeeps,
         ReleaseKeeps DEF Load, LoaderNext
<1>. QED BY <1>2, <1>3

LEMMA KillKeeps ==
  ASSUME HostInv, OneLoader, Kill PROVE HostInv'
<1>1. CASE \E p \in Loaders : LoaderKilled(p)
      BY <1>1, EndKeeps DEF LoaderKilled, Ended
<1>2. CASE ConsoleKilled /\ UNCHANGED <<driver, fwloader, loader>>
  <2>1. Apart
        BY <1>2 DEF ConsoleKilled, HostInv, CardsOK, Apart
  <2>. QED BY <1>2, <2>1, ApartKeeps
<1>. QED BY <1>1, <1>2 DEF Kill

-----------------------------------------------------------------------------
LEMMA HostInvInit ==
  ASSUME Init PROVE HostInv
<1>1. CardsOK
      BY BootIsWhole DEF Init, CardsOK
<1>2. \A p \in Loaders : /\ LoaderShape(loader[p]) /\ loader[p].pc = "idle"
                         /\ loader = [q \in Loaders |-> loader[q]]
      BY AtFields DEF Init, End
<1>3. LoadersOK /\ Progress
      BY <1>2, AtFields DEF LoadersOK, Loading, Progress, Init, End
<1>4. Alone
      BY AtFields DEF Alone, Init, End
<1>5. AllWhole
      BY BootIsWhole DEF Init, AllWhole
<1>. QED BY <1>1, <1>3, <1>4, <1>5 DEF HostInv

LEMMA HostInvInductive ==
  ASSUME HostInv, OneLoader, [Next]_hvars PROVE HostInv'
<1>1. CASE RunConsole \/ StartConsole \/ Type
      BY <1>1, ConsoleIsApart, ApartKeeps DEF RunConsole, StartConsole, Type
<1>2. CASE Insmod \/ UNCHANGED hvars
  <2>1. Apart /\ UNCHANGED fwloader
        BY <1>2 DEF Insmod, hvars, HostInv, CardsOK, Apart
  <2>. QED BY <2>1, ApartKeeps
<1>3. ASSUME NEW slot \in Slots, CardTakes(slot) \/ CardTalks(slot) PROVE HostInv'
      BY <1>3, CardIsApart, ApartKeeps DEF CardTakes, CardTalks, Untouched
<1>. QED BY <1>1, <1>2, <1>3, FwKeeps, StartKeeps, LoadKeeps, KillKeeps, StopKeeps
         DEF Next

(* A memory that holds a file has it as a prefix. *)
LEMMA HoldsIsPrefix ==
  ASSUME NEW mem \in [1 .. MemSize -> Contents], NEW f \in Seq(Contents),
         Len(f) <= MemSize, Holds(mem, f, Len(f))
  PROVE  IsPrefix(f, mem)
<1>1. mem \in Seq(Contents) /\ Len(mem) = MemSize
      BY SizesAssumption
<1>2. Len(SubSeq(f, 1, Len(f))) = Len(f) /\ Len(SubSeq(mem, 1, Len(f))) = Len(f)
      BY <1>1
<1>3. \A j \in 1 .. Len(f) : SubSeq(f, 1, Len(f))[j] = SubSeq(mem, 1, Len(f))[j]
      BY <1>1 DEF Holds
<1>4. SubSeq(f, 1, Len(f)) = SubSeq(mem, 1, Len(f))
      BY <1>1, <1>2, <1>3
<1>. QED BY <1>1, <1>4 DEF IsPrefix

LEMMA InvMeansWhole ==
  ASSUME HostInv PROVE CpuRunsWholeFirmware
<1>1. \A f \in Files \cup {BootFirmware} : f \in Seq(Contents) /\ Len(f) <= MemSize
  <2>1. \A f \in Files : f \in Seq(Contents) /\ Len(f) <= MemSize
        BY FileFits DEF Contents
  <2>2. BootFirmware \in Seq(Contents) /\ Len(BootFirmware) = MemSize
        BY SizesAssumption DEF BootFirmware, Contents
  <2>. QED BY <2>1, <2>2, SizesAssumption
<1>. QED BY <1>1, HoldsIsPrefix DEF HostInv, AllWhole, Whole, CardsOK,
                                    CpuRunsWholeFirmware

(* With one spec-cl at a time, a processor that runs (or is being stopped) *)
(* has the whole of one firmware in its memory, for every set of cards and *)
(* of files that fit, whatever memory does to the words written, and       *)
(* wherever spec-cl, spec-fwloader and spec-vuart are killed and started   *)
(* again (speclib.c:217-253).                                              *)
THEOREM FirmwareIsWhole ==
  ASSUME OneLoader PROVE Spec => []CpuRunsWholeFirmware
<1>1. Init => HostInv
      BY HostInvInit
<1>2. HostInv /\ [Next]_hvars => HostInv'
      BY HostInvInductive
<1>3. HostInv => CpuRunsWholeFirmware
      BY InvMeansWhole
<1>. QED BY <1>1, <1>2, <1>3, PTL DEF Spec

(* A file found whole in a memory is its beginning. *)
LEMMA FileIsPrefix ==
  ASSUME HostInv, NEW slot \in Slots, NEW f \in Files, Holds(cards[slot].mem, f, Len(f))
  PROVE  IsPrefix(f, cards[slot].mem)
<1>1. f \in Seq(Contents) /\ Len(f) <= MemSize
      BY FileFits DEF Contents
<1>2. cards[slot].mem \in [1 .. MemSize -> Contents]
      BY DEF HostInv, CardsOK
<1>. QED BY <1>1, <1>2, HoldsIsPrefix

(* Only the step that releases the processor ends with success. *)
LEMMA DoneMeansLoaded ==
  ASSUME TypeInv, HostInv, [Next]_hvars PROVE [DoneLoaded]_hvars
<1> SUFFICES ASSUME Next, NEW p \in Loaders,
                    loader[p].pc # "done", loader'[p].pc = "done"
             PROVE  \E slot \in Slots : /\ Meets(slot, loader[p].req)
                                     /\ IsPrefix(loader[p].file, cards'[slot].mem)
                                     /\ cards'[slot].cpu = "running"
    BY DEF DoneLoaded
<1>0. loader = [q \in Loaders |-> loader[q]] /\ \A q \in Loaders : LoaderShape(loader[q])
      BY DEF TypeInv, LoadersTyped, LoaderTyped
<1>1. CASE UNCHANGED loader
      BY <1>1
<1>2. ASSUME NEW q \in Loaders, NEW how \in {"no_card", "failed"},
             loader' = [loader EXCEPT ![q] = End(how)]
      PROVE  FALSE
  <2>1. End(how).pc = how
        BY AtFields DEF End
  <2>. QED BY <1>0, <1>2, <2>1
<1>3. ASSUME NEW q \in Loaders, NEW pc \in {"open", "halt", "verify", "release"},
             NEW req, NEW c, NEW f, loader' = [loader EXCEPT ![q] = At(pc, req, c, f)]
      PROVE  FALSE
  <2>1. At(pc, req, c, f).pc = pc
        BY AtFields
  <2>. QED BY <1>0, <1>3, <2>1
<1>4. ASSUME NEW q \in Loaders,
             \/ \E pc \in {"wait", "write"} : loader' = [loader EXCEPT ![q].pc = pc]
             \/ \E i : loader' = [loader EXCEPT ![q] = [loader[q] EXCEPT !.i = i]]
      PROVE  FALSE
  <2>1. CASE q # p
        BY <1>0, <1>4, <2>1
  <2>2. CASE q = p
        BY <1>0, <1>4, <2>2 DEF LoaderShape
  <2>. QED BY <2>1, <2>2
<1>5. ASSUME NEW q \in Loaders, Release(q)
      PROVE  \E slot \in Slots : /\ Meets(slot, loader[p].req)
                              /\ IsPrefix(loader[p].file, cards'[slot].mem)
                              /\ cards'[slot].cpu = "running"
  <2>1. q = p
        BY <1>0, <1>5 DEF Release
  <2> DEFINE slot == loader[p].card
             f == loader[p].file
  <2>2. slot \in Slots /\ f \in Files /\ Meets(slot, loader[p].req)
        BY <1>5, <2>1 DEF Release, TypeInv, LoadersTyped, LoaderTyped, HoldsRequested,
                          Ended
  <2>3. Holds(cards[slot].mem, f, Len(f))
        BY <1>5, <2>1, <2>2 DEF Release, HostInv, Progress
  <2>4. cards'[slot].mem = cards[slot].mem /\ cards'[slot].cpu = "running"
    <3>1. CardShape(cards[slot]) /\ slot \in DOMAIN cards
          BY <2>2 DEF HostInv, CardsOK
    <3>. QED BY <1>5, <2>1, <3>1 DEF Release, CardShape
  <2>5. IsPrefix(f, cards[slot].mem)
        BY <2>2, <2>3, FileIsPrefix
  <2>. QED BY <2>2, <2>4, <2>5
<1>6. ASSUME NEW q \in Loaders, Load(q)
      PROVE  \E slot \in Slots : /\ Meets(slot, loader[p].req)
                              /\ IsPrefix(loader[p].file, cards'[slot].mem)
                              /\ cards'[slot].cpu = "running"
  <2>1. CASE LoaderOpen(q)
    <3>1. PICK h \in spec_open(loader[q].req), buf \in load_binary_file :
             loader' = [loader EXCEPT ![q] =
                          IF h = NoHandle THEN End("no_card")
                          ELSE IF buf = NULL THEN End("failed")
                          ELSE At("halt", loader[q].req, h, buf)]
          BY <2>1 DEF LoaderOpen
    <3>2. CASE h = NoHandle
          BY <1>2, <3>1, <3>2
    <3>3. CASE h # NoHandle /\ buf = NULL
          BY <1>2, <3>1, <3>3
    <3>4. CASE h # NoHandle /\ buf # NULL
          BY <1>3, <3>1, <3>4
    <3>. QED BY <3>2, <3>3, <3>4
  <2>2. CASE Segfault(q)
        BY <1>2, <2>2 DEF Segfault
  <2>3. CASE Halt(q) \/ WaitHalted(q)
        BY <1>4, <2>3 DEF Halt, WaitHalted, Goto
  <2>4. CASE WriteWord(q)
        BY <1>3, <1>4, <2>4 DEF WriteWord
  <2>5. CASE VerifyWord(q)
        BY <1>2, <1>3, <1>4, <2>5 DEF VerifyWord
  <2>. QED BY <1>5, <1>6, <2>1, <2>2, <2>3, <2>4, <2>5 DEF Load, LoaderNext
<1>7. CASE StartLoader
      BY <1>3, <1>7 DEF StartLoader, LoaderStart
<1>8. CASE Kill
      BY <1>1, <1>2, <1>8 DEF Kill, LoaderKilled
<1>9. CASE Insmod \/ FwLoad \/ StartConsole \/ RunConsole \/ Type
      BY <1>1, <1>9 DEF Insmod, FwLoad, FwStart, FwNext, FwOpen, spec_load_bitstream,
                        StartConsole, RunConsole, Type
<1>10. CASE \E slot \in Slots : CardStops(slot) \/ CardTakes(slot) \/ CardTalks(slot)
      BY <1>1, <1>10 DEF CardStops, CardTakes, CardTalks, Untouched
<1>. QED BY <1>6, <1>7, <1>8, <1>9, <1>10 DEF Next

(* spec-cl exits with 0 only when a card it was asked for runs the file it *)
(* read: the scan, the loops that write and read back and the release      *)
(* together (speclib.c:217-253, speclib.h:17-18).                          *)
THEOREM SuccessIsALoadedCard ==
  ASSUME OneLoader PROVE Spec => SuccessMeansLoaded
<1>1. TypeInv /\ HostInv /\ [Next]_hvars => [DoneLoaded]_hvars
      BY DoneMeansLoaded
<1>2. Init => HostInv
      BY HostInvInit
<1>3. HostInv /\ [Next]_hvars => HostInv'
      BY HostInvInductive
<1>. QED BY <1>1, <1>2, <1>3, TypeInvariant, PTL DEF Spec, SuccessMeansLoaded

-----------------------------------------------------------------------------
(* The control loop, module TestLoop.  The filter's invariant is that pos  *)
(* is a place in the ring and the ring holds samples.  The rest is about   *)
(* indices: where the code looks for the sample of coefficient i is where, *)
(* one input earlier, it looked for the sample of coefficient i + 1.  That *)
(* a response is a number is an induction over the taps.                   *)

(* An index stays in the ring. *)
LEMMA IdxInRing ==
  \A p, i \in Window!Taps : Idx(p, i) \in Window!Taps
BY FilterAssumption DEF Idx, Window!Taps

(* The newest sample is at pos, where fir_process puts it. *)
LEMMA NewestAtPos ==
  \A p \in Window!Taps : Idx(p, NTaps - 1) = p
BY FilterAssumption DEF Idx, Window!Taps

(* The sample of coefficient i was that of coefficient i + 1 before, and   *)
(* is not the one that is written over. *)
LEMMA SamplesMoveDown ==
  \A p, i \in Window!Taps :
    i # NTaps - 1 => /\ Idx(p, i) = Idx(Before(p), i + 1)
                     /\ Idx(p, i) # p
<1> SUFFICES ASSUME NEW p \in Window!Taps, NEW i \in Window!Taps, i # NTaps - 1
             PROVE  /\ Idx(p, i) = Idx(Before(p), i + 1)
                    /\ Idx(p, i) # p
    OBVIOUS
<1>0. /\ p \in Int /\ i \in Int /\ NTaps \in Int
      /\ 0 <= p /\ p <= NTaps - 1 /\ 0 <= i /\ i < NTaps - 1
      BY FilterAssumption DEF Window!Taps
<1>1. CASE p = 0
      BY <1>0, <1>1 DEF Idx, Before
<1>2. CASE p # 0
      BY <1>0, <1>2 DEF Idx, Before
<1>. QED BY <1>1, <1>2

(* pos moves to a place whose predecessor is the old one. *)
LEMMA PosTurns ==
  \A p \in Window!Taps : NextPos(p) \in Window!Taps /\ Before(NextPos(p)) = p
BY FilterAssumption DEF NextPos, Before, Window!Taps

LEMMA FirStepTyped ==
  ASSUME FirTypeOK, [FirNext]_firVars PROVE FirTypeOK'
<1>1. CASE UNCHANGED firVars
      BY <1>1 DEF FirTypeOK, firVars
<1>2. CASE FirNext
  <2> PICK x \in Inputs : fir_process(x)
      BY <1>2 DEF FirNext
  <2>1. delay' \in [Window!Taps -> Inputs]
        BY DEF FirTypeOK, fir_process
  <2>2. pos' \in Window!Taps
        BY PosTurns DEF FirTypeOK, fir_process
  <2>. QED BY <2>1, <2>2 DEF FirTypeOK
<1>. QED BY <1>1, <1>2

LEMMA FirInitTyped == fir_load => FirTypeOK
BY FilterAssumption DEF fir_load, FirTypeOK, Window!Taps

(* The delay line holds samples and pos is one of its places: no access of *)
(* fir_process is outside of it (filters.c:52, 63, 66-68). *)
THEOREM FirTypeCorrect == FirSpec => []FirTypeOK
BY FirInitTyped, FirStepTyped, PTL DEF FirSpec

(* One call slides the window by one sample. *)
LEMMA RingSlides ==
  ASSUME FirTypeOK, NEW x \in Inputs, fir_process(x)
  PROVE  Ring(delay', Before(pos')) = Window!Slid(Ring(delay, Before(pos)), x)
<1>1. Before(pos') = pos
      BY PosTurns DEF FirTypeOK, fir_process
<1>2. ASSUME NEW i \in Window!Taps
      PROVE  delay'[Idx(pos, i)] =
               IF i = NTaps - 1 THEN x ELSE Ring(delay, Before(pos))[i + 1]
  <2>0. /\ pos \in Window!Taps /\ Idx(pos, i) \in Window!Taps
        /\ delay' = [delay EXCEPT ![pos] = x] /\ DOMAIN delay = Window!Taps
        BY IdxInRing DEF FirTypeOK, fir_process
  <2>1. CASE i = NTaps - 1
    <3>1. Idx(pos, i) = pos
          BY <2>0, <2>1, NewestAtPos
    <3>. QED BY <2>0, <2>1, <3>1
  <2>2. CASE i # NTaps - 1
    <3>1. Idx(pos, i) = Idx(Before(pos), i + 1) /\ Idx(pos, i) # pos
          BY <2>0, <2>2, SamplesMoveDown
    <3>2. delay'[Idx(pos, i)] = delay[Idx(pos, i)]
          BY <2>0, <3>1
    <3>3. i + 1 \in 0 .. NTaps - 1
          BY <2>2, FilterAssumption DEF Window!Taps
    <3>4. Ring(delay, Before(pos))[i + 1] = delay[Idx(Before(pos), i + 1)]
          BY <3>3 DEF Ring
    <3>. QED BY <2>2, <3>1, <3>2, <3>4
  <2>. QED BY <2>1, <2>2
<1>3. Ring(delay', pos) = [i \in Window!Taps |-> delay'[Idx(pos, i)]]
      BY DEF Ring, Window!Taps
<1>. QED BY <1>1, <1>2, <1>3 DEF Window!Slid

(* Quot of integers is one. *)
LEMMA QuotIsInt ==
  \A a \in Int, b \in Nat \ {0} : Window!Quot(a, b) \in Int
BY DEF Window!Quot

(* The recursion of Response has a solution, and its values are numbers:   *)
(* up to 0 there is one, and one up to n goes on to n + 1. *)
LEMMA SumExists ==
  ASSUME NEW N \in Nat, NEW term \in [0 .. N - 1 -> Int]
  PROVE  \E f \in [0 .. N -> Int] :
           f = [n \in 0 .. N |-> IF n = 0 THEN 0 ELSE f[n - 1] + term[n - 1]]
<1> DEFINE Sum(f, n) == IF n = 0 THEN 0 ELSE f[n - 1] + term[n - 1]
           Solves(f, k) == \A n \in 0 .. k : f[n] = Sum(f, n)
           P(k) == k <= N => \E f \in [0 .. k -> Int] : Solves(f, k)
           S == {k \in Nat : P(k)}
<1>1. P(0)
  <2> DEFINE f == [n \in 0 .. 0 |-> 0]
  <2>1. f \in [0 .. 0 -> Int] /\ Solves(f, 0)
        OBVIOUS
  <2>. QED BY <2>1
<1>2. ASSUME NEW k \in Nat, P(k) PROVE P(k + 1)
  <2> SUFFICES ASSUME k + 1 <= N
               PROVE  \E f \in [0 .. k + 1 -> Int] : Solves(f, k + 1)
      OBVIOUS
  <2>0. k <= N
        OBVIOUS
  <2>1. PICK f \in [0 .. k -> Int] : Solves(f, k)
        BY <1>2, <2>0
  <2> DEFINE g == [n \in 0 .. k + 1 |-> IF n = k + 1 THEN f[k] + term[k] ELSE f[n]]
  <2>2. k \in 0 .. k /\ k \in 0 .. N - 1 /\ f[k] + term[k] \in Int
        OBVIOUS
  <2>3. g \in [0 .. k + 1 -> Int]
        BY <2>2
  <2>4. ASSUME NEW n \in 0 .. k + 1
        PROVE  g[n] = Sum(g, n)
    <3>1. CASE n = k + 1
          BY <3>1
    <3>2. CASE n \in 0 .. k
          BY <3>2, <2>1
    <3>. QED BY <3>1, <3>2
  <2>. QED BY <2>3, <2>4
<1>3. P(N)
  <2> HIDE DEF P
  <2>1. Nat \subseteq S
    <3>1. 0 \in S /\ \A k \in Nat : k \in S => k + 1 \in S
          BY <1>1, <1>2
    <3> HIDE DEF S
    <3>. QED BY <3>1, NatSetInduction
  <2>. QED BY <2>1
<1>4. PICK f \in [0 .. N -> Int] : Solves(f, N)
      BY <1>3
<1>5. f = [n \in 0 .. N |-> Sum(f, n)]
      BY <1>4
<1>. QED BY <1>5

(* The weighted sum of integers is one. *)
LEMMA ResponseIsInt ==
  ASSUME NEW w \in [Window!Taps -> Int]
  PROVE  Window!Response(w) \in Int
<1> DEFINE term == [i \in 0 .. NTaps - 1 |-> Coefs[i] * w[i]]
           sum[n \in 0 .. NTaps] ==
             IF n = 0 THEN 0 ELSE sum[n - 1] + Coefs[n - 1] * w[n - 1]
<1>1. term \in [0 .. NTaps - 1 -> Int]
      BY FilterAssumption DEF Window!Taps
<1>2. PICK f \in [0 .. NTaps -> Int] :
        f = [n \in 0 .. NTaps |-> IF n = 0 THEN 0 ELSE f[n - 1] + term[n - 1]]
      BY <1>1, FilterAssumption, SumExists
<1>3. f = [n \in 0 .. NTaps |->
            IF n = 0 THEN 0 ELSE f[n - 1] + Coefs[n - 1] * w[n - 1]]
  <2>1. \A n \in 0 .. NTaps : n # 0 => term[n - 1] = Coefs[n - 1] * w[n - 1]
        BY FilterAssumption
  <2>. QED BY <1>2, <2>1
<1>4. sum = [n \in 0 .. NTaps |->
              IF n = 0 THEN 0 ELSE sum[n - 1] + Coefs[n - 1] * w[n - 1]]
      BY <1>3, Zenon
<1> HIDE DEF sum
<1> DEFINE body(n) == IF n = 0 THEN 0 ELSE sum[n - 1] + Coefs[n - 1] * w[n - 1]
<1>5. \A n \in 0 .. NTaps : sum[n] = body(n)
  <2>1. sum = [n \in 0 .. NTaps |-> body(n)]
        BY <1>4
  <2> HIDE DEF body
  <2>. QED BY <2>1
<1>6. sum[NTaps] \in Int
  <2> DEFINE P(k) == k <= NTaps => sum[k] \in Int
             S == {k \in Nat : P(k)}
  <2>1. P(0)
    <3>1. 0 \in 0 .. NTaps
          BY FilterAssumption
    <3>. QED BY <1>5, <3>1
  <2>2. ASSUME NEW k \in Nat, P(k) PROVE P(k + 1)
    <3> SUFFICES ASSUME k + 1 <= NTaps PROVE sum[k + 1] \in Int
        OBVIOUS
    <3>1. k + 1 \in 0 .. NTaps /\ k \in 0 .. NTaps - 1 /\ sum[k] \in Int
          BY <2>2, FilterAssumption
    <3>2. sum[k + 1] = sum[k] + Coefs[k] * w[k]
      <4>1. sum[k + 1] = body(k + 1)
            BY <1>5, <3>1
      <4>. QED BY <4>1
    <3>3. Coefs[k] * w[k] \in Int
          BY <3>1, FilterAssumption DEF Window!Taps
    <3>. QED BY <3>1, <3>2, <3>3
  <2> HIDE DEF P
  <2>3. 0 \in S /\ \A k \in Nat : k \in S => k + 1 \in S
        BY <2>1, <2>2
  <2> HIDE DEF S
  <2>4. Nat \subseteq S
        BY <2>3, NatSetInduction
  <2>5. P(NTaps)
        BY <2>4, FilterAssumption DEF S
  <2>6. NTaps \in Nat
        BY FilterAssumption
  <2>. QED BY <2>5, <2>6 DEF P
<1>7. Window!Quot(sum[NTaps], Scale) \in Int
      BY <1>6, QuotIsInt, FilterAssumption
<1>. QED BY <1>7 DEF Window!Response, sum

(* The filter is the sliding window: fir_process gives the weighted sum of *)
(* the last n_taps inputs, in their order (filters.c:48-70). *)
THEOREM FirImplementsWindow == FirSpec => ImplementsWindow
<1>1. fir_load => Window!Init
  <2> SUFFICES ASSUME fir_load PROVE Window!Init
      OBVIOUS
  <2>1. Before(pos) \in Window!Taps
        BY FilterAssumption DEF fir_load, Before, Window!Taps
  <2>2. \A i \in Window!Taps : delay[Idx(Before(pos), i)] = 0
        BY <2>1, IdxInRing DEF fir_load
  <2>3. Ring(delay, Before(pos)) = [i \in Window!Taps |-> 0]
        BY <2>2 DEF Ring, Window!Taps
  <2>. QED BY <2>3 DEF Window!Init, fir_load
<1>2. FirTypeOK /\ [FirNext]_firVars
        => [Window!Next]_<<Ring(delay, Before(pos)), acc>>
  <2> SUFFICES ASSUME FirTypeOK, [FirNext]_firVars
               PROVE  [Window!Next]_<<Ring(delay, Before(pos)), acc>>
      OBVIOUS
  <2>1. CASE UNCHANGED firVars
        BY <2>1 DEF firVars, Ring, Before, Idx
  <2>2. CASE FirNext
    <3> PICK x \in Inputs : fir_process(x)
        BY <2>2 DEF FirNext
    <3>1. Ring(delay', Before(pos')) = Window!Slid(Ring(delay, Before(pos)), x)
          BY RingSlides
    <3>2. Before(pos') = pos
          BY PosTurns DEF FirTypeOK, fir_process
    <3>3. acc' = Window!Response(Ring(delay', Before(pos')))
          BY <3>2 DEF fir_process
    <3>4. Window!Input(x)
          BY <3>1, <3>3 DEF Window!Input
    <3>. QED BY <3>4 DEF Window!Next
  <2>. QED BY <2>1, <2>2
<1>. QED BY <1>1, <1>2, FirTypeCorrect, PTL DEF FirSpec, ImplementsWindow, Window!Spec

-----------------------------------------------------------------------------
(* The value in hand is a sample before the filter, a tune word after it:  *)
(* with the types this keeps the low-pass's output among the filter's      *)
(* inputs and the words of the tuning FIFO within the limits. *)
ValueInHand == /\ phase = "filter" => s \in Adc
               /\ phase \in {"poll_tune", "write_tune"} => s \in -Limit .. Limit

(* A FIFO that was seen ready is still so when it is used: the hardware    *)
(* only fills the one and only empties the other (rf-lib.c:296-298,        *)
(* 306-308). *)
FlagsHold == /\ phase = "read_adc" => pd # <<>>
             /\ phase = "write_tune" => Len(tune) < TuneDepth

LoopInv == LoopTypeOK /\ FlagsHold /\ ValueInHand

(* Between two values of the range there is nothing else. *)
LEMMA LowpassInRange ==
  \A y, x \in -Half .. Half - 1 : lowpass_process(y, x) \subseteq -Half .. Half - 1
BY LoopAssumption DEF lowpass_process

LEMMA ClampInRange == \A v \in Int : Clamp(v) \in -Limit .. Limit
BY LoopAssumption DEF Clamp

(* What the filter step of the loop works on and yields. *)
LEMMA FilterInRange ==
  ASSUME LoopInv, Filter
  PROVE  /\ y0' \in -Half .. Half - 1 /\ y0' \in Inputs
         /\ acc' \in Int /\ s' \in -Limit .. Limit
<1>1. s - Half \in -Half .. Half - 1
      BY LoopAssumption DEF Filter, LoopInv, ValueInHand, Adc
<1>2. y0' \in -Half .. Half - 1
      BY <1>1, LowpassInRange DEF Filter, LoopInv, LoopTypeOK
<1>3. y0' \in Inputs
      BY <1>2, LoopAssumption
<1>4. acc' \in Int
  <2>1. pos \in Window!Taps /\ delay' \in [Window!Taps -> Int]
        BY <1>3, FilterAssumption DEF Filter, fir_process, LoopInv, LoopTypeOK, FirTypeOK
  <2>2. Ring(delay', pos) \in [Window!Taps -> Int]
        BY <2>1, IdxInRing DEF Ring, Window!Taps
  <2>. QED BY <2>2, ResponseIsInt DEF Filter, fir_process
<1>5. Window!Quot(acc', Divisor) \in Int
      BY <1>4, QuotIsInt, LoopAssumption
<1>. QED BY <1>2, <1>3, <1>4, <1>5, ClampInRange DEF Filter

(* The filter is given one of its inputs, and nothing else moves it. *)
LEMMA LoopFeedsFilter ==
  ASSUME LoopInv, [LoopNext]_vars PROVE [FirNext]_firVars
<1>1. CASE Filter
      BY <1>1, FilterInRange DEF Filter, FirNext
<1>2. CASE PollAdc \/ ReadAdc \/ PollTune \/ WriteTune \/ AdcSample \/ CicTick
      BY <1>2 DEF PollAdc, ReadAdc, PollTune, WriteTune, AdcSample, CicTick
<1>3. CASE UNCHANGED vars
      BY <1>3 DEF vars, firVars
<1>. QED BY <1>1, <1>2, <1>3 DEF LoopNext, Host

LEMMA LoopInvInductive ==
  ASSUME LoopInv, [LoopNext]_vars PROVE LoopInv'
<1> USE DEF LoopInv, ValueInHand, FlagsHold, LoopTypeOK
<1>0. FirTypeOK'
      BY LoopFeedsFilter, FirStepTyped
<1>1. CASE PollAdc
      BY <1>0, <1>1 DEF PollAdc, firVars
<1>2. CASE ReadAdc
  <2>1. pd # <<>> /\ pd \in Seq(Adc)
        BY <1>2 DEF ReadAdc
  <2>2. Head(pd) \in Adc /\ Tail(pd) \in Seq(Adc) /\ Len(Tail(pd)) <= Len(pd)
        BY <2>1
  <2>3. s' \in Adc /\ s' \in Int /\ pd' \in Seq(Adc) /\ Len(pd') <= PdDepth
        BY <1>2, <2>2, LoopAssumption DEF ReadAdc, Adc
  <2>4. phase' \in {"poll_adc", "filter"}
        BY <1>2 DEF ReadAdc
  <2>5. discards' \in 0 .. Discards
    <3>1. discards \in 0 .. Discards /\ Discards \in Nat
          BY LoopAssumption
    <3>. QED BY <1>2, <3>1 DEF ReadAdc
  <2>. QED BY <1>0, <1>2, <2>3, <2>4, <2>5 DEF ReadAdc, firVars
<1>3. CASE Filter
  <2>1. /\ y0' \in -Half .. Half - 1 /\ acc' \in Int
        /\ s' \in -Limit .. Limit /\ s' \in Int
        BY <1>3, FilterInRange, LoopAssumption
  <2>. QED BY <1>0, <1>3, <2>1 DEF Filter
<1>4. CASE PollTune
      BY <1>0, <1>4 DEF PollTune, firVars
<1>5. CASE WriteTune
  <2>1. Len(tune) < TuneDepth /\ s \in -Limit .. Limit
        BY <1>5 DEF WriteTune
  <2>2. tune' \in Seq(-Limit .. Limit) /\ Len(tune') <= TuneDepth
        BY <1>5, <2>1, LoopAssumption DEF WriteTune
  <2>. QED BY <1>0, <1>5, <2>2 DEF WriteTune, firVars
<1>6. CASE AdcSample
  <2>1. PICK x \in Adc : pd' = IF Len(pd) < PdDepth THEN Append(pd, x) ELSE pd
        BY <1>6 DEF AdcSample
  <2>2. pd \in Seq(Adc) /\ Len(pd) <= PdDepth /\ PdDepth \in Nat
        BY LoopAssumption
  <2>3. pd' \in Seq(Adc) /\ Len(pd') <= PdDepth
        BY <2>1, <2>2
  <2>4. pd # <<>> => pd' # <<>>
        BY <2>1, <2>2
  <2>. QED BY <1>0, <1>6, <2>3, <2>4 DEF AdcSample, firVars
<1>7. CASE CicTick
  <2>1. tune' \in Seq(-Limit .. Limit) /\ Len(tune') < Len(tune)
        BY <1>7 DEF CicTick
  <2>2. Len(tune') <= TuneDepth /\ (Len(tune) < TuneDepth => Len(tune') < TuneDepth)
    <3>0. tune \in Seq(-Limit .. Limit) /\ TuneDepth \in Nat
          BY LoopAssumption
    <3>1. Len(tune) \in Nat /\ Len(tune') \in Nat /\ TuneDepth \in Nat
          BY <2>1, <3>0
    <3>2. Len(tune') < Len(tune) /\ Len(tune) <= TuneDepth
          BY <2>1
    <3>. QED BY <3>1, <3>2
  <2>. QED BY <1>0, <1>7, <2>1, <2>2 DEF CicTick, firVars
<1>8. CASE UNCHANGED vars
      BY <1>0, <1>8 DEF vars, firVars
<1>. QED BY <1>1, <1>2, <1>3, <1>4, <1>5, <1>6, <1>7, <1>8 DEF LoopNext, Host

LEMMA LoopInvariant == LoopSpec => []LoopInv
<1>1. LoopInit => LoopInv
  <2> SUFFICES ASSUME LoopInit PROVE LoopInv
      OBVIOUS
  <2>1. FirTypeOK /\ acc = 0
        BY FirInitTyped DEF LoopInit, fir_load
  <2>2. pd \in Seq(Adc) /\ tune \in Seq(-Limit .. Limit)
        BY DEF LoopInit
  <2>3. Len(pd) = 0 /\ Len(tune) = 0
        BY DEF LoopInit
  <2>. QED BY <2>1, <2>2, <2>3, LoopAssumption
           DEF LoopInit, LoopInv, LoopTypeOK, ValueInHand, FlagsHold
<1>. QED BY <1>1, LoopInvInductive, PTL DEF LoopSpec

(* Everything is in its range; no tune word is outside of the limits,      *)
(* whatever the filter's coefficients are (rf-lib.c:498-512). *)
THEOREM LoopTypeCorrect == LoopSpec => []LoopTypeOK
<1>1. LoopInv => LoopTypeOK
      BY DEF LoopInv
<1>. QED BY <1>1, LoopInvariant, PTL

(* The filter inside the loop is the sliding window over the low-pass's    *)
(* outputs, whatever the ADC delivers and whenever (rf-lib.c:498-504). *)
THEOREM LoopImplementsWindow == LoopSpec => ImplementsWindow
<1>1. LoopInit => fir_load
      BY DEF LoopInit
<1>2. LoopInv /\ [LoopNext]_vars => [FirNext]_firVars
      BY LoopFeedsFilter
<1>3. LoopSpec => FirSpec
      BY <1>1, <1>2, LoopInvariant, PTL DEF LoopSpec, FirSpec
<1>. QED BY <1>3, FirImplementsWindow, PTL

-----------------------------------------------------------------------------
(* The synthesizer's model in C, module DdsTest: what dds-test.c computes, *)
(* for every table and all widths. *)
CONSTANTS LUT_SIZE, FRAC, SLOPE_STEP, SLOPES, SLOPE_ONE, delta, lut
VARIABLES dds_acc, rv

Synth == INSTANCE DdsTest WITH acc <- dds_acc

(* The accumulator keeps its width. *)
AccOK == dds_acc \in 0 .. Synth!ACC_SIZE - 1

(* Every output is an even number: half of the output's steps are never    *)
(* used, because what decides about rounding up is the lowest bit kept     *)
(* (dds-test.c:68-71). *)
OutputIsEven == rv \in Int /\ rv % 2 = 0

(* The index of every look-up is one of the table's (dds-test.c:34, 52),   *)
(* and the two other parts of the phase have their widths. *)
PartsOfPhase == /\ Synth!index(dds_acc) \in 0 .. LUT_SIZE - 1
                /\ Synth!quad(dds_acc) \in {0, 1}
                /\ Synth!frac(dds_acc) \in 0 .. SLOPES - 1

(* A remainder is smaller than the divisor. *)
LEMMA Remainder ==
  ASSUME NEW x \in Int, NEW m \in Nat \ {0}
  PROVE  x % m \in 0 .. m - 1 /\ x \div m \in Int
OBVIOUS

(* A bit added to a number of the same parity. *)
LEMMA RoundedIsEven ==
  ASSUME NEW v0 \in Int
  PROVE  Synth!Rounded(v0) \in Int /\ Synth!Rounded(v0) % 2 = 0
BY SMT DEF Synth!Rounded

LEMMA PhaseSplits ==
  ASSUME Synth!Widths, AccOK PROVE PartsOfPhase
<1>0. dds_acc \in Int
      BY DEF AccOK
<1>1. Synth!index(dds_acc) \in 0 .. LUT_SIZE - 1
      BY <1>0, Remainder DEF Synth!index, Synth!Widths
<1>2. LUT_SIZE * FRAC \in Nat \ {0}
      BY DEF Synth!Widths
<1>3. (dds_acc \div (LUT_SIZE * FRAC)) \in Int
      BY <1>0, <1>2, Remainder
<1>4. Synth!quad(dds_acc) \in {0, 1}
      BY <1>3 DEF Synth!quad
<1>5. Synth!frac(dds_acc) \in 0 .. SLOPES - 1
      BY <1>0, Remainder DEF Synth!frac, Synth!Widths
<1>. QED BY <1>1, <1>4, <1>5 DEF PartsOfPhase

LEMMA InterpolatedIsInt ==
  ASSUME Synth!Widths, Synth!calc_lut, AccOK
  PROVE  Synth!Interpolated(dds_acc) * Synth!sign(dds_acc) \in Int
<1>1. Synth!index(dds_acc) \in 0 .. LUT_SIZE - 1 /\ Synth!frac(dds_acc) \in Int
      BY PhaseSplits DEF PartsOfPhase, Synth!Widths
<1>2. /\ lut[Synth!index(dds_acc)].value \in Int
      /\ lut[Synth!index(dds_acc)].slope \in Int
      BY <1>1 DEF Synth!calc_lut
<1>3. lut[Synth!index(dds_acc)].slope * Synth!frac(dds_acc) \in Int
      BY <1>1, <1>2
<1>4. (lut[Synth!index(dds_acc)].slope * Synth!frac(dds_acc)) \div SLOPE_ONE
        \in Int
      BY <1>3, Remainder DEF Synth!Widths
<1>5. Synth!Interpolated(dds_acc) \in Int
      BY <1>2, <1>4 DEF Synth!Interpolated
<1>6. Synth!sign(dds_acc) \in {1, -1}
      BY DEF Synth!sign
<1>. QED BY <1>5, <1>6

(* The accumulator keeps its width, however long the generator runs        *)
(* (dds-test.c:34-36, 76-77). *)
LEMMA AccKeepsWidth == Synth!Widths => (Synth!Spec => []AccOK)
<1> SUFFICES ASSUME Synth!Widths PROVE Synth!Spec => []AccOK
    OBVIOUS
<1>0. Synth!ACC_SIZE \in Nat \ {0}
  <2>1. LUT_SIZE * FRAC \in Nat \ {0}
        BY DEF Synth!Widths
  <2>. QED BY <2>1 DEF Synth!ACC_SIZE
<1>1. Synth!Init => AccOK
      BY <1>0 DEF Synth!Init, AccOK
<1>2. AccOK /\ [Synth!dds_update]_(Synth!vars) => AccOK'
  <2> SUFFICES ASSUME AccOK, [Synth!dds_update]_(Synth!vars) PROVE AccOK'
      OBVIOUS
  <2>1. CASE Synth!dds_update
    <3>1. dds_acc + delta \in Int
          BY DEF AccOK, Synth!Widths
    <3>. QED BY <1>0, <2>1, <3>1, Remainder DEF AccOK, Synth!dds_update
  <2>2. CASE UNCHANGED Synth!vars
        BY <2>2 DEF Synth!vars, AccOK
  <2>. QED BY <2>1, <2>2
<1>. QED BY <1>1, <1>2, PTL DEF Synth!Spec

(* The lowest bit of the generator's output is always 0 (dds-test.c:66-71: *)
(* the bit tested decides whether it is already 0).                        *)
THEOREM OutputAlwaysEven ==
  Synth!Widths /\ Synth!calc_lut => (Synth!Spec => []OutputIsEven)
<1> SUFFICES ASSUME Synth!Widths, Synth!calc_lut PROVE Synth!Spec => []OutputIsEven
    OBVIOUS
<1>1. Synth!Init => OutputIsEven
      BY DEF Synth!Init, OutputIsEven
<1>2. AccOK /\ OutputIsEven /\ [Synth!dds_update]_(Synth!vars) => OutputIsEven'
  <2> SUFFICES ASSUME AccOK, OutputIsEven, [Synth!dds_update]_(Synth!vars) PROVE OutputIsEven'
      OBVIOUS
  <2>1. CASE Synth!dds_update
        BY <2>1, InterpolatedIsInt, RoundedIsEven DEF Synth!dds_update, OutputIsEven
  <2>2. CASE UNCHANGED Synth!vars
        BY <2>2 DEF Synth!vars, OutputIsEven
  <2>. QED BY <2>1, <2>2
<1>3. Synth!Spec => []AccOK
      BY AccKeepsWidth, PTL
<1>. QED BY <1>1, <1>2, <1>3, PTL DEF Synth!Spec
=============================================================================
