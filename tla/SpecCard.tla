------------------------------ MODULE SpecCard ------------------------------
(* The SPEC cards of a computer and how its programs reach them            *)
(* (src/software/speclib/speclib.c): the driver's directory, spec_scan,    *)
(* spec_map_area, spec_open.  A card is known by its PCI bus and device.   *)
EXTENDS Integers, Sequences, SequencesExt, FiniteSetsExt

CONSTANTS
  Slots,     \* the cards of the computer: a set of [bus, devfn] records
  Others,    \* the other names in /sys/bus/pci/drivers/spec
  MemSize,   \* words of the soft processor's memory
  Talkative, \* the cards whose firmware prints
  FifoSize,  \* characters in the virtual UART towards the host
  NULL,      \* an area that is not mapped
  NoHandle   \* NULL returned by spec_open

ASSUME SlotsAssumption == /\ Slots \subseteq [bus : Nat, devfn : Nat]
                          /\ IsFiniteSet(Slots) /\ IsFiniteSet(Others)
                          /\ Slots \intersect (Others \cup {NULL, NoHandle}) = {}
ASSUME SizesAssumption == {MemSize, FifoSize} \subseteq Nat \ {0}

VARIABLES
  driver,    \* the kernel module spec.ko is loaded
  cards      \* what the FPGA of each card holds

(* A card after its FPGA is configured: the processor runs the firmware of *)
(* the bitstream and the virtual UART is empty; and one that is not.       *)
BootFirmware == [i \in 1 .. MemSize |-> "boot"]
Card(fpga, cpu) == [fpga |-> fpga, cpu |-> cpu, mem |-> BootFirmware,
                    tdr |-> <<>>, fifo |-> <<>>]
Configured   == Card(TRUE, "running")
Blank        == Card(FALSE, "stopped")

-----------------------------------------------------------------------------
(* Faulty: the numbers asked for are replaced by those of the card seen. *)
VisitTakesAny(name, s) ==
  IF s.found \/ name \notin Slots THEN s
  ELSE [bus |-> name.bus, devfn |-> name.devfn, found |-> TRUE]

(* The loop of spec_scan: the first card seen settles the wildcards,       *)
(* whether it is the one asked for or not.                                 *)
Visit(name, s) ==
  IF s.found \/ name \notin Slots THEN s
  ELSE LET bus   == IF s.bus < 0 THEN name.bus ELSE s.bus
           devfn == IF s.devfn < 0 THEN name.devfn ELSE s.devfn
       IN  [bus |-> bus, devfn |-> devfn,
            found |-> bus = name.bus /\ devfn = name.devfn]

(* spec_scan visits the names from the last one back: what it knows after  *)
(* n of them, and in the end. *)
spec_scan(namelist, req) ==
  LET known[n \in 0 .. Len(namelist)] ==
        IF n = 0 THEN [bus |-> req.bus, devfn |-> req.devfn, found |-> FALSE]
        ELSE Visit(namelist[Len(namelist) + 1 - n], known[n - 1])
  IN  known[Len(namelist)]

(* scandir is not asked to sort. *)
Listings == SetToSeqs(Slots \cup Others)

(* spec_map_area: the area of the card, or NULL when its file cannot be    *)
(* opened or mapped. *)
spec_map_area(s) == {NULL, [bus |-> s.bus, devfn |-> s.devfn]}

(* spec_open: no handle without a driver or a card, else one, although an  *)
(* area may be missing.  A program uses one of the two areas, BAR4 in      *)
(* spec-fwloader and BAR0 in the others; the handle stands for that one.   *)
spec_open(req) ==
  LET Scanned == {spec_scan(list, req) : list \in Listings}
      Handle(s) == IF driver /\ s.found THEN spec_map_area(s) ELSE {NoHandle}
  IN  UNION {Handle(s) : s \in Scanned}

Meets(slot, req) == /\ req.bus < 0 \/ req.bus = slot.bus
                    /\ req.devfn < 0 \/ req.devfn = slot.devfn

-----------------------------------------------------------------------------
(* The gateware of card s, outside src/: its processor obeys the reset bit,*)
(* takes the byte the host sent and talks when the FIFO has room.          *)
Stops(s) ==
  /\ cards[s].cpu = "stopping"
  /\ cards' = [cards EXCEPT ![s].cpu = "stopped"]

TakesByte(s) ==
  /\ cards[s].cpu = "running" /\ cards[s].tdr # <<>>
  /\ cards' = [cards EXCEPT ![s].tdr = <<>>]

Talks(s) ==
  /\ s \in Talkative
  /\ cards[s].cpu = "running" /\ Len(cards[s].fifo) < FifoSize
  /\ cards' = [cards EXCEPT ![s].fifo = Append(@, "char")]
=============================================================================
