------------------------------ MODULE RfBoard -------------------------------
(* A board as rf-lib.c sees it: the register block (regs/dds_regs.h), the  *)
(* pins behind the GPIO register, and the three chips they bit-bang: the   *)
(* AD9516 (sys), the AD9510 (vcxo) and the ADF4002 (adf).                  *)
EXTENDS Naturals, Sequences, SequencesExt

CONSTANT WordBits   \* bits in a word of a chip (24)
ASSUME WordBitsAssumption == WordBits \in Nat \ {0}

(* The pins of DDS_GPIOR_*; what the host writes to PLL_SDIO goes to the   *)
(* line sdio, what it reads there comes from the AD9510.                   *)
Pins == {"PLL_SYS_CS_N", "PLL_SYS_RESET_N", "PLL_SCLK", "PLL_VCXO_CS_N",
         "PLL_VCXO_FUNCTION", "ADF_CE", "ADF_CLK", "ADF_LE", "ADF_DATA"}

Registers == {"CR", "FREQ_HI", "FREQ_LO", "GAIN", "RSTR", "PIR", "DLYR",
              "MACH", "MACL"}

SpiChips == {"sys", "vcxo"}
cs_n(c)    == IF c = "sys" THEN "PLL_SYS_CS_N" ELSE "PLL_VCXO_CS_N"
reset_n(c) == IF c = "sys" THEN "PLL_SYS_RESET_N" ELSE "PLL_VCXO_FUNCTION"

(* After power-up every register reads 0: both chips are selected, and     *)
(* held in reset.  bits: what each chip has shifted in.  cpu: "stopped" as *)
(* long as a load is under way, "failed" once one has left it stopped.     *)
PowerUp == [regs |-> [r \in Registers |-> "0"],
            pins |-> [p \in Pins |-> 0], sdio |-> 0,
            bits |-> [c \in SpiChips \cup {"adf"} |-> <<>>],
            cpu  |-> "running",
            left |-> {}]

-----------------------------------------------------------------------------
(* The pins after gpio_set writes the register; sdo is what it read in the *)
(* place of PLL_SDIO. *)
Rises(b, pins, p) == b.pins[p] = 0 /\ pins[p] = 1

Listens(c, pins) == pins[reset_n(c)] = 1 /\ pins[cs_n(c)] = 0

(* A selected chip shifts on the rising edge of SCLK, with SDIO as it was  *)
(* before the write: the pin follows one clock later than SCLK             *)
(* (dds_core.vhd:549-556).  The bits of a word are counted from the moment *)
(* it is selected.                                                         *)
ShiftedBy(b, pins, c) ==
  IF ~Listens(c, pins) THEN <<>>
  ELSE LET begun == IF Len(b.bits[c]) = WordBits THEN <<>> ELSE b.bits[c]
       IN  IF Rises(b, pins, "PLL_SCLK") THEN Append(begun, b.sdio)
           ELSE b.bits[c]

(* The ADF4002 shifts on ADF_CLK and keeps the last bits. *)
AdfShiftedBy(b, pins) ==
  IF Rises(b, pins, "ADF_CLK")
  THEN LET all == Append(b.bits["adf"], pins["ADF_DATA"])
       IN  IF Len(all) > WordBits THEN Tail(all) ELSE all
  ELSE b.bits["adf"]

(* The board after the pins and the SDIO line are written. *)
Driven(b, pins, sdio) ==
  [b EXCEPT !.pins = pins, !.sdio = sdio,
            !.bits = [c \in SpiChips \cup {"adf"} |->
                        IF c = "adf" THEN AdfShiftedBy(b, pins)
                        ELSE ShiftedBy(b, pins, c)],
            !.left = {c \in @ : pins[reset_n(c)] = 1}]

(* Faulty: the value is written as it comes. *)
LevelAsIs(value) == value

(* A pin is set by any value but 0: spi_txrx hands over a masked bit.      *)
Level(value) == IF value = 0 THEN 0 ELSE 1

(* gpio_set reads the register, changes one pin and writes all of them     *)
(* back: PLL_SDIO with what was read in its place.                         *)
gpio_set(b, pin, value, sdo) ==
  IF pin = "PLL_SDIO" THEN Driven(b, b.pins, Level(value))
  ELSE Driven(b, [b.pins EXCEPT ![pin] = Level(value)], sdo)

rf_writel(b, reg, value) == [b EXCEPT !.regs[reg] = value]

(* What the chips take with a step from board b to board c. *)
TakesWord(b, c, chip) ==
  /\ Len(c.bits[chip]) = WordBits
  /\ b.pins["PLL_SCLK"] = 0 /\ c.pins["PLL_SCLK"] = 1

AdfLatches(b, c) == b.pins["ADF_LE"] = 0 /\ c.pins["ADF_LE"] = 1
=============================================================================
