------------------------------- MODULE RfLib --------------------------------
(* The programs that set up the boards (rf-lib.c, rf-test.c): each is the  *)
(* sequence of its accesses, one step per access, and may be killed at any *)
(* of them and started again on the boards as they are.                    *)
EXTENDS RfBoard

CONSTANTS
  Master, Slave,\* the boards of bus 1 and bus 2 (rf-test.c:12-13)
  SysRegs,      \* the words of regs/ad9516_init.h
  AdfWords,     \* the three words of adf4002_configure
  Mask,         \* 1 << n_bits: where spi_txrx has the bit it sends
  MaxKills      \* bound: how often the program is killed

Boards == {Master, Slave}

ASSUME BoardsAssumption == Master # Slave /\ MaxKills \in Nat
ASSUME WordsAssumption ==
  /\ {SysRegs, AdfWords} \subseteq Seq([1 .. WordBits -> {0, 1}]) \ {<<>>}
  /\ Mask \in Nat \ {0}

-----------------------------------------------------------------------------
(* Accesses.  chip, word and at say what a transaction is about, and where *)
(* in it the access is.                                                    *)
Set(pin, value) == [op |-> "set", pin |-> pin, value |-> value, chip |-> "none",
                    word |-> <<>>, at |-> 0]
Write(reg, value) == [op |-> "write", reg |-> reg, value |-> value]
Reads == [op |-> "read"]
Halt    == [op |-> "halt"]
Release == [op |-> "release"]

(* The result of a read decides: n steps further on, or on from here.      *)
Skip(n) == [op |-> "skip", n |-> n]
(* ... or n steps back, or m on.                                           *)
Poll(n, m) == [op |-> "poll", back |-> n, on |-> m]

About(ops, chip, word) ==
  [i \in DOMAIN ops |-> [ops[i] EXCEPT !.chip = chip, !.word = word, !.at = i]]

(* spi_txrx, most significant bit first. *)
SpiBit(b) == <<Set("PLL_SDIO", b * Mask), Set("PLL_SCLK", 1), Set("PLL_SCLK", 0)>>

spi_txrx(chip, word) ==
  About(<<Set("PLL_SCLK", 0), Set(cs_n(chip), 0)>>
        \o FlattenSeq([i \in DOMAIN word |-> SpiBit(word[i])])
        \o <<Set(cs_n(chip), 1)>>, chip, word)

(* A read is a transfer like a write; what comes back is the AD9510's SDO  *)
(* line, whichever chip is addressed. *)
AnyWord == [i \in 1 .. WordBits |-> IF i = 1 THEN 1 ELSE 0]

ad951x_write_reg(chip, word) == spi_txrx(chip, word)
ad951x_read_reg(chip) == spi_txrx(chip, AnyWord)

AdfBit(b) == <<Set("ADF_DATA", b), Set("ADF_CLK", 1), Set("ADF_CLK", 0)>>

(* Faulty: the latch is opened first. *)
AdfWriteLatchFirst(word) ==
  About(<<Set("ADF_CLK", 0), Set("ADF_LE", 0), Set("ADF_LE", 1)>>
        \o FlattenSeq([i \in DOMAIN word |-> AdfBit(word[i])]), "adf", word)

adf4002_write(word) ==
  About(<<Set("ADF_CLK", 0), Set("ADF_LE", 0)>>
        \o FlattenSeq([i \in DOMAIN word |-> AdfBit(word[i])])
        \o <<Set("ADF_LE", 1)>>, "adf", word)

adf4002_configure ==
  <<Set("ADF_CE", 1)>>
  \o FlattenSeq([i \in DOMAIN AdfWords |-> adf4002_write(AdfWords[i])])

ad9510_init ==
  <<Set("PLL_VCXO_FUNCTION", 0), Set("PLL_VCXO_FUNCTION", 1)>>
  \o ad951x_write_reg("vcxo", SysRegs[1])

(* ad9516_init: reset, two words, the identity read twice; if it is wrong  *)
(* that is all.  Then the table, the lock polled for at most a second and, *)
(* once locked, the words that synchronise the outputs.                    *)
SysWrites(words) ==
  FlattenSeq([i \in DOMAIN words |-> ad951x_write_reg("sys", words[i])])

ad9516_init ==
  LET first == SysRegs[1]
      id    == ad951x_read_reg("sys") \o ad951x_read_reg("sys")
      table == SysWrites(SysRegs \o <<first, first>>)
      lock  == ad951x_read_reg("sys")
      sync  == SysWrites(<<first, first, first, first>>)
  IN  <<Set("PLL_SYS_RESET_N", 0), Set("PLL_SYS_RESET_N", 1)>>
      \o SysWrites(<<first, first>>)
      \o id \o <<Skip(Len(table) + Len(lock) + 1 + Len(sync))>>
      \o table
      \o lock \o <<Poll(Len(lock), Len(sync))>>
      \o sync

reset_core == <<Write("RSTR", "PLL_RST"), Write("RSTR", "0"),
                Write("RSTR", "SW_RST"), Write("RSTR", "0")>>

set_center_freq == <<Write("FREQ_HI", "tune"), Write("FREQ_LO", "tune")>>

(* What spec_load_lm32 does to the processor (module Lm32Load): nothing if *)
(* there is no file, else it is stopped, and released unless the firmware  *)
(* read back is wrong.  rf_init does not look at the result. *)
spec_load_lm32 == <<Halt, Release>>

Defaults == reset_core \o spec_load_lm32 \o set_center_freq \o adf4002_configure
            \o <<Write("GAIN", "3000"), Write("MACH", "mac"), Write("MACL", "mac")>>

ModeSettings(mode) ==
  IF mode = "MASTER" THEN <<Write("PIR", "gains")>>
  ELSE <<Write("RSTR", "SW_RST"), Write("RSTR", "0"), Write("DLYR", "10000")>>

(* Faulty: the mode left by an earlier run stays on. *)
RfInitModeOn(mode) == Defaults \o ModeSettings(mode) \o <<Write("CR", mode)>>

rf_init(mode) ==
  <<Write("CR", "0")>> \o Defaults \o ModeSettings(mode) \o <<Write("CR", mode)>>

rf_get_counters == [i \in 1 .. 4 |-> Reads]

(* The main program of rf-lib.c that is compiled out, without its loop     *)
(* (module TestLoop). *)
bring_up ==
  ad9516_init \o reset_core \o set_center_freq \o adf4002_configure
  \o <<Write("GAIN", "3000"), Write("CR", "TEST"), Write("RSTR", "SW_RST"),
       Write("RSTR", "0"), Write("PIR", "gains"), Write("CR", "MASTER_0")>>

-----------------------------------------------------------------------------
On(board, ops) == [i \in DOMAIN ops |-> [board |-> board, access |-> ops[i]]]

(* Faulty: both on the same board. *)
RfTestInitsOneBoard == On(Slave, rf_init("SLAVE")) \o On(Slave, rf_init("MASTER"))

RfTestInits == On(Slave, rf_init("SLAVE")) \o On(Master, rf_init("MASTER"))

rf_test == RfTestInits \o On(Master, rf_get_counters) \o On(Slave, rf_get_counters)

Programs == {"rf_test", "bring_up", "ad9510_init"}

(* Either main program is linked, never both.                              *)
Builds == {{"rf_test"}, {"bring_up", "ad9510_init"}}

Code == [p \in Programs |->
           CASE p = "rf_test"     -> rf_test
             [] p = "bring_up"    -> On(Master, bring_up)
             [] p = "ad9510_init" -> On(Master, ad9510_init)]

VARIABLES boards, build, prog, pos, kills

vars == <<boards, build, prog, pos, kills>>

Running == prog # "none"
Access  == Code[prog][pos].access
Board   == Code[prog][pos].board

(* rf_test reads the counters for ever. *)
After(p) ==
  IF prog = "rf_test" /\ p > Len(rf_test) THEN Len(RfTestInits) + 1 ELSE p

Goto(p) ==
  IF After(p) > Len(Code[prog]) THEN prog' = "none" /\ pos' = 0
  ELSE prog' = prog /\ pos' = After(p)

Change(b) == boards' = [boards EXCEPT ![Board] = b]

Start ==
  /\ ~Running
  /\ \E p \in build : prog' = p
  /\ pos' = 1
  /\ UNCHANGED <<boards, build, kills>>

SetPin ==
  /\ Running /\ Access.op = "set"
  /\ \E sdo \in {0, 1} : Change(gpio_set(boards[Board], Access.pin, Access.value, sdo))
  /\ Goto(pos + 1)
  /\ UNCHANGED <<build, kills>>

WriteReg ==
  /\ Running /\ Access.op = "write"
  /\ Change(rf_writel(boards[Board], Access.reg, Access.value))
  /\ Goto(pos + 1)
  /\ UNCHANGED <<build, kills>>

HaltCpu ==
  /\ Running /\ Access.op = "halt"
  /\ Change([boards[Board] EXCEPT !.cpu = "stopped"])
  /\ Goto(pos + 1)
  /\ UNCHANGED <<build, kills>>

(* Without the file the load ends before it has begun; a processor that an *)
(* earlier program left stopped stays so. *)
NoFirmware ==
  /\ Running /\ Access.op = "halt"
  /\ Change([boards[Board] EXCEPT !.cpu = IF @ = "stopped" THEN "failed" ELSE @])
  /\ Goto(pos + 2)
  /\ UNCHANGED <<build, kills>>

ReleaseCpu ==
  /\ Running /\ Access.op = "release"
  /\ \E result \in {"running", "failed"} : Change([boards[Board] EXCEPT !.cpu = result])
  /\ Goto(pos + 1)
  /\ UNCHANGED <<build, kills>>

ReadReg ==
  /\ Running /\ Access.op = "read"
  /\ Goto(pos + 1)
  /\ UNCHANGED <<boards, build, kills>>

(* The identity is right or wrong. *)
CheckId ==
  /\ Running /\ Access.op = "skip"
  /\ Goto(pos + 1) \/ Goto(pos + 1 + Access.n)
  /\ UNCHANGED <<boards, build, kills>>

(* The lock bit is set, or the time is over, or neither.                   *)
CheckLock ==
  /\ Running /\ Access.op = "poll"
  /\ \/ Goto(pos + 1)
     \/ Goto(pos + 1 + Access.on)
     \/ Goto(pos - Access.back)
  /\ UNCHANGED <<boards, build, kills>>

Step == \/ SetPin \/ WriteReg \/ ReadReg
        \/ HaltCpu \/ NoFirmware \/ ReleaseCpu
        \/ CheckId \/ CheckLock

(* The program is killed; left remembers the chips it was talking to.      *)
Kill ==
  /\ Running /\ kills < MaxKills
  /\ prog' = "none" /\ pos' = 0 /\ kills' = kills + 1
  /\ boards' = [b \in Boards |->
                  [boards[b] EXCEPT !.left = {c \in SpiChips : Listens(c, boards[b].pins)}]]
  /\ UNCHANGED build

Init == /\ boards = [b \in Boards |-> PowerUp]
        /\ build \in Builds
        /\ prog = "none" /\ pos = 0 /\ kills = 0

Next == Start \/ Step \/ Kill

Spec == Init /\ [][Next]_vars

(* The shell starts the program again and the host runs it: nothing is     *)
(* assumed of Kill. *)
FairSpec == Spec /\ WF_vars(Start) /\ WF_vars(Step)

-----------------------------------------------------------------------------
Values == [CR |-> {"0", "SLAVE", "MASTER", "TEST", "MASTER_0"},
           RSTR |-> {"0", "PLL_RST", "SW_RST"},
           FREQ_HI |-> {"0", "tune"}, FREQ_LO |-> {"0", "tune"},
           GAIN |-> {"0", "3000"}, PIR |-> {"0", "gains"},
           DLYR |-> {"0", "10000"}, MACH |-> {"0", "mac"}, MACL |-> {"0", "mac"}]

BoardOK(b) ==
  /\ b \in [regs : [Registers -> UNION {Values[r] : r \in Registers}],
            pins : [Pins -> {0, 1}], sdio : {0, 1},
            bits : [SpiChips \cup {"adf"} -> Seq({0, 1})],
            cpu  : {"running", "stopped", "failed"}, left : SUBSET SpiChips]
  /\ \A r \in Registers : b.regs[r] \in Values[r]
  /\ \A c \in SpiChips \cup {"adf"} : Len(b.bits[c]) <= WordBits

(* The registers, the pins and the chips hold what they can hold, and the  *)
(* program is at one of its accesses. *)
TypeOK ==
  /\ DOMAIN boards = Boards /\ \A b \in Boards : BoardOK(boards[b])
  /\ build \in Builds /\ kills \in 0 .. MaxKills
  /\ prog \in build \cup {"none"}
  /\ IF Running THEN pos \in 1 .. Len(Code[prog]) ELSE pos = 0

(* Whatever a board needs in its mode. *)
Configured(b, mode) ==
  /\ b.regs["RSTR"] = "0" /\ b.cpu # "stopped"
  /\ b.regs["FREQ_HI"] = "tune" /\ b.regs["FREQ_LO"] = "tune"
  /\ b.regs["GAIN"] = "3000" /\ b.regs["MACH"] = "mac" /\ b.regs["MACL"] = "mac"
  /\ b.pins["ADF_CE"] = 1 /\ b.pins["ADF_LE"] = 1
  /\ b.bits["adf"] = AdfWords[Len(AdfWords)]
  /\ IF mode = "MASTER" THEN b.regs["PIR"] = "gains" ELSE b.regs["DLYR"] = "10000"

(* A board in master or in slave mode is out of reset, its settings are    *)
(* all written and its processor is not in the middle of a load, even if   *)
(* rf-test was killed somewhere and started again on a board that was      *)
(* still in its mode (rf-lib.c:354: rf_init turns the mode off first, 386  *)
(* and 397: and on last). *)
ModeMeansConfigured ==
  build = {"rf_test"} =>
    \A b \in Boards : LET mode == boards[b].regs["CR"]
                      IN  mode \in {"SLAVE", "MASTER"} => Configured(boards[b], mode)

(* A chip takes a word only if it is the one addressed, and then the word  *)
(* sent; and when a chip is deselected it has taken the word: also on the  *)
(* lines SCLK and SDIO that the two share, with GPIO accesses that write   *)
(* back what they read (rf-lib.c:37-41).  Not so for a chip that an        *)
(* earlier, killed program left selected: it takes everything until its    *)
(* next reset. *)
SpiWordsReachTheirChip ==
  [][SetPin =>
      \A c \in SpiChips \ boards[Board].left :
        LET before == boards[Board]
            after  == boards'[Board]
            talk   == Access.chip = c
        IN  /\ TakesWord(before, after, c) => talk /\ after.bits[c] = Access.word
            /\ talk /\ after.pins[cs_n(c)] = 1 /\ before.pins[cs_n(c)] = 0
                 => before.bits[c] = Access.word]_vars

(* The ADF4002 latches whole words, each as it was meant, whatever a       *)
(* killed program had shifted into it or left on its pins                  *)
(* (rf-lib.c:250-265). *)
AdfTakesWholeWords ==
  [][\A b \in Boards : AdfLatches(boards[b], boards'[b])
       => /\ Access.chip = "adf" /\ Board = b
          /\ boards'[b].bits["adf"] = Access.word]_vars

(* All three chips take the words sent to them, whole, and no others.      *)
WordsReachTheirChip == SpiWordsReachTheirChip /\ AdfTakesWholeWords

(* Started often enough, rf-test brings both boards into their modes, and  *)
(* there they stay: no kill leaves a board in a state from which the next  *)
(* run does not recover (rf-test.c:30-32). *)
ModesComeOn ==
  build = {"rf_test"} =>
    <>[](boards[Slave].regs["CR"] = "SLAVE" /\ boards[Master].regs["CR"] = "MASTER")
=============================================================================
