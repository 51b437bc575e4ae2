------------------------------ MODULE Lm32Load ------------------------------
(* The programs that load a card: spec-fwloader (the FPGA bitstream) and   *)
(* spec-cl (the firmware of the soft processor, spec_load_lm32).  Each may *)
(* be killed at any point and run again.                                   *)
EXTENDS SpecCard

CONSTANTS
  Loaders,     \* the spec-cl processes that may run at the same time
  FwRequests,  \* the cards users of spec-fwloader ask for,
  LoadRequests,\* and users of spec-cl
  Files        \* firmware files: sequences of words

ASSUME FilesAssumption == \A f \in Files : f \in Seq(STRING)
                                           /\ Len(f) \in 1 .. MemSize

VARIABLES
  fwloader,    \* spec-fwloader
  loader       \* each spec-cl

(* A program at a step, with its arguments and variables; no loop begun.   *)
At(pc, req, card, file) ==
  [pc |-> pc, req |-> req, card |-> card, file |-> file, i |-> 0]

Ended == {"idle", "done", "no_card", "failed"}

Active(p) == loader[p].pc \notin Ended

(* What remains of a process that ended: its exit status. *)
End(how) == At(how, NULL, NoHandle, NULL)

-----------------------------------------------------------------------------
(* load_binary_file: the whole file, or NULL. *)
load_binary_file == Files \cup {NULL}

FwStart(req) ==
  /\ fwloader.pc = "idle"
  /\ fwloader' = At("open", req, NoHandle, NULL)
  /\ UNCHANGED <<cards, loader>>

FwOpen ==
  /\ fwloader.pc = "open"
  /\ \E h \in spec_open(fwloader.req) :
       fwloader' = IF h = NoHandle THEN End("idle")
                   ELSE [fwloader EXCEPT !.pc = "load", !.card = h]
  /\ UNCHANGED <<cards, loader>>

(* spec_load_bitstream: without the file, or the area, nothing happens;    *)
(* loader_low_level configures the FPGA or leaves it blank.                *)
spec_load_bitstream ==
  /\ fwloader.pc = "load"
  /\ fwloader' = End("idle")
  /\ \/ UNCHANGED cards
     \/ /\ fwloader.card # NULL
        /\ \E c \in {Configured, Blank} :
             cards' = [cards EXCEPT ![fwloader.card] = c]
  /\ UNCHANGED loader

FwNext == FwOpen \/ spec_load_bitstream

-----------------------------------------------------------------------------
Goto(p, pc) == loader' = [loader EXCEPT ![p].pc = pc]

LoaderStart(p, req) ==
  /\ ~Active(p)
  /\ loader' = [loader EXCEPT ![p] = At("open", req, NoHandle, NULL)]
  /\ UNCHANGED <<cards, fwloader>>

(* main of spec-cl: spec_open, then the file. *)
LoaderOpen(p) ==
  /\ loader[p].pc = "open"
  /\ \E h \in spec_open(loader[p].req), buf \in load_binary_file :
       loader' = [loader EXCEPT ![p] =
                    IF h = NoHandle THEN End("no_card")
                    ELSE IF buf = NULL THEN End("failed")
                    ELSE At("halt", @.req, h, buf)]
  /\ UNCHANGED <<cards, fwloader>>

(* Any access through an area that was not mapped ends the process. *)
Segfault(p) ==
  /\ loader[p].pc = "halt" /\ loader[p].card = NULL
  /\ loader' = [loader EXCEPT ![p] = End("failed")]
  /\ UNCHANGED <<cards, fwloader>>

(* 0x1deadbee to the reset register ... *)
Halt(p) ==
  LET s == loader[p].card
  IN  /\ loader[p].pc = "halt" /\ s # NULL
      /\ cards' = [cards EXCEPT ![s].cpu = IF @ = "running" THEN "stopping"
                                           ELSE @]
      /\ Goto(p, "wait")
      /\ UNCHANGED fwloader

(* ... until it reads back. *)
WaitHalted(p) ==
  /\ loader[p].pc = "wait"
  /\ cards[loader[p].card].cpu = "stopped"
  /\ Goto(p, "write")
  /\ UNCHANGED <<cards, fwloader>>

(* Faulty: the index is not rewound for the loop that reads back. *)
WriteWordNoRewind(p) ==
  LET i == loader[p].i + 1
  IN  /\ loader[p].pc = "write"
      /\ cards' = [cards EXCEPT ![loader[p].card].mem[i] = loader[p].file[i]]
      /\ loader' = [loader EXCEPT ![p].i = i,
                      ![p].pc = IF i = Len(loader[p].file) THEN "verify" ELSE @]
      /\ UNCHANGED fwloader

(* One word of the loop that writes; memory may keep something else. *)
WriteWord(p) ==
  LET s == loader[p].card
      i == loader[p].i + 1
  IN  /\ loader[p].pc = "write"
      /\ \E w \in {loader[p].file[i], "damaged"} :
           cards' = [cards EXCEPT ![s].mem[i] = w]
      /\ loader' = [loader EXCEPT ![p] =
                      IF i = Len(@.file) THEN At("verify", @.req, @.card, @.file)
                      ELSE [@ EXCEPT !.i = i]]
      /\ UNCHANGED fwloader

(* Faulty: the last word is not compared. *)
VerifyAllButLast(p) ==
  LET i == loader[p].i + 1
  IN  /\ loader[p].pc = "verify"
      /\ loader' = [loader EXCEPT ![p] =
           IF i = Len(@.file) THEN At("release", @.req, @.card, @.file)
           ELSE IF cards[@.card].mem[i] # @.file[i] THEN End("failed")
           ELSE [@ EXCEPT !.i = i]]
      /\ UNCHANGED <<cards, fwloader>>

(* One word of the loop that reads back; the first difference ends the     *)
(* program, with the processor still stopped.                              *)
VerifyWord(p) ==
  LET i == loader[p].i + 1
  IN  /\ loader[p].pc = "verify"
      /\ loader' = [loader EXCEPT ![p] =
           IF cards[@.card].mem[i] # @.file[i] THEN End("failed")
           ELSE IF i = Len(@.file) THEN At("release", @.req, @.card, @.file)
           ELSE [@ EXCEPT !.i = i]]
      /\ UNCHANGED <<cards, fwloader>>

(* 0x0deadbee, spec_close and exit(0). *)
Release(p) ==
  /\ loader[p].pc = "release"
  /\ cards' = [cards EXCEPT ![loader[p].card].cpu = "running"]
  /\ loader' = [loader EXCEPT ![p] = End("done")]
  /\ UNCHANGED fwloader

LoaderNext(p) ==
  \/ LoaderOpen(p) \/ Segfault(p) \/ Halt(p) \/ WaitHalted(p)
  \/ WriteWord(p) \/ VerifyWord(p) \/ Release(p)

(* A signal ends the program where it is. *)
LoaderKilled(p) ==
  /\ Active(p)
  /\ loader' = [loader EXCEPT ![p] = End("failed")]
  /\ UNCHANGED <<cards, fwloader>>
=============================================================================
