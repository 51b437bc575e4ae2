-------------------------------- MODULE Host --------------------------------
(* A computer with SPEC cards: its user loads the driver and configures    *)
(* the FPGAs (load.sh), then loads firmware with spec-cl and talks to it   *)
(* with spec-vuart, at the same time and on any card.  Nothing locks a     *)
(* card: the programs meet in its registers only.                          *)
EXTENDS Lm32Load, VuartConsole

hvars == <<driver, cards, fwloader, loader, console, keyboard>>

BusyLoaders == {p \in Loaders : Active(p)}

(* Using a card whose FPGA is blank freezes the computer (speclib.h:19):   *)
(* the user waits for spec-fwloader and starts the others afterwards.      *)
Ready == /\ fwloader.pc = "idle"
         /\ driver => \A s \in Slots : cards[s].fpga

Quiet == fwloader.pc = "idle" /\ BusyLoaders = {} /\ ~Running

Insmod == /\ Quiet /\ ~driver
          /\ driver' = TRUE
          /\ UNCHANGED <<cards, fwloader, loader, console, keyboard>>

FwLoad ==
  /\ \/ /\ Quiet
        /\ \E req \in FwRequests : FwStart(req)
     \/ FwNext
  /\ UNCHANGED <<driver, console, keyboard>>

StartLoader ==
  /\ Ready
  /\ \E p \in Loaders, req \in LoadRequests : LoaderStart(p, req)
  /\ UNCHANGED <<driver, console, keyboard>>

Load(p) == LoaderNext(p) /\ UNCHANGED <<driver, console, keyboard>>

StartConsole ==
  /\ Ready
  /\ \E req \in ConsoleRequests : ConsoleStart(req)
  /\ UNCHANGED <<driver, fwloader, loader>>

RunConsole == ConsoleNext /\ UNCHANGED <<driver, fwloader, loader>>

Type == /\ \E key \in Keys \cup {CtrlA} : Types(key)
        /\ UNCHANGED <<driver, fwloader, loader>>

Kill ==
  \/ \E p \in Loaders : LoaderKilled(p) /\ UNCHANGED <<driver, console, keyboard>>
  \/ ConsoleKilled /\ UNCHANGED <<driver, fwloader, loader>>

Untouched == UNCHANGED <<driver, fwloader, loader, console, keyboard>>

CardStops(s) == Stops(s) /\ Untouched
CardTakes(s) == TakesByte(s) /\ Untouched
CardTalks(s) == Talks(s) /\ Untouched

Init ==
  /\ driver = FALSE
  /\ cards = [s \in Slots |-> Blank]
  /\ fwloader = End("idle") /\ loader = [p \in Loaders |-> End("idle")]
  /\ console = NoConsole /\ keyboard = <<>>

Next ==
  \/ Insmod \/ FwLoad \/ StartLoader \/ StartConsole \/ RunConsole
  \/ Type \/ Kill
  \/ \E p \in Loaders : Load(p)
  \/ \E s \in Slots : CardStops(s) \/ CardTakes(s) \/ CardTalks(s)

Spec == Init /\ [][Next]_hvars

(* The operating system runs every program; a processor obeys its reset;   *)
(* while it runs, its shell reads the UART again and again, and does not   *)
(* talk faster than the console prints for ever.                           *)
FairSpec ==
  /\ Spec
  /\ \A p \in Loaders : WF_hvars(Load(p))
  /\ WF_hvars(RunConsole)
  /\ SF_hvars(NothingToPrint /\ UNCHANGED <<driver, fwloader, loader>>)
  /\ \A s \in Slots : WF_hvars(CardStops(s)) /\ SF_hvars(CardTakes(s))

-----------------------------------------------------------------------------
Words == {"boot", "damaged"} \cup UNION {ToSet(f) : f \in Files}
Handles == {NoHandle, NULL} \cup Slots

TypeOK ==
  /\ driver \in BOOLEAN
  /\ \A s \in Slots :
       /\ cards[s].cpu \in {"running", "stopping", "stopped"}
       /\ cards[s].mem \in [1 .. MemSize -> Words]
       /\ Len(cards[s].tdr) <= 1 /\ Len(cards[s].fifo) <= FifoSize
  /\ \A p \in Loaders : /\ loader[p].card \in Handles
                        /\ loader[p].file # NULL =>
                             loader[p].i \in 0 .. Len(loader[p].file) - 1
  /\ console.card \in Handles /\ Len(keyboard) <= MaxKeys

(* A program that holds a card holds the one it was asked for: the scan    *)
(* settles wildcards from cards it passes by (speclib.c:51-54), and the    *)
(* areas are mapped by the numbers it leaves behind.                       *)
OpensRequestedCard ==
  \A proc \in {console, fwloader} \cup {loader[p] : p \in Loaders} :
    proc.card \in Slots => Meets(proc.card, proc.req)

(* The processor never executes a mixture of two firmwares or a damaged    *)
(* one, wherever a loader was killed, failed to verify or started over     *)
(* (speclib.c:229-251).                                                    *)
CpuRunsWholeFirmware ==
  \A s \in Slots : cards[s].cpu # "stopped" =>
    \E f \in Files \cup {BootFirmware} : IsPrefix(f, cards[s].mem)

(* A spec-cl that succeeds leaves a card loaded. *)
DoneLoaded ==
  \A p \in Loaders : loader[p].pc # "done" /\ loader'[p].pc = "done" =>
    \E s \in Slots : /\ Meets(s, loader[p].req)
                     /\ IsPrefix(loader[p].file, cards'[s].mem)
                     /\ cards'[s].cpu = "running"

(* spec-cl exits with 0 only when a card it was asked for runs the file it *)
(* read (speclib.h:17-18), whatever the console did meanwhile.             *)
SuccessMeansLoaded == [][DoneLoaded]_hvars

(* What was typed and the processor has not taken yet. *)
Pending == (IF Area \in Slots
            THEN cards[Area].tdr ELSE <<>>) \o console.byte \o keyboard

(* What a step may do to it while a console runs. *)
KeyStep ==
  (Running /\ console.pc # "open" /\ Area \in Slots /\ console'.pc # "idle")
  => \/ Pending' = Pending
     \/ \E key \in Keys \cup {CtrlA} : Pending' = Append(Pending, key)
     \/ /\ Pending # <<>> /\ Pending' = Tail(Pending)
        /\ \/ cards[Area].tdr # <<>> /\ cards'[Area].tdr = <<>>
           \/ Head(Pending) = CtrlA /\ console'.need_exit
     \/ /\ keyboard # <<>> /\ Head(keyboard) = CtrlA /\ console'.need_exit
        /\ Pending' = cards[Area].tdr \o Tail(keyboard)

(* While a console runs, what is typed goes to the end of what is pending, *)
(* and only the processor removes something, at the head, or the console   *)
(* the exit key, which never reaches a card: no key is lost, repeated or   *)
(* overtaken between the terminal, vuart_tx and the register, which has    *)
(* room for one, not even while a loader keeps the processor stopped.      *)
KeysReachCpuInOrder == [][KeyStep]_hvars

(* A program finds no card only when none meets its request (speclib.c:32, *)
(* "If one (or both) parameters are < 0, takes first available card").     *)
FindsRequestedCard ==
  [][\A p \in Loaders : loader[p].pc = "open" /\ loader'[p].pc = "no_card" =>
       ~driver \/ \A s \in Slots : ~Meets(s, loader[p].req)]_hvars

(* The processor of the console's card is stopped and no loader is there   *)
(* to release it: spec-cl was killed or failed to verify.                  *)
LeftStopped == /\ Area \in Slots => cards[Area].cpu # "running"
               /\ BusyLoaders = {}

(* C-a ends the console although the keys before it must be taken first    *)
(* (spec-vuart.c:27, 72): vuart_tx waits without a time-out and signals    *)
(* from the keyboard are off, so it takes a processor that runs.           *)
ExitKeyWorks ==
  (Running /\ console.pc # "open" /\ CtrlA \in ToSet(keyboard))
    ~> (~Running \/ LeftStopped)
=============================================================================
