---------------------------- MODULE VuartConsole ----------------------------
(* spec-vuart: a terminal on the virtual UART of a card.  term_main waits  *)
(* at most 10 ms for a key, sends it, and prints what the card has said.   *)
EXTENDS SpecCard

CONSTANTS
  ConsoleRequests, \* the cards its user asks for
  Keys,            \* the keys it passes on
  CtrlA,           \* the key that ends it
  MaxKeys          \* how many keys wait in the terminal at once

ASSUME KeysAssumption == MaxKeys \in Nat

VARIABLES
  console,         \* spec-vuart
  keyboard         \* what was typed and not read yet

NoConsole == [pc |-> "idle", req |-> NULL, card |-> NoHandle,
              byte |-> <<>>, need_exit |-> FALSE]

Running     == console.pc # "idle"
Area        == console.card
ConsoleEnds == console' = NoConsole

-----------------------------------------------------------------------------
Types(key) ==
  /\ Len(keyboard) < MaxKeys
  /\ keyboard' = Append(keyboard, key)
  /\ UNCHANGED <<cards, console>>

ConsoleStart(req) ==
  /\ ~Running
  /\ console' = [NoConsole EXCEPT !.pc = "open", !.req = req]
  /\ UNCHANGED <<cards, keyboard>>

(* spec_open and the head of term_main: unless the terminal is to be left  *)
(* alone (-k), what was typed ahead is flushed.                            *)
ConsoleOpen ==
  /\ console.pc = "open"
  /\ \E h \in spec_open(console.req) :
       IF h = NoHandle THEN ConsoleEnds /\ UNCHANGED keyboard
       ELSE /\ console' = [console EXCEPT !.pc = "select", !.card = h]
            /\ keyboard' \in {keyboard, <<>>}
  /\ UNCHANGED cards

(* Faulty: the exit key is passed on like the others. *)
TransferAll ==
  /\ keyboard # <<>>
  /\ keyboard' = Tail(keyboard)
  /\ console' = [console EXCEPT !.pc = "tx", !.byte = <<Head(keyboard)>>]

(* transfer_byte up to spec_vuart_tx. *)
transfer_byte ==
  /\ keyboard # <<>>
  /\ keyboard' = Tail(keyboard)
  /\ console' = IF Head(keyboard) = CtrlA
                THEN [console EXCEPT !.pc = "rx", !.need_exit = TRUE]
                ELSE [console EXCEPT !.pc = "tx", !.byte = <<Head(keyboard)>>]

(* read returns no byte: the terminal is gone. *)
TerminalGone ==
  /\ keyboard = <<>>
  /\ console' = [console EXCEPT !.pc = "rx", !.need_exit = TRUE]
  /\ UNCHANGED keyboard

(* select: a key or, when there is none, the time-out (or EINTR). *)
Select ==
  /\ console.pc = "select"
  /\ \/ transfer_byte
     \/ TerminalGone
     \/ /\ keyboard = <<>>
        /\ console' = [console EXCEPT !.pc = "rx"]
        /\ UNCHANGED keyboard
  /\ UNCHANGED cards

(* The first access when BAR0 is not mapped. *)
ConsoleSegfault ==
  /\ console.pc \in {"tx", "rx"} /\ Area = NULL
  /\ ConsoleEnds
  /\ UNCHANGED <<cards, keyboard>>

(* Faulty: the byte is written although the last one has not been taken. *)
VuartTxBlind ==
  /\ console.pc = "tx" /\ Area \in Slots
  /\ cards' = [cards EXCEPT ![Area].tdr = console.byte]
  /\ console' = [console EXCEPT !.pc = "rx", !.byte = <<>>]
  /\ UNCHANGED keyboard

(* vuart_tx waits, without limit, until the card has taken the last byte. *)
vuart_tx ==
  /\ console.pc = "tx" /\ Area \in Slots
  /\ cards[Area].tdr = <<>>
  /\ cards' = [cards EXCEPT ![Area].tdr = console.byte]
  /\ console' = [console EXCEPT !.pc = "rx", !.byte = <<>>]
  /\ UNCHANGED keyboard

(* spec_vuart_rx: one character printed ... *)
vuart_rx ==
  /\ console.pc = "rx" /\ Area \in Slots
  /\ cards[Area].fifo # <<>>
  /\ cards' = [cards EXCEPT ![Area].fifo = Tail(@)]
  /\ UNCHANGED <<console, keyboard>>

(* ... until there is none: back to select, or the terminal is restored    *)
(* and the card closed.                                                    *)
NothingToPrint ==
  /\ console.pc = "rx" /\ Area \in Slots
  /\ cards[Area].fifo = <<>>
  /\ IF console.need_exit THEN ConsoleEnds
     ELSE console' = [console EXCEPT !.pc = "select"]
  /\ UNCHANGED <<cards, keyboard>>

ConsoleNext ==
  \/ ConsoleOpen \/ Select \/ ConsoleSegfault
  \/ vuart_tx \/ vuart_rx \/ NothingToPrint

ConsoleKilled ==
  /\ Running
  /\ ConsoleEnds
  /\ UNCHANGED <<cards, keyboard>>
=============================================================================
