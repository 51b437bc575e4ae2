-------------------------- MODULE DroppingBuffer --------------------------
(***************************************************************************)
(* rtl/streamers/dropping_buffer.vhd: the ring buffer between the receive  *)
(* streamer and its user.  A step is one rising edge of clk_i; the inputs  *)
(* sampled at the edge are the parameters of the actions.                  *)
(*                                                                         *)
(* The pointers are unsigned(f_log2_size(g_size)-1 downto 0), so they wrap *)
(* at g_size when g_size is a power of two, as every instance makes it.    *)
(***************************************************************************)
EXTENDS Naturals, Sequences

CONSTANTS Size,   \* g_size
          Data    \* the words on d_i

ASSUME SizeAssumption == Size \in Nat /\ Size >= 2

VARIABLES wr_ptr,     \* the slot the next word goes to
          rd_ptr,     \* the slot the reader takes next
          boundary,   \* one past the last accepted word
          empty_reg,  \* empty_comb of the previous cycle
          mem,        \* the slots
          d_o,        \* the registered output word ...
          d_valid_o   \* ... and whether it was read in the last cycle

vars == <<wr_ptr, rd_ptr, boundary, empty_reg, mem, d_o, d_valid_o>>

Index == 0 .. Size - 1

(* Variants marked "Faulty" are wrong on purpose: they take the place of   *)
(* the definition below them to see that a property notices.               *)

(* Arithmetic of t_counter: Inc is "+ 1", Plus an offset of at most Size,  *)
(* Dist how many times Inc leads from p to q.                              *)
(* Faulty: a size that is not a power of two. *)
IncUnwrapped(p) == p + 1

Inc(p)     == IF p = Size - 1 THEN 0 ELSE p + 1
Plus(p, k) == IF p + k < Size THEN p + k ELSE p + k - Size
Dist(p, q) == IF p <= q THEN q - p ELSE q + Size - p

empty_comb == boundary = rd_ptr

full       == Inc(wr_ptr) = rd_ptr
d_req_o    == ~full

(* The read enable of p_counters and p_mem_read. *)
Reads(req) == req /\ ~empty_reg /\ ~empty_comb

(* Faulty: the writer is not stopped by a full buffer. *)
CountersOverfill(req, valid, accept, drop) ==
  /\ boundary' = IF accept THEN wr_ptr ELSE boundary
  /\ wr_ptr' = CASE drop            -> boundary
                 [] ~drop /\ valid  -> Inc(wr_ptr)
                 [] OTHER           -> wr_ptr
  /\ rd_ptr' = IF Reads(req) THEN Inc(rd_ptr) ELSE rd_ptr

(* Faulty: an accept includes the word written in the same cycle. *)
CountersAcceptNew(req, valid, accept, drop) ==
  /\ wr_ptr' = CASE drop                    -> boundary
                 [] ~drop /\ valid /\ ~full -> Inc(wr_ptr)
                 [] OTHER                   -> wr_ptr
  /\ boundary' = IF accept THEN wr_ptr' ELSE boundary
  /\ rd_ptr' = IF Reads(req) THEN Inc(rd_ptr) ELSE rd_ptr

(* p_counters.  boundary takes the old wr_ptr, wr_ptr the old boundary. *)
Counters(req, valid, accept, drop) ==
  /\ boundary' = IF accept THEN wr_ptr ELSE boundary
  /\ wr_ptr' = CASE drop                    -> boundary
                 [] ~drop /\ valid /\ ~full -> Inc(wr_ptr)
                 [] OTHER                   -> wr_ptr
  /\ rd_ptr' = IF Reads(req) THEN Inc(rd_ptr) ELSE rd_ptr

(* Faulty: the read side never wakes up again. *)
EmptyRegSticky == empty_reg' = (empty_reg \/ empty_comb)

EmptyReg == empty_reg' = empty_comb

(* p_mem_read and p_mem_write do not look at the reset.  p_mem_write also  *)
(* writes when the buffer is full: slot wr_ptr is then the unused one.     *)
MemRead(req) ==
  /\ d_valid_o' = Reads(req)
  /\ d_o' = IF Reads(req) THEN mem[rd_ptr] ELSE d_o

MemWrite(valid, d) ==
  mem' = IF valid THEN [mem EXCEPT ![wr_ptr] = d] ELSE mem

Clock(req, valid, d, accept, drop) ==
  /\ Counters(req, valid, accept, drop)
  /\ EmptyReg
  /\ MemRead(req)
  /\ MemWrite(valid, d)

Reset(req, valid, d) ==
  /\ wr_ptr' = 0
  /\ rd_ptr' = 0
  /\ boundary' = 0
  /\ empty_reg' = TRUE
  /\ MemRead(req)
  /\ MemWrite(valid, d)

(* Power-up: the declared initial values; mem and the outputs have none.   *)
Init == /\ wr_ptr = 0 /\ rd_ptr = 0 /\ boundary = 0
        /\ empty_reg = FALSE
        /\ mem \in [Index -> Data]
        /\ d_o \in Data
        /\ d_valid_o \in BOOLEAN

(* The writer's side of the bargain: it never accepts and drops in the     *)
(* same cycle (p_counters would move boundary to wr_ptr and wr_ptr back to *)
(* the old boundary, leaving the accepted words outside the ring order).   *)
NeverBoth(accept, drop) == ~(accept /\ drop)

ClockEdge(req) ==
  \E valid, accept, drop \in BOOLEAN, d \in Data :
     NeverBoth(accept, drop) /\ Clock(req, valid, d, accept, drop)

ResetEdge == \E req, valid \in BOOLEAN, d \in Data : Reset(req, valid, d)

Next == ResetEdge \/ \E req \in BOOLEAN : ClockEdge(req)

(* The clock does not stop, and the reader asks again and again. *)
Fairness == WF_vars(Next) /\ SF_vars(ClockEdge(TRUE))

Spec     == Init /\ [][Next]_vars
FairSpec == Spec /\ Fairness

-----------------------------------------------------------------------------
TypeOK == /\ wr_ptr \in Index /\ rd_ptr \in Index /\ boundary \in Index
          /\ empty_reg \in BOOLEAN
          /\ mem \in [Index -> Data]
          /\ d_o \in Data
          /\ d_valid_o \in BOOLEAN

(* The three pointers stay in ring order: going up from rd_ptr one meets   *)
(* boundary no later than wr_ptr, so the reader never runs past the        *)
(* accepted words and the writer never laps the reader (p_counters).       *)
InOrder(r, b, w) == Dist(r, b) + Dist(b, w) = Dist(r, w)
RingOrder == InOrder(rd_ptr, boundary, wr_ptr)

(* What the ring m holds from one pointer up to another, and so the words  *)
(* of the block FIFO.                                                      *)
Slots(m, from, to) == [i \in 1 .. Dist(from, to) |-> m[Plus(from, i - 1)]]
Readable   == Slots(mem, rd_ptr, boundary)
Unaccepted == Slots(mem, boundary, wr_ptr)

Fifo == INSTANCE BlockFifo
          WITH committed <- Readable, pending <- Unaccepted,
               out <- d_o, valid <- d_valid_o, Capacity <- Size - 1

(* The buffer implements the block FIFO of one word less than its size:    *)
(* what the user reads is the accepted words, in order, once each, and     *)
(* dropped words never show, whatever is read, written, accepted, dropped  *)
(* or reset in the same cycle.                                             *)
ImplementsBlockFifo == Fifo!Spec

(* Once a word is accepted and the user keeps asking, a word comes out (or *)
(* a reset empties the buffer): the empty_reg delay never wedges the read  *)
(* side.                                                                   *)
AcceptedWordsComeOut == ~empty_comb ~> (d_valid_o \/ empty_comb)
=============================================================================
