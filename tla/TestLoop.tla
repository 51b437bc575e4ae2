------------------------------ MODULE TestLoop ------------------------------
(***************************************************************************)
(* The control loop of rf-lib.c (the part of its main program behind the   *)
(* return, 492-515): the phase detector's FIFO, the low-pass, the FIR      *)
(* filter, the tuning FIFO, with the ADC and the CIC at their other ends.  *)
(***************************************************************************)
EXTENDS FirFilter, Sequences

CONSTANTS
  Half,       \* the middle of the ADC's range (32768)
  Divisor,    \* what a response is divided by (24)
  Limit,      \* a tune word is at most this large (32000)
  Discards,   \* the samples thrown away first (10000)
  PdDepth, TuneDepth   \* places in the FIFOs

ASSUME LoopAssumption ==
  /\ {Half, Divisor, PdDepth, TuneDepth} \subseteq Nat \ {0}
  /\ {Limit, Discards} \subseteq Nat
  /\ -Half .. Half - 1 \subseteq Inputs

VARIABLES
  pd, tune,   \* the FIFOs
  phase,      \* where the loop is
  s,          \* the value in hand
  y0,         \* the low-pass's last output, rounded towards zero
  discards    \* samples still to be thrown away

vars == <<firVars, pd, tune, phase, s, y0, discards>>

Adc == 0 .. 2 * Half - 1

(* The output of the low-pass lies between its last one and its input,     *)
(* whatever alpha in 0 .. 1 is. *)
lowpass_process(y, x) == IF y <= x THEN y .. x ELSE x .. y

(* Faulty: only the positive side is limited. *)
ClampAbove(v) == IF v > Limit THEN Limit ELSE v

Clamp(v) == IF v < -Limit THEN -Limit ELSE IF v > Limit THEN Limit ELSE v

-----------------------------------------------------------------------------
(* read_adc waits for a sample and takes it; the first ones are dropped.   *)
PollAdc ==
  /\ phase = "poll_adc" /\ pd # <<>>
  /\ phase' = "read_adc"
  /\ UNCHANGED <<firVars, pd, tune, s, y0, discards>>

ReadAdc ==
  /\ phase = "read_adc"
  /\ s' = Head(pd) /\ pd' = Tail(pd)
  /\ IF discards > 0 THEN discards' = discards - 1 /\ phase' = "poll_adc"
     ELSE phase' = "filter" /\ UNCHANGED discards
  /\ UNCHANGED <<firVars, tune, y0>>

Filter ==
  /\ phase = "filter"
  /\ y0' \in lowpass_process(y0, s - Half)
  /\ fir_process(y0')
  /\ s' = Clamp(Window!Quot(acc', Divisor))
  /\ phase' = "poll_tune"
  /\ UNCHANGED <<pd, tune, discards>>

(* write_tune waits for a place and puts the word there. *)
PollTune ==
  /\ phase = "poll_tune" /\ Len(tune) < TuneDepth
  /\ phase' = "write_tune"
  /\ UNCHANGED <<firVars, pd, tune, s, y0, discards>>

WriteTune ==
  /\ phase = "write_tune"
  /\ tune' = IF Len(tune) < TuneDepth THEN Append(tune, s) ELSE tune
  /\ phase' = "poll_adc"
  /\ UNCHANGED <<firVars, pd, s, y0, discards>>

(* The hardware: a sample is written unless the FIFO is full, a tune word  *)
(* is taken with the next tick of the CIC. *)
AdcSample ==
  /\ \E x \in Adc : pd' = IF Len(pd) < PdDepth THEN Append(pd, x) ELSE pd
  /\ UNCHANGED <<firVars, tune, phase, s, y0, discards>>

CicTick ==
  /\ tune # <<>> /\ tune' = Tail(tune)
  /\ UNCHANGED <<firVars, pd, phase, s, y0, discards>>

-----------------------------------------------------------------------------
LoopInit == /\ fir_load
            /\ pd = <<>> /\ tune = <<>> /\ phase = "poll_adc"
            /\ s = 0 /\ y0 = 0 /\ discards = Discards

Host == PollAdc \/ ReadAdc \/ Filter \/ PollTune \/ WriteTune

LoopNext == Host \/ AdcSample \/ CicTick

LoopSpec == LoopInit /\ [][LoopNext]_vars

-----------------------------------------------------------------------------
(* Everything is in its range; a tune word is within the limits. *)
LoopTypeOK == /\ FirTypeOK /\ acc \in Int
              /\ pd \in Seq(Adc) /\ Len(pd) <= PdDepth
              /\ tune \in Seq(-Limit .. Limit) /\ Len(tune) <= TuneDepth
              /\ phase \in {"poll_adc", "read_adc", "filter", "poll_tune", "write_tune"}
              /\ s \in Int /\ y0 \in -Half .. Half - 1
              /\ discards \in 0 .. Discards
=============================================================================
