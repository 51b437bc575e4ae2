----------------------------- MODULE DdsTxPath -----------------------------
(***************************************************************************)
(* rtl/dds_tx_path.vhd: each time the CIC filter takes a tuning value, the *)
(* value is snapped with its time and sent as a block of four words.       *)
(* RefEdge is a rising edge of clk_ref_i, TxSysEdge of clk_sys_i.          *)
(*                                                                         *)
(* A tuning value and a phase are known by the time stamp of the cycle     *)
(* they were snapped in, so a word is a field name and a time stamp; the   *)
(* identifier of the clock is a field of its own.  gc_pulse_synchronizer   *)
(* is outside src/: a pulse comes out some system edges after it went in,  *)
(* and one that comes in meanwhile is lost.                                *)
(***************************************************************************)
EXTENDS Timestamps

CONSTANTS SyncEdges,   \* system edges a pulse may take to cross
          CountSize,   \* 2^24, where the counters wrap
          MasterId,    \* cr_clk_id_o of the master
          NoId         \* what a word has that carries no identifier

ASSUME TxPathAssumption ==
  /\ SyncEdges \subseteq Nat \ {0} /\ SyncEdges # {}
  /\ CountSize \in Nat \ {0}
  /\ MasterId # NoId

VARIABLES tune_valid, new_sample, snap,            \* clk_ref_i
          crossing,                                \* the synchronizer
          new_sample_sys, tx_state, tx_valid, tx_last, tx_data, tx_cnt

tagVars    == <<tune_valid, new_sample, snap>>
txSysVars  == <<new_sample_sys, tx_state, tx_valid, tx_last, tx_data, tx_cnt>>
txPathVars == <<tagVars, crossing, txSysVars>>

TxPathStates == {"WAIT_SAMPLE", "TX_TIMESTAMP", "TX_ACC", "TX_TUNE", "TX_PAD"}

Word(field, stamp, id) == [field |-> field, stamp |-> stamp, clk_id |-> id]
Fields == {"none", "timestamp", "acc", "tune"}

-----------------------------------------------------------------------------
(* p_take_tags, at time tm, with the CIC filter's cic_ce_i. *)
TakeTags(tm, tm_time_valid_i, cic_ce_i) ==
  /\ tune_valid' = cic_ce_i
  /\ new_sample' = (tune_valid /\ tm_time_valid_i)
  /\ snap' = IF tune_valid /\ tm_time_valid_i THEN tm ELSE snap

(* The synchronizer counts down the edges a pulse has still to wait. *)
Crossing(sysEdge) ==
  IF crossing > 0
    THEN crossing' = IF sysEdge THEN crossing - 1 ELSE crossing
    ELSE IF new_sample THEN crossing' \in SyncEdges ELSE UNCHANGED crossing

-----------------------------------------------------------------------------
(* p_tx_fsm: every word but the first waits for the streamer's request,    *)
(* and so does the first.  The padding word repeats the word before.       *)
SendWord(field, id, next, tx_dreq) ==
  IF tx_dreq
    THEN /\ tx_data' = Word(field, snap, id)
         /\ tx_valid' = TRUE /\ tx_last' = FALSE
         /\ tx_state' = next
    ELSE /\ tx_valid' = FALSE
         /\ UNCHANGED <<tx_data, tx_last, tx_state>>

WaitSample ==
  /\ tx_state = "WAIT_SAMPLE"
  /\ tx_valid' = FALSE /\ tx_last' = FALSE
  /\ tx_state' = IF new_sample_sys THEN "TX_TIMESTAMP" ELSE tx_state
  /\ UNCHANGED <<tx_data, tx_cnt>>

TxTimestamp(tx_dreq) ==
  /\ tx_state = "TX_TIMESTAMP"
  /\ tx_cnt' = (tx_cnt + 1) % CountSize
  /\ SendWord("timestamp", NoId, "TX_ACC", tx_dreq)

TxAcc(tx_dreq) ==
  /\ tx_state = "TX_ACC"
  /\ SendWord("acc", NoId, "TX_TUNE", tx_dreq)
  /\ UNCHANGED tx_cnt

TxTune(tx_dreq) ==
  /\ tx_state = "TX_TUNE"
  /\ SendWord("tune", MasterId, "TX_PAD", tx_dreq)
  /\ UNCHANGED tx_cnt

TxPad(tx_dreq) ==
  /\ tx_state = "TX_PAD"
  /\ tx_valid' = tx_dreq
  /\ tx_last' = (tx_dreq \/ tx_last)
  /\ tx_state' = IF tx_dreq THEN "WAIT_SAMPLE" ELSE tx_state
  /\ UNCHANGED <<tx_data, tx_cnt>>

(* cr_master_o = '0' *)
TxOff == /\ tx_state' = "WAIT_SAMPLE" /\ tx_valid' = FALSE /\ tx_last' = FALSE
         /\ tx_data' = Word("none", snap, NoId) /\ tx_cnt' = 0

TxFsm(cr_master_o, tx_dreq) ==
  IF cr_master_o
    THEN \/ WaitSample \/ TxTimestamp(tx_dreq) \/ TxAcc(tx_dreq)
         \/ TxTune(tx_dreq) \/ TxPad(tx_dreq)
    ELSE TxOff

TxSysEdge(cr_master_o, tx_dreq) ==
  /\ new_sample_sys' = (crossing = 1)
  /\ TxFsm(cr_master_o, tx_dreq)

TxPathInit ==
  /\ tune_valid = FALSE /\ new_sample = FALSE /\ snap = StampOf(0)
  /\ crossing = 0
  /\ new_sample_sys = FALSE
  /\ tx_state = "WAIT_SAMPLE" /\ tx_valid = FALSE /\ tx_last = FALSE
  /\ tx_data = Word("none", StampOf(0), NoId) /\ tx_cnt = 0
=============================================================================
