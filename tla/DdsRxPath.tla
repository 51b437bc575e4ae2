----------------------------- MODULE DdsRxPath -----------------------------
(***************************************************************************)
(* rtl/dds_rx_path.vhd: samples come in as blocks of words, cross to the   *)
(* reference clock through a FIFO, and each is applied when the time is    *)
(* its own time plus the programmed delay.  RxSysEdge is a rising edge of  *)
(* clk_sys_i, RefEdge of clk_ref_i.                                        *)
(*                                                                         *)
(* A sample is the three words it was made of, so that it can be told      *)
(* whether they belong together.  Outside src/: generic_async_fifo, whose  *)
(* entries become visible some reference edges after they were written,    *)
(* and gc_sync_ffs, two registers.  acc_load_o and rx_dreq never change    *)
(* and are left out, as are the resets other than slave_mode_on.           *)
(***************************************************************************)
EXTENDS Timestamps, Sequences

CONSTANTS Delay,        \* dlyr_delay_o, in cycles
          SlaveId,      \* cr_clk_id_o of the slave
          FifoSize,     \* entries of U_Sync_FIFO
          FifoLatency,  \* reference edges until an entry is visible, at most
          CounterSize   \* 2^24, where the counters wrap

ASSUME RxPathAssumption ==
  /\ Delay \in 0 .. Rate - 1 /\ FifoLatency \in Nat
  /\ {FifoSize, CounterSize} \subseteq Nat \ {0}

VARIABLES
  cr_slave_o, rx_state, sample_sys, new_sample_sys_rx, rx_cnt,  \* clk_sys_i
  fifo,
  slave_sync, fifo_out, sums, tm_d0, compare, fifo_rd,          \* clk_ref_i
  compare_enable, drv_state, applied, hit_cnt, miss_cnt, cic_state

rxSysVars  == <<cr_slave_o, rx_state, sample_sys, new_sample_sys_rx, rx_cnt>>
pipeVars   == <<fifo_out, sums, tm_d0, compare>>
driveVars  == <<slave_sync, fifo_rd, compare_enable, drv_state, applied,
                hit_cnt, miss_cnt, cic_state>>
rxPathVars == <<rxSysVars, fifo, pipeVars, driveVars>>

RxPathStates == {"RX_WAIT_SAMPLE", "RX_ACC", "RX_TUNE"}
DriveStates  == {"DRV_WAIT_SAMPLE", "DRV_READ_SAMPLE", "DRV_ADJUST",
                 "DRV_WAIT_TRIGGER"}

Increment(count) == (count + 1) % CounterSize

-----------------------------------------------------------------------------
(* Faulty, to see that a property notices: a sample starts anywhere.       *)
RxWaitSampleAnywhere(rx_word, first) ==
  /\ rx_state = "RX_WAIT_SAMPLE"
  /\ new_sample_sys_rx' = FALSE
  /\ IF rx_word # <<>>
       THEN /\ rx_state' = "RX_ACC"
            /\ sample_sys' = [sample_sys EXCEPT !.timestamp = rx_word[1]]
       ELSE UNCHANGED <<rx_state, sample_sys>>
  /\ UNCHANGED rx_cnt

(* p_rx_fsm, in an edge with rx_word, of which first says whether it is    *)
(* the first of its block; no word is <<>>, a word <<w>>.                  *)
RxWaitSample(rx_word, first) ==
  /\ rx_state = "RX_WAIT_SAMPLE"
  /\ new_sample_sys_rx' = FALSE
  /\ IF rx_word # <<>> /\ first
       THEN /\ rx_state' = "RX_ACC"
            /\ sample_sys' = [sample_sys EXCEPT !.timestamp = rx_word[1]]
       ELSE UNCHANGED <<rx_state, sample_sys>>
  /\ UNCHANGED rx_cnt

RxAcc(rx_word) ==
  /\ rx_state = "RX_ACC"
  /\ IF rx_word # <<>>
       THEN /\ rx_state' = "RX_TUNE"
            /\ sample_sys' = [sample_sys EXCEPT !.acc = rx_word[1]]
       ELSE UNCHANGED <<rx_state, sample_sys>>
  /\ UNCHANGED <<new_sample_sys_rx, rx_cnt>>

fifo_full == Len(fifo) >= FifoSize

RxTune(rx_word) ==
  /\ rx_state = "RX_TUNE"
  /\ IF rx_word # <<>>
       THEN /\ rx_state' = "RX_WAIT_SAMPLE"
            /\ sample_sys' = [sample_sys EXCEPT !.tune = rx_word[1]]
            /\ IF rx_word[1].clk_id = SlaveId
                 THEN /\ rx_cnt' = Increment(rx_cnt)
                      /\ new_sample_sys_rx' = ~fifo_full
                 ELSE UNCHANGED <<rx_cnt, new_sample_sys_rx>>
       ELSE UNCHANGED <<rx_state, sample_sys, rx_cnt, new_sample_sys_rx>>

(* The edge in which the software sets cr_slave_o to `slave`. *)
RxSysEdge(slave, rx_word, first) ==
  /\ cr_slave_o' = slave
  /\ IF cr_slave_o
       THEN \/ RxWaitSample(rx_word, first)
            \/ RxAcc(rx_word) \/ RxTune(rx_word)
       ELSE UNCHANGED <<rx_state, sample_sys, new_sample_sys_rx, rx_cnt>>

-----------------------------------------------------------------------------
(* U_Sync_FIFO: written in a system edge, read in a reference edge.  wait  *)
(* counts the edges until an entry is visible to the reader.               *)
fifo_empty == fifo = <<>> \/ Head(fifo).wait > 0

Older(entries) ==
  [i \in DOMAIN entries |->
     [entries[i] EXCEPT !.wait = IF @ > 0 THEN @ - 1 ELSE 0]]

FifoEdge(sysEdge) ==
  LET kept == Older(IF fifo_rd /\ ~fifo_empty THEN Tail(fifo) ELSE fifo)
  IN  /\ IF sysEdge /\ new_sample_sys_rx /\ ~fifo_full
           THEN \E w \in {FifoLatency, FifoLatency - 1} \ {-1} :
                  fifo' = Append(kept, [sample |-> sample_sys, wait |-> w])
           ELSE fifo' = kept
      /\ fifo_out' = IF fifo_rd /\ ~fifo_empty THEN Head(fifo).sample
                     ELSE fifo_out

-----------------------------------------------------------------------------
(* U_Add_delay, p_delay_timebase and U_Miss_Hit_Check.  The registers of   *)
(* the adder's four stages are sums; the adder runs on whatever the FIFO   *)
(* holds at its output, its valid input and output lead nowhere.           *)
time_adj == sums[4]

Pipelines(tm) ==
  /\ sums' = <<FieldSum(fifo_out.timestamp.stamp, Stamp(0, Delay)),
               sums[1],
               [sum |-> sums[2], carry |-> Carry(sums[2])],
               Normalise(sums[3].sum, sums[3].carry)>>
  /\ tm_d0' = tm
  /\ compare' = [stage1 |-> compare_enable, done |-> compare.stage1,
                 fields |-> FieldCompare(time_adj, tm_d0),
                 equal  |-> Equal(compare.fields),
                 great  |-> Great(compare.fields)]

(* Faulty, to see that a property notices: the second stage is not there. *)
ts_hit_unregistered == Equal(compare.fields)

ts_hit  == compare.equal
ts_miss == compare.great

-----------------------------------------------------------------------------
(* p_drive_fsm; slave_mode_on is cr_slave_o after two registers.           *)
slave_mode_on == slave_sync[2]

DrvOff ==
  /\ drv_state' = "DRV_WAIT_SAMPLE" /\ fifo_rd' = FALSE
  /\ compare_enable' = FALSE
  /\ hit_cnt' = 0 /\ miss_cnt' = 0
  /\ UNCHANGED applied

DrvWaitSample ==
  /\ drv_state = "DRV_WAIT_SAMPLE"
  /\ compare_enable' = FALSE
  /\ IF fifo_empty THEN UNCHANGED <<fifo_rd, drv_state>>
     ELSE fifo_rd' = TRUE /\ drv_state' = "DRV_READ_SAMPLE"
  /\ UNCHANGED <<applied, hit_cnt, miss_cnt>>

(* Faulty: the FIFO is read on. *)
DrvReadOn ==
  /\ drv_state = "DRV_READ_SAMPLE"
  /\ compare_enable' = TRUE
  /\ drv_state' = "DRV_ADJUST"
  /\ UNCHANGED <<fifo_rd, applied, hit_cnt, miss_cnt>>

DrvReadSample ==
  /\ drv_state = "DRV_READ_SAMPLE"
  /\ compare_enable' = TRUE /\ fifo_rd' = FALSE
  /\ drv_state' = "DRV_ADJUST"
  /\ UNCHANGED <<applied, hit_cnt, miss_cnt>>

DrvAdjust ==
  /\ drv_state = "DRV_ADJUST"
  /\ IF compare.done
       THEN IF ts_miss
              THEN /\ miss_cnt' = Increment(miss_cnt)
                   /\ drv_state' = "DRV_WAIT_SAMPLE"
              ELSE drv_state' = "DRV_WAIT_TRIGGER" /\ UNCHANGED miss_cnt
       ELSE UNCHANGED <<miss_cnt, drv_state>>
  /\ UNCHANGED <<fifo_rd, compare_enable, applied, hit_cnt>>

DrvWaitTrigger ==
  /\ drv_state = "DRV_WAIT_TRIGGER"
  /\ IF ts_hit
       THEN /\ applied' = [acc |-> fifo_out.acc, tune |-> fifo_out.tune]
            /\ drv_state' = "DRV_WAIT_SAMPLE"
            /\ hit_cnt' = Increment(hit_cnt)
       ELSE UNCHANGED <<applied, drv_state, hit_cnt>>
  /\ UNCHANGED <<fifo_rd, compare_enable, miss_cnt>>

DriveFsm(tm_time_valid_i) ==
  IF slave_mode_on /\ tm_time_valid_i
    THEN DrvWaitSample \/ DrvReadSample \/ DrvAdjust \/ DrvWaitTrigger
    ELSE DrvOff

(* Faulty: CIC_DONE is left again. *)
CicFsmForgets(tm_time_valid_i) ==
  cic_state' = IF drv_state = "DRV_WAIT_TRIGGER" /\ ts_hit THEN "CIC_DONE"
               ELSE "CIC_WAIT"

(* p_cic_reset_fsm and cic_reset_o. *)
CicFsm(tm_time_valid_i) ==
  cic_state' = IF ~(slave_mode_on /\ tm_time_valid_i) THEN "CIC_WAIT"
               ELSE IF drv_state = "DRV_WAIT_TRIGGER" /\ ts_hit THEN "CIC_DONE"
               ELSE cic_state

cic_reset_o(tm_time_valid_i) ==
  tm_time_valid_i /\ ts_hit /\ cic_state = "CIC_WAIT" /\ slave_mode_on

-----------------------------------------------------------------------------
(* A reference edge at time tm, which is a system edge too if sysEdge.     *)
RxRefEdge(tm, tm_time_valid_i, sysEdge) ==
  /\ FifoEdge(sysEdge)
  /\ Pipelines(tm)
  /\ slave_sync' = <<cr_slave_o, slave_sync[1]>>
  /\ DriveFsm(tm_time_valid_i)
  /\ CicFsm(tm_time_valid_i)

NoWord == [field |-> "none", stamp |-> Stamp(0, 0), clk_id |-> SlaveId]
NoSample == [timestamp |-> NoWord, acc |-> NoWord, tune |-> NoWord]

RxPathInit ==
  /\ cr_slave_o = FALSE /\ rx_state = "RX_WAIT_SAMPLE"
  /\ sample_sys = NoSample /\ new_sample_sys_rx = FALSE /\ rx_cnt = 0
  /\ fifo = <<>>
  /\ fifo_out = NoSample
  /\ LET zero == [utc |-> 0, coarse |-> 0]
     IN  sums = <<zero, zero, [sum |-> zero, carry |-> 0], Stamp(0, 0)>>
  /\ tm_d0 = Stamp(0, 0)
  /\ compare = [stage1 |-> FALSE, done |-> FALSE,
                fields |-> FieldCompare(Stamp(0, 0), Stamp(0, 0)),
                equal |-> FALSE, great |-> FALSE]
  /\ slave_sync = <<FALSE, FALSE>>
  /\ fifo_rd = FALSE /\ compare_enable = FALSE
  /\ drv_state = "DRV_WAIT_SAMPLE"
  /\ applied = [acc |-> NoWord, tune |-> NoWord]
  /\ hit_cnt = 0 /\ miss_cnt = 0 /\ cic_state = "CIC_WAIT"
=============================================================================
