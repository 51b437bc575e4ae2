------------------------------ MODULE DdsLink ------------------------------
(***************************************************************************)
(* A master and a slave: dds_tx_path.vhd on one card, dds_rx_path.vhd on   *)
(* another, and between them the streamers and the network as a channel    *)
(* that delivers blocks whole and in order, or loses them.  Both cards     *)
(* have the same time.  A step is an edge of the reference clocks; each    *)
(* card's clk_sys_i, from the same PLL, has an edge in every second one.   *)
(***************************************************************************)
EXTENDS DdsTxPath, DdsRxPath

CONSTANTS Beginning,     \* when the clocks start, later than Delay and a cycle
          MasterOn,      \* when the software sets cr_master_o of the master
          Start,         \* times of the first cic_ce_i
          Period,        \* cycles between two, 1024 in the hardware
          EndOfTime,     \* when the clocks stop
          MaxStall,      \* system edges the streamer holds up a block
          MaxTransport,  \* cycles from a block's last word in to its last out
          ForeignId,     \* identifier of another master ...
          MaxForeign,    \* ... and how many of its blocks arrive
          MaxSwitches    \* times the software writes cr_slave_o

ASSUME LinkAssumption ==
  /\ Start \subseteq Nat /\ Beginning \in Nat /\ Beginning > Delay + 1
  /\ Beginning <= EndOfTime
  /\ {MasterOn, Period, EndOfTime, MaxStall, MaxTransport, MaxForeign,
      MaxSwitches} \subseteq Nat
  /\ ForeignId # SlaveId

VARIABLES now,          \* the time, in cycles
          slave_phase,  \* of the slave's clk_sys_i
          next_ce,      \* when the CIC filter takes the next value
          stalls,       \* edges the block under way was held up
          sending,      \* words of the block the master is sending
          air,          \* blocks on their way, with the time they are due
          position,     \* words the slave has got of the first of them
          foreign, switches

linkVars == <<now, slave_phase, next_ce, stalls, sending, air, position,
              foreign, switches>>
vars     == <<txPathVars, rxPathVars, linkVars>>

TxSys == now % 2 = 0
RxSys == now % 2 = slave_phase

-----------------------------------------------------------------------------
(* The channel takes the words of a block as the streamer is handed them;  *)
(* with the last of them the block is on its way, or lost.                 *)
ForeignBlock == <<Word("timestamp", StampOf(now), NoId),
                  Word("acc", StampOf(now), NoId),
                  Word("tune", StampOf(now), ForeignId),
                  Word("tune", StampOf(now), ForeignId)>>

(* What of its own blocks and of others' the network takes in this step.  *)
OwnBlocks ==
  IF TxSys /\ tx_valid /\ tx_last
    THEN {<<>>, <<[words |-> Append(sending, tx_data),
                   due   |-> now + MaxTransport]>>}
    ELSE {<<>>}

ForeignBlocks ==
  IF foreign < MaxForeign
    THEN {<<>>, <<[words |-> ForeignBlock, due |-> now + MaxTransport]>>}
    ELSE {<<>>}

(* The slave gets the next word, if `get`.  It need not as long as the     *)
(* words after it can still come in time.                                  *)
WordsLeft == Len(Head(air).words) - position
MayGet(get) == IF ~RxSys \/ air = <<>> THEN ~get
               ELSE get \/ now + 2 * WordsLeft <= Head(air).due

Channel(get) ==
  /\ MayGet(get)
  /\ sending' = IF ~(TxSys /\ tx_valid) THEN sending
                ELSE IF tx_last THEN <<>> ELSE Append(sending, tx_data)
  /\ \E own \in OwnBlocks, other \in ForeignBlocks :
       /\ air' = (IF get /\ WordsLeft = 1 THEN Tail(air) ELSE air)
                   \o own \o other
       /\ foreign' = foreign + Len(other)
  /\ position' = IF ~get THEN position
                 ELSE IF WordsLeft = 1 THEN 0 ELSE position + 1

-----------------------------------------------------------------------------
(* The streamer's request: it is up but for MaxStall edges of a block.     *)
MayStall(tx_dreq) ==
  \/ tx_dreq
  \/ TxSys /\ tx_state # "WAIT_SAMPLE" /\ stalls < MaxStall

Master(tx_dreq) ==
  /\ MayStall(tx_dreq)
  /\ TakeTags(StampOf(now), TRUE, now = next_ce)
  /\ Crossing(TxSys)
  /\ IF TxSys THEN TxSysEdge(now >= MasterOn, tx_dreq) ELSE UNCHANGED txSysVars
  /\ next_ce' = IF now = next_ce THEN next_ce + Period ELSE next_ce
  /\ stalls' = IF tx_state = "WAIT_SAMPLE" THEN 0
               ELSE IF tx_dreq THEN stalls ELSE stalls + 1

(* The software writes cr_slave_o over the system's bus. *)
MayWrite(slave) ==
  slave = cr_slave_o \/ (RxSys /\ switches < MaxSwitches)

Slave(slave, get) ==
  /\ MayWrite(slave)
  /\ IF RxSys
       THEN RxSysEdge(slave, IF get THEN <<Head(air).words[position + 1]>>
                             ELSE <<>>, position = 0)
       ELSE UNCHANGED rxSysVars
  /\ RxRefEdge(StampOf(now), TRUE, RxSys)
  /\ switches' = IF slave = cr_slave_o THEN switches ELSE switches + 1

Cycle ==
  /\ now < EndOfTime
  /\ \E tx_dreq, slave, get \in BOOLEAN :
       Channel(get) /\ Master(tx_dreq) /\ Slave(slave, get)
  /\ now' = now + 1
  /\ UNCHANGED slave_phase

Stopped == now = EndOfTime /\ UNCHANGED vars

Init ==
  /\ TxPathInit /\ RxPathInit
  /\ now = Beginning /\ slave_phase \in {0, 1} /\ next_ce \in Start
  /\ stalls = 0 /\ sending = <<>> /\ air = <<>> /\ position = 0
  /\ foreign = 0 /\ switches = 0

Next == Cycle \/ Stopped

Spec == Init /\ [][Next]_vars

-----------------------------------------------------------------------------
Words   == [field : Fields, stamp : Normal,
            clk_id : {MasterId, SlaveId, ForeignId, NoId}]
Samples == [timestamp : Words, acc : Words, tune : Words]
Sums    == [utc : 0 .. TaiSize - 1, coarse : -CyclesSize .. 2 * CyclesSize]

(* Every variable holds values of its kind: the counters wrap and the      *)
(* adder's result is a time stamp of a whole second and its cycles.        *)
TypeOK ==
  /\ snap \in Normal /\ tx_data \in Words
  /\ {tune_valid, new_sample, new_sample_sys, tx_valid, tx_last,
      cr_slave_o, new_sample_sys_rx, fifo_rd, compare_enable} \subseteq BOOLEAN
  /\ crossing \in {0} \cup UNION {1 .. n : n \in SyncEdges}
  /\ tx_state \in TxPathStates /\ tx_cnt \in 0 .. CountSize - 1
  /\ rx_state \in RxPathStates /\ sample_sys \in Samples
  /\ fifo \in Seq([sample : Samples, wait : 0 .. FifoLatency])
  /\ Len(fifo) <= FifoSize
  /\ fifo_out \in Samples
  /\ {sums[1], sums[2], sums[3].sum} \subseteq Sums
  /\ sums[3].carry \in -1 .. 2
  /\ {time_adj, tm_d0} \subseteq Normal
  /\ compare \in [stage1 : BOOLEAN, done : BOOLEAN, fields : Comparison,
                  equal : BOOLEAN, great : BOOLEAN]
  /\ slave_sync \in BOOLEAN \X BOOLEAN
  /\ drv_state \in DriveStates /\ cic_state \in {"CIC_WAIT", "CIC_DONE"}
  /\ applied \in [acc : Words, tune : Words]
  /\ {rx_cnt, hit_cnt, miss_cnt} \subseteq 0 .. CounterSize - 1
  /\ now \in 0 .. EndOfTime /\ stalls \in 0 .. MaxStall

(* The samples on the reference clock's side: in the FIFO and, once it has *)
(* been read and until it is applied or missed, at its output.             *)
AtOutput == drv_state \in {"DRV_ADJUST", "DRV_WAIT_TRIGGER"}
Held == {fifo[i].sample : i \in DOMAIN fifo}
          \cup (IF AtOutput THEN {fifo_out} ELSE {})

(* The three words of a sample were snapped in one cycle and are in the    *)
(* right order, though words of other blocks come between blocks, blocks   *)
(* are lost, and slave mode may be switched on in the middle of one: what  *)
(* p_rx_fsm (dds_rx_path.vhd:176-204) takes for a sample is one that       *)
(* p_take_tags of this slave's master took.                                *)
WholeSamples ==
  \A s \in Held :
    /\ s.timestamp.field = "timestamp" /\ s.acc.field = "acc"
    /\ s.tune.field = "tune" /\ s.tune.clk_id = MasterId
    /\ s.acc.stamp = s.timestamp.stamp /\ s.tune.stamp = s.timestamp.stamp

(* The slave's tuning value changes exactly Latency cycles after the       *)
(* master's was snapped, whatever the stalls, the transport and the clock  *)
(* crossings did to it: the programmed delay and the registers of          *)
(* p_delay_timebase and timestamp_compare (dds_rx_path.vhd:253-318).       *)
Latency == Delay + 3
AppliedOnTime ==
  [][applied' # applied => applied'.tune.stamp = StampOf(now - Latency)]_vars

(* A sample that crosses in time is neither missed nor waited for after    *)
(* its time, when DRV_WAIT_TRIGGER (dds_rx_path.vhd:312-321) would wait    *)
(* for a time that has passed.                                             *)
TimeOf(stamp) == stamp.tai * Rate + stamp.cycles
InTime == /\ miss_cnt = 0
          /\ \A s \in Held : now <= TimeOf(s.timestamp.stamp) + Latency

(* Each sample p_rx_fsm has counted is on its way into the FIFO, in it, at *)
(* its output, applied, or missed: none is read twice or skipped.          *)
One(b) == IF b THEN 1 ELSE 0
NoSampleForgotten ==
  (hit_cnt + miss_cnt + Len(fifo) + One(AtOutput) + One(new_sample_sys_rx))
    % CounterSize = rx_cnt

(* The CIC filter is reset with the first sample applied and with no       *)
(* other: cic_reset_o looks at ts_hit whatever p_drive_fsm is doing        *)
(* (dds_rx_path.vhd:354).                                                  *)
CicResetWithFirst ==
  cic_reset_o(TRUE) => drv_state = "DRV_WAIT_TRIGGER" /\ hit_cnt = 0

(* The driver never waits for a time that has passed: it counts the sample *)
(* as one of its "misses" (rf-test.c:41).                                  *)
LateSamplesAreMissed ==
  drv_state = "DRV_WAIT_TRIGGER" =>
    now <= TimeOf(fifo_out.timestamp.stamp) + Latency
=============================================================================
