--------------------------- MODULE DdsLinkProofs ---------------------------
(***************************************************************************)
(* What DdsLink promises, for every rate, delay, period, stall and         *)
(* transport time, and the time stamp pipelines it is made of.             *)
(***************************************************************************)
EXTENDS DdsLink, TLAPS

-----------------------------------------------------------------------------
(* Time stamps: what the adder and the comparator compute.                 *)
LEMMA ModOnce ==
  ASSUME NEW m \in Nat \ {0}, NEW n \in 0 .. 2 * m - 1
  PROVE  n % m = IF n < m THEN n ELSE n - m
OBVIOUS

(* The output of the adder for inputs a and b. *)
Sum(a, b) == LET s == FieldSum(a, b) IN Normalise(s, Carry(s))

(* The seconds carried into the sum. *)
Carried(a, b) == IF a.cycles + b.cycles < Rate THEN 0 ELSE 1

(* timestamp_adder.vhd: the sum of two normal time stamps is normal, and   *)
(* it is the sum: cycles are carried into the seconds and none is lost,    *)
(* with the seconds wrapping at their width.                               *)
THEOREM SumIsExact ==
  ASSUME NEW a \in Normal, NEW b \in Normal
  PROVE  /\ Sum(a, b) \in Normal
         /\ Sum(a, b) = [tai    |-> (a.tai + b.tai + Carried(a, b)) % TaiSize,
                         cycles |-> (a.cycles + b.cycles)
                                      - Carried(a, b) * Rate]
<1> DEFINE utc    == (a.tai + b.tai) % TaiSize
           coarse == a.cycles + b.cycles
           k      == Carried(a, b)
<1>1. /\ Rate \in Nat \ {0} /\ TaiSize \in Nat \ {0}
      /\ CyclesSize \in Nat \ {0} /\ 2 * Rate <= CyclesSize
  BY TimeAssumption
<1>2. /\ a.tai \in 0 .. TaiSize - 1 /\ a.cycles \in 0 .. Rate - 1
      /\ b.tai \in 0 .. TaiSize - 1 /\ b.cycles \in 0 .. Rate - 1
  BY DEF Normal
<1>3. Signed(a.cycles) = a.cycles /\ Signed(b.cycles) = b.cycles
  BY <1>1, <1>2 DEF Signed
<1>4. FieldSum(a, b) = [utc |-> utc, coarse |-> coarse]
  BY <1>3 DEF FieldSum
<1>5. Carry(FieldSum(a, b)) = k
  BY <1>1, <1>2, <1>4 DEF Carry, Carried
<1>6. Sum(a, b) = Stamp((utc + k) % TaiSize, (coarse - k * Rate) % CyclesSize)
  BY <1>4, <1>5 DEF Sum, Normalise
<1>7. k \in {0, 1} /\ k * Rate = IF k = 0 THEN 0 ELSE Rate
  BY <1>1 DEF Carried
<1>8. coarse - k * Rate \in 0 .. Rate - 1
  BY <1>1, <1>2, <1>7 DEF Carried
<1>9. (coarse - k * Rate) % CyclesSize = coarse - k * Rate
  <2> DEFINE c == coarse - k * Rate
  <2>1. c \in 0 .. 2 * CyclesSize - 1 /\ c < CyclesSize
    BY <1>1, <1>8
  <2> HIDE DEF c
  <2>2. c % CyclesSize = c
    BY <1>1, <2>1, ModOnce
  <2> QED BY <2>2 DEF c
<1>10. (utc + k) % TaiSize = (a.tai + b.tai + k) % TaiSize
  BY <1>1, <1>2, <1>7
<1>11. (utc + k) % TaiSize \in 0 .. TaiSize - 1
  BY <1>1, <1>2, <1>7
<1>12. Sum(a, b) = [tai |-> (a.tai + b.tai + k) % TaiSize,
                    cycles |-> coarse - k * Rate]
  BY <1>6, <1>9, <1>10 DEF Stamp
<1>13. Sum(a, b) \in Normal
  BY <1>8, <1>10, <1>11, <1>12 DEF Normal
<1> QED
  BY <1>12, <1>13

(* timestamp_compare.vhd: equal_o says that two normal time stamps are     *)
(* those of one cycle, a_great_o that the first is the later one.          *)
THEOREM CompareIsTimeOrder ==
  ASSUME NEW a \in Normal, NEW b \in Normal
  PROVE  /\ Equal(FieldCompare(a, b)) <=>
              a.tai * Rate + a.cycles = b.tai * Rate + b.cycles
         /\ Great(FieldCompare(a, b)) <=>
              a.tai * Rate + a.cycles > b.tai * Rate + b.cycles
<1>1. /\ Rate \in Nat \ {0}
      /\ a.tai \in Nat /\ a.cycles \in 0 .. Rate - 1
      /\ b.tai \in Nat /\ b.cycles \in 0 .. Rate - 1
  BY TimeAssumption DEF Normal
<1>2. ASSUME NEW m \in Nat, NEW n \in Nat, m < n
      PROVE  m * Rate + Rate <= n * Rate
  <2>1. (n - (m + 1)) * Rate >= 0
    BY <1>1, <1>2
  <2> QED BY <1>1, <2>1
<1>3. LET c == FieldCompare(a, b)
      IN  /\ c.tai_less <=> a.tai < b.tai
          /\ c.tai_equal <=> a.tai = b.tai
          /\ c.cycles_less <=> a.cycles < b.cycles
          /\ c.cycles_equal <=> a.cycles = b.cycles
  BY Zenon DEF FieldCompare
<1>4. /\ Equal(FieldCompare(a, b)) <=> (a.tai = b.tai /\ a.cycles = b.cycles)
      /\ Great(FieldCompare(a, b)) <=>
           \/ ~(a.tai = b.tai \/ a.tai < b.tai)
           \/ a.tai = b.tai /\ ~(a.cycles < b.cycles \/ a.cycles = b.cycles)
  BY <1>3, Zenon DEF Equal, Great
<1> DEFINE t(x) == x.tai * Rate + x.cycles
<1>5. /\ (a.tai = b.tai /\ a.cycles = b.cycles) <=> t(a) = t(b)
      /\ ( \/ ~(a.tai = b.tai \/ a.tai < b.tai)
           \/ a.tai = b.tai /\ ~(a.cycles < b.cycles \/ a.cycles = b.cycles))
          <=> t(a) > t(b)
  <2>1. CASE a.tai < b.tai
    BY <1>1, <1>2, <2>1
  <2>2. CASE a.tai = b.tai
    BY <1>1, <2>2
  <2>3. CASE b.tai < a.tai
    <3>1. b.tai * Rate + Rate <= a.tai * Rate
      BY <1>1, <1>2, <2>3
    <3>2. t(b) < t(a)
      BY <1>1, <3>1
    <3>3. t(a) \in Int /\ t(b) \in Int
      BY <1>1
    <3> HIDE DEF t
    <3> QED BY <1>1, <2>3, <3>2, <3>3
  <2>4. a.tai < b.tai \/ a.tai = b.tai \/ b.tai < a.tai
    BY <1>1
  <2> HIDE DEF t
  <2> QED BY <2>1, <2>2, <2>3, <2>4, Zenon
<1> QED
  BY <1>4, <1>5

(* A time stamp is the count of seconds and cycles it was made of. *)
LEMMA StampIsNormal ==
  ASSUME NEW n \in Nat
  PROVE  StampOf(n) \in Normal
<1>1. Rate \in Nat \ {0} /\ TaiSize \in Nat \ {0}
  BY TimeAssumption
<1>2. n \div Rate \in Nat /\ n % Rate \in 0 .. Rate - 1
  BY <1>1
<1>3. (n \div Rate) % TaiSize \in 0 .. TaiSize - 1
  BY <1>1, <1>2
<1> QED BY <1>2, <1>3 DEF StampOf, Stamp, Normal

LEMMA TimeIsNat ==
  ASSUME NEW s \in Normal
  PROVE  TimeOf(s) \in Nat
<1>1. Rate \in Nat /\ s.tai \in Nat /\ s.cycles \in Nat
  BY TimeAssumption DEF Normal
<1>2. s.tai * Rate \in Nat
  BY <1>1
<1> QED BY <1>1, <1>2 DEF TimeOf

(* The seconds of a time stamp wrap, so that it is not later than n. *)
LEMMA StampIsBefore ==
  ASSUME NEW n \in Nat
  PROVE  TimeOf(StampOf(n)) <= n
<1> DEFINE q == n \div Rate
           r == n % Rate
           u == q % TaiSize
<1>1. Rate \in Nat \ {0} /\ TaiSize \in Nat \ {0}
  BY TimeAssumption
<1>2. q \in Nat /\ r \in Nat /\ n = Rate * q + r
  BY <1>1
<1>3. TimeOf(StampOf(n)) = u * Rate + r
  BY DEF TimeOf, StampOf, Stamp
<1> HIDE DEF q, r
<1>4. u \in Nat /\ u <= q
  BY <1>1, <1>2
<1> HIDE DEF u
<1>5. (q - u) * Rate >= 0
  BY <1>1, <1>2, <1>4
<1> QED BY <1>1, <1>2, <1>3, <1>4, <1>5

(* It is n as long as they do not. *)
LEMMA TimeOfStamp ==
  ASSUME NEW n \in Nat, n < TaiSize * Rate
  PROVE  TimeOf(StampOf(n)) = n
<1> DEFINE q == n \div Rate
           r == n % Rate
<1>1. Rate \in Nat \ {0} /\ TaiSize \in Nat \ {0}
  BY TimeAssumption
<1>2. q \in Nat /\ r \in Nat /\ n = Rate * q + r
  BY <1>1
<1>3. TimeOf(StampOf(n)) = (q % TaiSize) * Rate + r
  BY DEF TimeOf, StampOf, Stamp
<1> HIDE DEF q, r
<1>4. q < TaiSize
  <2> SUFFICES ASSUME q >= TaiSize PROVE FALSE
    BY <1>1, <1>2
  <2>1. (q - TaiSize) * Rate >= 0
    BY <1>1, <1>2
  <2> QED BY <1>1, <1>2, <2>1
<1>5. q % TaiSize = q
  BY <1>1, <1>2, <1>4
<1> QED BY <1>1, <1>2, <1>3, <1>5

(* A normal time stamp is that of the cycle it names. *)
LEMMA StampOfTime ==
  ASSUME NEW s \in Normal
  PROVE  StampOf(TimeOf(s)) = s
<1> DEFINE n == TimeOf(s)
           q == n \div Rate
           r == n % Rate
<1>1. Rate \in Nat \ {0} /\ TaiSize \in Nat \ {0}
  BY TimeAssumption
<1>2. s.tai \in 0 .. TaiSize - 1 /\ s.cycles \in 0 .. Rate - 1
  BY DEF Normal
<1>3. n \in Nat /\ n = s.tai * Rate + s.cycles
  BY TimeIsNat DEF TimeOf
<1> HIDE DEF n
<1>4. q \in Nat /\ r \in 0 .. Rate - 1 /\ n = Rate * q + r
  <2>1. n \in Nat
    BY <1>3
  <2> QED BY <1>1, <2>1
<1> HIDE DEF q, r
<1>5. q = s.tai
  <2>1. CASE q < s.tai
    <3>1. (s.tai - (q + 1)) * Rate >= 0
      BY <1>1, <1>2, <1>4, <2>1
    <3> QED BY <1>1, <1>2, <1>3, <1>4, <3>1
  <2>2. CASE q > s.tai
    <3>1. (q - (s.tai + 1)) * Rate >= 0
      BY <1>1, <1>2, <1>4, <2>2
    <3> QED BY <1>1, <1>2, <1>3, <1>4, <3>1
  <2> QED BY <1>2, <1>4, <2>1, <2>2
<1>6. r = s.cycles
  BY <1>1, <1>2, <1>3, <1>4, <1>5
<1>7. q % TaiSize = s.tai
  BY <1>1, <1>2, <1>5
<1>8. StampOf(n) = Stamp(s.tai, s.cycles)
  BY <1>6, <1>7 DEF StampOf, q, r
<1>9. s = [tai |-> s.tai, cycles |-> s.cycles]
  BY DEF Normal
<1> QED BY <1>8, <1>9 DEF Stamp, n

(* The delay of dds_rx_path.vhd, added by the pipeline, is added in time.  *)
LEMMA DelayIsAdded ==
  ASSUME NEW s \in Normal, TimeOf(s) + Delay < TaiSize * Rate
  PROVE  /\ Sum(s, Stamp(0, Delay)) \in Normal
         /\ TimeOf(Sum(s, Stamp(0, Delay))) = TimeOf(s) + Delay
<1> DEFINE d == Stamp(0, Delay)
           k == Carried(s, d)
<1>1. /\ Rate \in Nat \ {0} /\ TaiSize \in Nat \ {0}
      /\ Delay \in 0 .. Rate - 1
  BY TimeAssumption, RxPathAssumption
<1>2. d \in Normal /\ d.tai = 0 /\ d.cycles = Delay
  BY <1>1 DEF Stamp, Normal
<1>3. s.tai \in 0 .. TaiSize - 1 /\ s.cycles \in 0 .. Rate - 1
  BY DEF Normal
<1> HIDE DEF d
<1>4. k = IF s.cycles + Delay < Rate THEN 0 ELSE 1
  BY <1>2 DEF Carried
<1>5. /\ Sum(s, d) \in Normal
      /\ Sum(s, d).tai = (s.tai + k) % TaiSize
      /\ Sum(s, d).cycles = (s.cycles + Delay) - k * Rate
  <2>1. /\ Sum(s, d) \in Normal
        /\ Sum(s, d) = [tai    |-> (s.tai + d.tai + k) % TaiSize,
                        cycles |-> (s.cycles + d.cycles) - k * Rate]
    BY <1>2, SumIsExact
  <2>2. s.tai + d.tai + k = s.tai + k
    <3> HIDE DEF k
    <3> QED BY <1>2, <1>3, <1>4
  <2> HIDE DEF k
  <2> QED BY <1>2, <2>1, <2>2
<1>6. s.tai + k < TaiSize
  <2> SUFFICES ASSUME s.tai + k >= TaiSize PROVE FALSE
    BY <1>1, <1>3, <1>4
  <2>1. s.tai = TaiSize - 1 /\ s.cycles + Delay >= Rate
    BY <1>1, <1>3, <1>4
  <2>2. TimeOf(s) = TaiSize * Rate - Rate + s.cycles
    BY <1>1, <1>3, <2>1 DEF TimeOf
  <2> QED BY <1>1, <1>3, <2>1, <2>2
<1>7. Sum(s, d).tai = s.tai + k
  <2>1. k \in {0, 1}
    BY <1>4
  <2> HIDE DEF k
  <2>2. (s.tai + k) % TaiSize = s.tai + k
    BY <1>1, <1>3, <1>6, <2>1
  <2> QED BY <1>5, <2>2
<1>8. TimeOf(Sum(s, d)) = (s.tai + k) * Rate + ((s.cycles + Delay) - k * Rate)
  BY <1>5, <1>7 DEF TimeOf
<1>9. TimeOf(s) = s.tai * Rate + s.cycles
  BY DEF TimeOf
<1> HIDE DEF k
<1>10. TimeOf(Sum(s, d)) = TimeOf(s) + Delay
  <2>1. CASE k = 0
    BY <1>1, <1>3, <1>8, <1>9, <2>1
  <2>2. CASE k = 1
    BY <1>1, <1>3, <1>8, <1>9, <2>2
  <2> QED BY <1>4, <2>1, <2>2
<1> QED BY <1>5, <1>10 DEF d

(* The comparator's two outputs, in terms of time. *)
LEMMA ComparesTimes ==
  ASSUME NEW a \in Normal, NEW b \in Normal
  PROVE  /\ FieldCompare(a, b) \in Comparison
         /\ Equal(FieldCompare(a, b)) <=> TimeOf(a) = TimeOf(b)
         /\ Great(FieldCompare(a, b)) <=> TimeOf(a) > TimeOf(b)
<1>1. FieldCompare(a, b) \in Comparison
  BY DEF FieldCompare, Comparison
<1> QED BY <1>1, CompareIsTimeOrder DEF TimeOf

-----------------------------------------------------------------------------
(* The pulse synchronizer and the streamer's stalls take less than the     *)
(* time between two samples, 1024 cycles in the hardware.                  *)
Paced == \A n \in SyncEdges : 2 * n + 2 * MaxStall + 10 <= Period

(* The software turns slave mode on and leaves it on, as slave_main does.  *)
SwitchedOnce == MaxSwitches <= 1

(* The time does not wrap, which takes 2^32 seconds or more. *)
NoWrap == EndOfTime + Delay <= TaiSize * Rate

-----------------------------------------------------------------------------
(* Time stamps that have been, words and samples that carry them.          *)
Before       == {s \in Normal : TimeOf(s) < now}
Known        == {w \in Words : TimeOf(w.stamp) < now}
KnownSamples == [timestamp : Known, acc : Known, tune : Known]
KnownBlocks  == [words : Seq(Known) \ {<<>>}, due : Nat]
FirstSums    == [utc : 0 .. TaiSize - 1, coarse : 0 .. 2 * Rate - 1]

TagsTyped ==
  /\ tune_valid \in BOOLEAN /\ new_sample \in BOOLEAN
  /\ snap \in Before
  /\ crossing \in {0} \cup UNION {1 .. n : n \in SyncEdges}

TxTyped ==
  /\ new_sample_sys \in BOOLEAN /\ tx_valid \in BOOLEAN /\ tx_last \in BOOLEAN
  /\ tx_state \in TxPathStates
  /\ tx_data \in Known
  /\ tx_cnt \in 0 .. CountSize - 1

ChannelTyped ==
  /\ sending \in Seq(Known)
  /\ air \in Seq(KnownBlocks)
  /\ air = <<>> => position = 0
  /\ air # <<>> => position \in 0 .. Len(Head(air).words) - 1

RxTyped ==
  /\ cr_slave_o \in BOOLEAN /\ new_sample_sys_rx \in BOOLEAN
  /\ rx_state \in RxPathStates
  /\ sample_sys \in KnownSamples
  /\ rx_cnt \in 0 .. CounterSize - 1

FifoTyped ==
  /\ fifo \in Seq([sample : KnownSamples, wait : 0 .. FifoLatency])
  /\ Len(fifo) <= FifoSize
  /\ fifo_out \in KnownSamples
  /\ fifo_rd \in BOOLEAN

PipesTyped ==
  /\ DOMAIN sums = 1 .. 4
  /\ sums[1] \in FirstSums /\ sums[2] \in FirstSums
  /\ sums[3].sum \in FirstSums /\ sums[3].carry = Carry(sums[3].sum)
  /\ sums[4] \in Normal
  /\ tm_d0 \in Normal
  /\ compare \in [stage1 : BOOLEAN, done : BOOLEAN, fields : Comparison,
                  equal : BOOLEAN, great : BOOLEAN]

DriveTyped ==
  /\ slave_sync \in BOOLEAN \X BOOLEAN
  /\ compare_enable \in BOOLEAN
  /\ drv_state \in DriveStates
  /\ cic_state \in {"CIC_WAIT", "CIC_DONE"}
  /\ applied \in [acc : Known, tune : Known]
  /\ hit_cnt \in 0 .. CounterSize - 1 /\ miss_cnt \in 0 .. CounterSize - 1

TimeTyped ==
  /\ now \in Nat /\ Beginning <= now /\ now <= EndOfTime
  /\ next_ce \in Nat
  /\ stalls \in 0 .. MaxStall

TypeInv == /\ TagsTyped /\ TxTyped /\ ChannelTyped /\ RxTyped /\ FifoTyped
           /\ PipesTyped /\ DriveTyped /\ TimeTyped

-----------------------------------------------------------------------------
(* The master.  Cycles since the last sample was taken, and cycles until   *)
(* the next is, less one in an odd cycle: a system edge takes two.         *)
Since == now + Period - next_ce
Left  == Period - Since - (now % 2)
Takes(cycles) == Since >= 3 /\ cycles <= Left
Stalling == 2 * (MaxStall - stalls)

Pacing ==
  /\ tune_valid => Since = 1
  /\ new_sample => Since = 2
  /\ crossing > 0 => Takes(2 * crossing + 2 * MaxStall + 6)
  /\ new_sample_sys => Takes(2 * MaxStall + 6)
  /\ tx_state = "TX_TIMESTAMP" => Takes(Stalling + 4)
  /\ tx_state = "TX_ACC" => Takes(Stalling + 2)
  /\ tx_state = "TX_TUNE" => Takes(Stalling)

(* The words of a block of time stamp s. *)
TimeWord(s) == Word("timestamp", s, NoId)
AccWord(s)  == Word("acc", s, NoId)
TuneWord(s) == Word("tune", s, MasterId)

(* The words the streamer has got, or gets with the next system edge.      *)
Sent == IF tx_valid THEN Append(sending, tx_data) ELSE sending

(* At each state the words that go before it have been sent, with the time *)
(* stamp that is still in snap.                                            *)
BlockUnderWay ==
  /\ tx_state \in {"WAIT_SAMPLE", "TX_TIMESTAMP"} /\ ~tx_valid => sending = <<>>
  /\ tx_valid => (tx_last <=> tx_state = "WAIT_SAMPLE")
  /\ tx_state = "TX_TIMESTAMP" => ~tx_valid
  /\ tx_state = "TX_ACC" => Sent = <<TimeWord(snap)>>
  /\ tx_state = "TX_TUNE" => Sent = <<TimeWord(snap), AccWord(snap)>>
  /\ tx_state = "TX_PAD" =>
       \E s \in Normal : /\ Sent = <<TimeWord(s), AccWord(s), TuneWord(s)>>
                         /\ tx_data = TuneWord(s)
  /\ tx_state = "WAIT_SAMPLE" /\ tx_valid =>
       \E s \in Normal :
         Sent = <<TimeWord(s), AccWord(s), TuneWord(s), TuneWord(s)>>
  /\ now < MasterOn => tx_state = "WAIT_SAMPLE" /\ ~tx_valid

(* What the network carries: blocks of four words of which three are a     *)
(* sample, of the master's or with another identifier than the slave's.    *)
IsBlock(ws) ==
  /\ Len(ws) = 4
  /\ ws[1].field = "timestamp" /\ ws[2].field = "acc" /\ ws[3].field = "tune"
  /\ ws[2].stamp = ws[1].stamp /\ ws[3].stamp = ws[1].stamp
  /\ ws[3].clk_id = MasterId \/ ws[3].clk_id # SlaveId

BlocksInAir == \A i \in DOMAIN air : IsBlock(air[i].words)

-----------------------------------------------------------------------------
(* The slave. *)
Whole(s) ==
  /\ s.timestamp.field = "timestamp" /\ s.acc.field = "acc"
  /\ s.tune.field = "tune" /\ s.tune.clk_id = MasterId
  /\ s.acc.stamp = s.timestamp.stamp /\ s.tune.stamp = s.timestamp.stamp

(* Slave mode goes on once and through its two registers. *)
Switching ==
  /\ switches \in Nat
  /\ cr_slave_o => switches = 1
  /\ slave_sync[1] => cr_slave_o
  /\ slave_sync[2] => slave_sync[1]

(* p_rx_fsm has the words of the block that is coming in, from its first.  *)
Receiving ==
  /\ ~cr_slave_o => rx_state = "RX_WAIT_SAMPLE"
  /\ rx_state = "RX_ACC" =>
       /\ air # <<>> /\ position = 1
       /\ sample_sys.timestamp = Head(air).words[1]
  /\ rx_state = "RX_TUNE" =>
       /\ air # <<>> /\ position = 2
       /\ sample_sys.timestamp = Head(air).words[1]
       /\ sample_sys.acc = Head(air).words[2]
  /\ new_sample_sys_rx => rx_state = "RX_WAIT_SAMPLE" /\ Whole(sample_sys)

(* p_drive_fsm reads an entry that is there, and only one. *)
Reading ==
  /\ fifo_rd <=> drv_state = "DRV_READ_SAMPLE"
  /\ fifo_rd => ~fifo_empty
  /\ drv_state # "DRV_WAIT_SAMPLE" => slave_sync[2]

SamplesWhole ==
  /\ \A i \in DOMAIN fifo : Whole(fifo[i].sample)
  /\ AtOutput => Whole(fifo_out)

-----------------------------------------------------------------------------
(* The pipelines.  The time each stage of the adder will have as result:   *)
(* it is that of the sample at the FIFO's output, or past.                 *)
Adder == <<TimeOf(Normalise(sums[1], Carry(sums[1]))),
           TimeOf(Normalise(sums[2], Carry(sums[2]))),
           TimeOf(Normalise(sums[3].sum, sums[3].carry)),
           TimeOf(sums[4])>>
Stages == 1 .. 4

Due == TimeOf(fifo_out.timestamp.stamp) + Delay

(* The result of a stage meets the time this many cycles from now.         *)
IsPast(stage) == Adder[stage] < now + 3 - stage
IsDue(stage)  == AtOutput /\ Adder[stage] = Due

AddersBehind ==
  /\ \A stage \in Stages : IsPast(stage) \/ IsDue(stage)
  /\ ~AtOutput => Due < now + 3
  /\ cr_slave_o => tm_d0 = StampOf(now - 1)

(* The comparators find that time only when it is that of the sample. *)
ComparesSample ==
  /\ slave_sync[1] => /\ Equal(compare.fields) => AtOutput /\ Due = now - 2
                      /\ Great(compare.fields) => AtOutput /\ Due > now - 2
  /\ slave_sync[2] => /\ compare.equal => AtOutput /\ Due = now - 3
                      /\ compare.great => AtOutput /\ Due > now - 3

(* While p_drive_fsm waits for the comparators, they have not seen it yet. *)
NotSeenYet ==
  drv_state = "DRV_ADJUST" =>
    /\ compare_enable
    /\ ~compare.equal /\ ~compare.great
    /\ ~Equal(compare.fields) /\ ~Great(compare.fields)
    /\ IsPast(4) /\ IsPast(3)
    /\ ~compare.done => IsPast(2)
    /\ ~compare.done /\ ~compare.stage1 => IsPast(1)

NoMissYet == miss_cnt = 0
FirstHit  == cic_state = "CIC_WAIT" => hit_cnt = 0

-----------------------------------------------------------------------------
(* The kinds of values.                                                    *)
LEMMA Assumed ==
  /\ Rate \in Nat \ {0} /\ TaiSize \in Nat \ {0} /\ CyclesSize \in Nat \ {0}
  /\ 2 * Rate <= CyclesSize
  /\ Delay \in 0 .. Rate - 1 /\ FifoLatency \in Nat
  /\ FifoSize \in Nat \ {0} /\ CounterSize \in Nat \ {0}
  /\ SyncEdges \subseteq Nat \ {0} /\ SyncEdges # {} /\ CountSize \in Nat \ {0}
  /\ Beginning \in Nat /\ Beginning > Delay + 1 /\ Beginning <= EndOfTime
  /\ MasterOn \in Nat /\ Period \in Nat /\ EndOfTime \in Nat
  /\ MaxStall \in Nat /\ MaxTransport \in Nat /\ MaxForeign \in Nat
  /\ MaxSwitches \in Nat
  /\ Start \subseteq Nat /\ ForeignId # SlaveId /\ MasterId # NoId
BY TimeAssumption, TxPathAssumption, RxPathAssumption, LinkAssumption

LEMMA SeqGrows ==
  ASSUME NEW S, NEW T, S \subseteq T, NEW q \in Seq(S)
  PROVE  q \in Seq(T)
OBVIOUS

(* The second operand of every sum. *)
LEMMA FirstSumIsTyped ==
  ASSUME NEW a \in Normal, NEW b \in Normal
  PROVE  FieldSum(a, b) \in FirstSums
<1>1. /\ a.tai \in 0 .. TaiSize - 1 /\ a.cycles \in 0 .. Rate - 1
      /\ b.tai \in 0 .. TaiSize - 1 /\ b.cycles \in 0 .. Rate - 1
  BY DEF Normal
<1>2. Signed(a.cycles) = a.cycles /\ Signed(b.cycles) = b.cycles
  BY <1>1, Assumed DEF Signed
<1>3. (a.tai + b.tai) % TaiSize \in 0 .. TaiSize - 1
  BY <1>1, Assumed
<1>4. a.cycles + b.cycles \in 0 .. 2 * Rate - 1
  BY <1>1, Assumed
<1> QED BY <1>2, <1>3, <1>4 DEF FieldSum, FirstSums

LEMMA NormaliseIsTyped ==
  ASSUME NEW s \in FirstSums
  PROVE  /\ Carry(s) \in {0, 1}
         /\ Normalise(s, Carry(s)) \in Normal
<1> DEFINE k == Carry(s)
           c == s.coarse - k * Rate
<1>1. s.utc \in 0 .. TaiSize - 1 /\ s.coarse \in 0 .. 2 * Rate - 1
  BY DEF FirstSums
<1>2. k \in {0, 1} /\ k = IF s.coarse < Rate THEN 0 ELSE 1
  BY <1>1, Assumed DEF Carry
<1> HIDE DEF k
<1>3. c \in 0 .. Rate - 1
  <2>1. CASE k = 0
    BY <1>1, <1>2, <2>1, Assumed
  <2>2. CASE k = 1
    BY <1>1, <1>2, <2>2, Assumed
  <2> QED BY <1>2, <2>1, <2>2
<1> HIDE DEF c
<1>4. c % CyclesSize = c
  <2>1. c \in 0 .. 2 * CyclesSize - 1 /\ c < CyclesSize
    BY <1>3, Assumed
  <2> QED BY <2>1, ModOnce, Assumed
<1>5. (s.utc + k) % TaiSize \in 0 .. TaiSize - 1
  BY <1>1, <1>2, Assumed
<1> QED BY <1>2, <1>3, <1>4, <1>5 DEF Normalise, Stamp, Normal, k, c

LEMMA StampsKnown ==
  ASSUME now \in Nat, now' = now + 1
  PROVE  /\ Before \subseteq Before' /\ Known \subseteq Known'
         /\ StampOf(now) \in Before'
<1>1. Before \subseteq Before'
  BY TimeIsNat DEF Before
<1>2. Known \subseteq Known'
  <2> SUFFICES ASSUME NEW w \in Known PROVE w \in Known'
    OBVIOUS
  <2>1. w \in Words /\ w.stamp \in Normal
    BY DEF Known, Words
  <2> QED BY <2>1, TimeIsNat DEF Known
<1>3. StampOf(now) \in Normal /\ TimeOf(StampOf(now)) <= now
  BY StampIsNormal, StampIsBefore
<1>4. TimeOf(StampOf(now)) \in Nat
  BY <1>3, TimeIsNat
<1>5. StampOf(now) \in Before'
  BY <1>3, <1>4 DEF Before
<1> QED BY <1>1, <1>2, <1>5

Ids == {MasterId, SlaveId, ForeignId, NoId}

LEMMA WordIsKnown ==
  ASSUME NEW s \in Before', NEW f \in Fields, NEW id \in Ids
  PROVE  Word(f, s, id) \in Known'
<1>1. s \in Normal /\ TimeOf(s) < now'
  BY DEF Before
<1>2. Word(f, s, id) \in Words /\ Word(f, s, id).stamp = s
  BY <1>1 DEF Word, Words, Ids
<1> QED BY <1>1, <1>2 DEF Known

LEMMA TypeInit == Init => TypeInv
<1> SUFFICES ASSUME Init PROVE TypeInv
  OBVIOUS
<1>1. /\ Stamp(0, 0) \in Normal /\ TimeOf(Stamp(0, 0)) = 0
      /\ StampOf(0) = Stamp(0, 0)
  BY Assumed DEF Stamp, Normal, TimeOf, StampOf
<1>2. now = Beginning /\ now \in Nat /\ now > 0 /\ now <= EndOfTime
  BY Assumed DEF Init
<1>0. 0 \in 0 .. CounterSize - 1
  BY Assumed
<1> HIDE DEF Init
<1>3. Stamp(0, 0) \in Before
  BY <1>1, <1>2 DEF Before
<1>4. NoWord \in Known
  <2>1. NoWord \in Words /\ NoWord.stamp = Stamp(0, 0)
    BY <1>1 DEF NoWord, Words, Fields
  <2> QED BY <1>1, <1>2, <2>1 DEF Known
<1>5. NoSample \in KnownSamples
  BY <1>4 DEF NoSample, KnownSamples
<1>6. Word("none", StampOf(0), NoId) \in Known
  <2> DEFINE w == Word("none", StampOf(0), NoId)
  <2>1. w \in Words /\ w.stamp = Stamp(0, 0)
    BY <1>1 DEF Word, Words, Fields
  <2> HIDE DEF w
  <2>2. w \in Known
    BY <1>1, <1>2, <2>1 DEF Known
  <2> QED BY <2>2 DEF w
<1>7. TagsTyped
  BY <1>1, <1>3 DEF Init, TxPathInit, TagsTyped
<1>8. TxTyped
  <2>1. /\ new_sample_sys = FALSE /\ tx_valid = FALSE /\ tx_last = FALSE
        /\ tx_state = "WAIT_SAMPLE" /\ tx_cnt = 0
        /\ tx_data = Word("none", StampOf(0), NoId)
    BY DEF Init, TxPathInit
  <2>2. 0 \in 0 .. CountSize - 1
    BY Assumed
  <2> QED BY <1>6, <2>1, <2>2 DEF TxTyped, TxPathStates
<1>9. ChannelTyped
  BY DEF Init, ChannelTyped
<1>10. RxTyped
  <2>1. /\ cr_slave_o = FALSE /\ new_sample_sys_rx = FALSE
        /\ rx_state = "RX_WAIT_SAMPLE" /\ rx_cnt = 0
        /\ sample_sys = NoSample
    BY DEF Init, RxPathInit
  <2> QED BY <1>5, <1>0, <2>1 DEF RxTyped, RxPathStates
<1>11. FifoTyped
  <2>1. fifo = <<>> /\ fifo_out = NoSample /\ fifo_rd = FALSE
    BY DEF Init, RxPathInit
  <2>2. Len(<<>>) <= FifoSize
    BY Assumed
  <2> DEFINE S == [sample : KnownSamples, wait : 0 .. FifoLatency]
  <2> HIDE DEF S
  <2>3. fifo \in Seq(S)
    BY <2>1
  <2> QED BY <1>5, <2>1, <2>2, <2>3 DEF FifoTyped, S
<1>12. PipesTyped
  <2> DEFINE zero == [utc |-> 0, coarse |-> 0]
  <2>1. zero \in FirstSums /\ Carry(zero) = 0
    BY Assumed DEF FirstSums, Carry
  <2>2. sums = <<zero, zero, [sum |-> zero, carry |-> 0], Stamp(0, 0)>>
    BY DEF Init, RxPathInit
  <2> HIDE DEF zero
  <2>3. /\ DOMAIN sums = 1 .. 4
        /\ sums[1] \in FirstSums /\ sums[2] \in FirstSums
        /\ sums[3].sum \in FirstSums /\ sums[3].carry = Carry(sums[3].sum)
        /\ sums[4] \in Normal
    BY <1>1, <2>1, <2>2
  <2>4. FieldCompare(Stamp(0, 0), Stamp(0, 0)) \in Comparison
    BY <1>1, ComparesTimes
  <2>5. compare \in [stage1 : BOOLEAN, done : BOOLEAN, fields : Comparison,
                     equal : BOOLEAN, great : BOOLEAN]
    BY <2>4 DEF Init, RxPathInit
  <2> QED BY <1>1, <2>3, <2>5 DEF PipesTyped, Init, RxPathInit
<1>13. DriveTyped
  <2>1. /\ slave_sync = <<FALSE, FALSE>> /\ compare_enable = FALSE
        /\ drv_state = "DRV_WAIT_SAMPLE" /\ cic_state = "CIC_WAIT"
        /\ applied = [acc |-> NoWord, tune |-> NoWord]
        /\ hit_cnt = 0 /\ miss_cnt = 0
    BY DEF Init, RxPathInit
  <2>2. applied \in [acc : Known, tune : Known]
    BY <1>4, <2>1
  <2> QED BY <1>0, <2>1, <2>2 DEF DriveTyped, DriveStates
<1>14. TimeTyped
  BY <1>2, Assumed DEF Init, TimeTyped
<1> QED
  BY <1>7, <1>8, <1>9, <1>10, <1>11, <1>12, <1>13, <1>14 DEF TypeInv

(* A step, taken apart: what the handlers of the two cards do in it. *)
Step(tx_dreq, slave, get) ==
  /\ now < EndOfTime /\ now' = now + 1
  /\ Channel(get) /\ Master(tx_dreq) /\ Slave(slave, get)

LEMMA TagsStep ==
  ASSUME TypeInv, NEW tx_dreq \in BOOLEAN, NEW slave \in BOOLEAN,
         NEW get \in BOOLEAN, Step(tx_dreq, slave, get)
  PROVE  TagsTyped'
<1>1. now \in Nat /\ now' = now + 1
  BY DEF Step, TypeInv, TimeTyped
<1>2. /\ TakeTags(StampOf(now), TRUE, now = next_ce)
      /\ Crossing(TxSys)
  BY DEF Step, Master
<1>3. Before \subseteq Before' /\ StampOf(now) \in Before'
  BY <1>1, StampsKnown
<1>4. TagsTyped
  BY DEF TypeInv
<1>5. tune_valid' \in BOOLEAN /\ new_sample' \in BOOLEAN /\ snap' \in Before'
  BY <1>2, <1>3, <1>4 DEF TakeTags, TagsTyped
<1>6. crossing' \in {0} \cup UNION {1 .. n : n \in SyncEdges}
  <2> DEFINE C == {0} \cup UNION {1 .. n : n \in SyncEdges}
  <2>1. ASSUME NEW n \in SyncEdges PROVE n \in C
    <3>1. n \in 1 .. n
      BY Assumed
    <3> QED BY <3>1
  <2>2. crossing > 0 => crossing - 1 \in C
    <3> SUFFICES ASSUME crossing > 0, crossing # 1 PROVE crossing - 1 \in C
      OBVIOUS
    <3>1. PICK n \in SyncEdges : crossing \in 1 .. n
      BY <1>4 DEF TagsTyped
    <3>2. crossing - 1 \in 1 .. n
      BY <3>1, Assumed
    <3> QED BY <3>2
  <2>3. crossing \in C
    BY <1>4 DEF TagsTyped
  <2> HIDE DEF C
  <2>4. crossing' \in C
    BY <1>2, <2>1, <2>2, <2>3 DEF Crossing
  <2> QED BY <2>4 DEF C
<1> QED BY <1>5, <1>6 DEF TagsTyped

LEMMA TxStep ==
  ASSUME TypeInv, NEW tx_dreq \in BOOLEAN, NEW slave \in BOOLEAN,
         NEW get \in BOOLEAN, Step(tx_dreq, slave, get)
  PROVE  TxTyped'
<1>1. now \in Nat /\ now' = now + 1 /\ TxTyped /\ snap \in Before
  BY DEF Step, TypeInv, TimeTyped, TagsTyped
<1>2. /\ snap \in Before' /\ Known \subseteq Known'
  BY <1>1, StampsKnown
<1>3. \A f \in Fields, id \in Ids : Word(f, snap, id) \in Known'
  BY <1>2, WordIsKnown
<1>4. /\ tx_state \in TxPathStates /\ tx_cnt \in 0 .. CountSize - 1
      /\ tx_data \in Known'
      /\ tx_valid \in BOOLEAN /\ tx_last \in BOOLEAN
      /\ new_sample_sys \in BOOLEAN
  BY <1>1, <1>2 DEF TxTyped
<1>5. CASE ~TxSys
  <2>1. UNCHANGED txSysVars
    BY <1>5 DEF Step, Master
  <2> QED BY <1>4, <2>1 DEF txSysVars, TxTyped
<1>6. CASE TxSys
  <2> DEFINE on == now >= MasterOn
  <2>1. TxSysEdge(on, tx_dreq)
    BY <1>6 DEF Step, Master
  <2> HIDE DEF on
  <2>2. new_sample_sys' \in BOOLEAN
    BY <2>1 DEF TxSysEdge
  <2>3. /\ (tx_cnt + 1) % CountSize \in 0 .. CountSize - 1
        /\ 0 \in 0 .. CountSize - 1
    BY <1>4, Assumed
  <2>4. ASSUME NEW f \in Fields, NEW id \in Ids, NEW next \in TxPathStates,
               SendWord(f, id, next, tx_dreq)
        PROVE  /\ tx_data' \in Known' /\ tx_valid' \in BOOLEAN
               /\ tx_last' \in BOOLEAN /\ tx_state' \in TxPathStates
    BY <1>3, <1>4, <2>4 DEF SendWord
  <2> DEFINE Good == /\ tx_valid' \in BOOLEAN /\ tx_last' \in BOOLEAN
                     /\ tx_state' \in TxPathStates /\ tx_data' \in Known'
                     /\ tx_cnt' \in 0 .. CountSize - 1
  <2>5. ASSUME WaitSample PROVE Good
    BY <1>4, <2>5 DEF WaitSample, TxPathStates
  <2>6. ASSUME TxTimestamp(tx_dreq) PROVE Good
    <3>1. "timestamp" \in Fields /\ NoId \in Ids /\ "TX_ACC" \in TxPathStates
      BY DEF Fields, Ids, TxPathStates
    <3> QED BY <2>3, <2>4, <2>6, <3>1 DEF TxTimestamp
  <2>7. ASSUME TxAcc(tx_dreq) PROVE Good
    <3>1. "acc" \in Fields /\ NoId \in Ids /\ "TX_TUNE" \in TxPathStates
      BY DEF Fields, Ids, TxPathStates
    <3> QED BY <1>4, <2>4, <2>7, <3>1 DEF TxAcc
  <2>8. ASSUME TxTune(tx_dreq) PROVE Good
    <3>1. "tune" \in Fields /\ MasterId \in Ids /\ "TX_PAD" \in TxPathStates
      BY DEF Fields, Ids, TxPathStates
    <3> QED BY <1>4, <2>4, <2>8, <3>1 DEF TxTune
  <2>9. ASSUME TxPad(tx_dreq) PROVE Good
    BY <1>4, <2>9 DEF TxPad, TxPathStates
  <2>10. ASSUME TxOff PROVE Good
    <3>1. "none" \in Fields /\ NoId \in Ids
      BY DEF Fields, Ids
    <3> QED BY <1>3, <2>3, <2>10, <3>1 DEF TxOff, TxPathStates
  <2>11. Good
    <3> HIDE DEF Good
    <3> QED BY <2>1, <2>5, <2>6, <2>7, <2>8, <2>9, <2>10
            DEF TxSysEdge, TxFsm
  <2> QED BY <2>2, <2>11 DEF TxTyped
<1> QED BY <1>5, <1>6

(* The word the slave gets, if it gets one. *)
Got(get) == IF get THEN <<Head(air).words[position + 1]>> ELSE <<>>

LEMMA GotIsKnown ==
  ASSUME TypeInv, NEW get \in BOOLEAN, MayGet(get), get
  PROVE  /\ RxSys /\ air # <<>>
         /\ air[1] \in KnownBlocks /\ Head(air) = air[1]
         /\ position \in 0 .. Len(Head(air).words) - 1
         /\ Head(air).words[position + 1] \in Known
<1>1. RxSys /\ air # <<>>
  BY DEF MayGet
<1>2. air \in Seq(KnownBlocks) /\ position \in 0 .. Len(Head(air).words) - 1
  BY <1>1 DEF TypeInv, ChannelTyped
<1>3. Head(air) = air[1] /\ air[1] \in KnownBlocks
  <2> DEFINE S == KnownBlocks
  <2> HIDE DEF S
  <2>1. air \in Seq(S)
    BY <1>2 DEF S
  <2>2. Head(air) = air[1] /\ air[1] \in S
    BY <1>1, <2>1
  <2> QED BY <2>2 DEF S
<1>4. Head(air).words \in Seq(Known)
  BY <1>3 DEF KnownBlocks
<1>5. Head(air).words[position + 1] \in Known
  BY <1>2, <1>4
<1> QED BY <1>1, <1>2, <1>3, <1>5

(* What the network may take in a step: the master's block when its last   *)
(* word is handed over, and another master's.                              *)
Coming ==
  {[words |-> ForeignBlock, due |-> now + MaxTransport]}
    \cup (IF TxSys /\ tx_valid /\ tx_last
            THEN {[words |-> Append(sending, tx_data),
                   due   |-> now + MaxTransport]}
            ELSE {})

(* The last word of the first block is taken with it. *)
LastWord(get) == get /\ WordsLeft = 1
Kept(get) == IF LastWord(get) THEN Tail(air) ELSE air

LEMMA QueueJoins ==
  ASSUME NEW S, NEW p \in Seq(S), NEW q \in Seq(S)
  PROVE  /\ p \o q \in Seq(S)
         /\ Len(p \o q) = Len(p) + Len(q)
         /\ \A i \in 1 .. Len(p) + Len(q) :
              (p \o q)[i] = IF i <= Len(p) THEN p[i] ELSE q[i - Len(p)]
         /\ p # <<>> => p \o q # <<>> /\ Head(p \o q) = Head(p)
OBVIOUS

LEMMA ForeignBlockIsKnown ==
  ASSUME now \in Nat, now' = now + 1
  PROVE  ForeignBlock \in Seq(Known')
<1>1. StampOf(now) \in Before'
  BY StampsKnown
<1>2. \A f \in Fields, id \in Ids : Word(f, StampOf(now), id) \in Known'
  BY <1>1, WordIsKnown
<1>3. /\ Word("timestamp", StampOf(now), NoId) \in Known'
      /\ Word("acc", StampOf(now), NoId) \in Known'
      /\ Word("tune", StampOf(now), ForeignId) \in Known'
  BY <1>2 DEF Fields, Ids
<1> DEFINE a == Word("timestamp", StampOf(now), NoId)
           b == Word("acc", StampOf(now), NoId)
           c == Word("tune", StampOf(now), ForeignId)
           K == Known'
<1> HIDE DEF a, b, c, K
<1>4. <<a, b, c, c>> \in Seq(K)
  BY <1>3 DEF a, b, c, K
<1> QED BY <1>4 DEF a, b, c, K, ForeignBlock

LEMMA ComingIsKnown ==
  ASSUME TypeInv, now' = now + 1
  PROVE  Coming \subseteq KnownBlocks'
<1>1. /\ now \in Nat /\ sending \in Seq(Known) /\ tx_data \in Known
  BY DEF TypeInv, TimeTyped, ChannelTyped, TxTyped
<1>2. Known \subseteq Known'
  BY <1>1, StampsKnown
<1>3. now + MaxTransport \in Nat
  BY <1>1, Assumed
<1>4. sending \in Seq(Known')
  BY <1>1, <1>2, SeqGrows
<1>5. Append(sending, tx_data) \in Seq(Known') \ {<<>>}
  <2> DEFINE K == Known'
  <2> HIDE DEF K
  <2>1. sending \in Seq(K) /\ tx_data \in K
    BY <1>1, <1>2, <1>4 DEF K
  <2>2. Append(sending, tx_data) \in Seq(K) \ {<<>>}
    BY <2>1
  <2> QED BY <2>2 DEF K
<1>6. ForeignBlock \in Seq(Known') \ {<<>>}
  <2>1. ForeignBlock # <<>>
    BY DEF ForeignBlock
  <2> QED BY <1>1, <2>1, ForeignBlockIsKnown
<1>7. ASSUME NEW w \in Seq(Known') \ {<<>>}
      PROVE  [words |-> w, due |-> now + MaxTransport] \in KnownBlocks'
  BY <1>3 DEF KnownBlocks
<1> QED BY <1>5, <1>6, <1>7 DEF Coming

(* How the queue of blocks moves. *)
LEMMA AirMoves ==
  ASSUME TypeInv, NEW tx_dreq \in BOOLEAN, NEW slave \in BOOLEAN,
         NEW get \in BOOLEAN, Step(tx_dreq, slave, get)
  PROVE  /\ Kept(get) \in Seq(KnownBlocks')
         /\ \E new \in Seq(Coming) : new \in Seq(KnownBlocks')
                                     /\ air' = Kept(get) \o new
<1> DEFINE B == KnownBlocks'
<1>1. now \in Nat /\ now' = now + 1 /\ air \in Seq(KnownBlocks)
  BY DEF Step, TypeInv, TimeTyped, ChannelTyped
<1>2. Known \subseteq Known'
  BY <1>1, StampsKnown
<1>3. KnownBlocks \subseteq B
  <2> SUFFICES ASSUME NEW b \in KnownBlocks PROVE b \in B
    OBVIOUS
  <2>1. b.words \in Seq(Known) \ {<<>>}
    BY DEF KnownBlocks
  <2>2. b.words \in Seq(Known')
    BY <1>2, <2>1, SeqGrows
  <2> QED BY <2>1, <2>2 DEF KnownBlocks
<1> HIDE DEF B
<1>4. air \in Seq(B)
  BY <1>1, <1>3, SeqGrows
<1>5. MayGet(get)
  BY DEF Step, Channel
<1>6. Kept(get) \in Seq(B)
  <2>1. LastWord(get) => air # <<>>
    BY <1>5 DEF LastWord, MayGet
  <2> QED BY <1>4, <2>1 DEF Kept
<1>7. PICK own \in OwnBlocks, other \in ForeignBlocks :
        air' = (IF get /\ WordsLeft = 1 THEN Tail(air) ELSE air)
                 \o own \o other
  BY DEF Step, Channel
<1>8. Coming \subseteq B
  BY <1>1, ComingIsKnown DEF B
<1> DEFINE b1 == [words |-> Append(sending, tx_data),
                  due   |-> now + MaxTransport]
           b2 == [words |-> ForeignBlock, due |-> now + MaxTransport]
<1>9. own \in {<<>>, <<b1>>} /\ (own # <<>> => b1 \in Coming)
  BY DEF OwnBlocks, Coming
<1>10. other \in {<<>>, <<b2>>} /\ b2 \in Coming
  BY DEF ForeignBlocks, Coming
<1> HIDE DEF b1, b2
<1> DEFINE C == Coming
<1>11. own \in Seq(C) /\ other \in Seq(C)
  <2>1. b2 \in C /\ (own # <<>> => b1 \in C)
    BY <1>9, <1>10
  <2> HIDE DEF C
  <2>2. \A b \in C : <<b>> \in Seq(C)
    OBVIOUS
  <2>3. <<>> \in Seq(C)
    OBVIOUS
  <2>4. own \in Seq(C)
    BY <1>9, <2>1, <2>2, <2>3
  <2>5. other \in Seq(C)
    BY <1>10, <2>1, <2>2, <2>3
  <2> QED BY <2>4, <2>5
<1> HIDE DEF C
<1>12. own \o other \in Seq(C)
  BY <1>11
<1>13. own \in Seq(B) /\ other \in Seq(B) /\ own \o other \in Seq(B)
  <2>1. C \subseteq B
    BY <1>8 DEF C
  <2> QED BY <1>11, <1>12, <2>1, SeqGrows
<1>14. air' = Kept(get) \o own \o other
  BY <1>7 DEF Kept, LastWord
<1>15. air' = Kept(get) \o (own \o other)
  BY <1>6, <1>13, <1>14
<1> QED BY <1>6, <1>12, <1>13, <1>15 DEF B, C

LEMMA ChannelStep ==
  ASSUME TypeInv, NEW tx_dreq \in BOOLEAN, NEW slave \in BOOLEAN,
         NEW get \in BOOLEAN, Step(tx_dreq, slave, get)
  PROVE  ChannelTyped'
<1> DEFINE B == KnownBlocks'
           K == Known'
<1>1. /\ now \in Nat /\ now' = now + 1
      /\ sending \in Seq(Known) /\ tx_data \in Known /\ air \in Seq(KnownBlocks)
      /\ air = <<>> => position = 0
  BY DEF Step, TypeInv, TimeTyped, ChannelTyped, TxTyped
<1>2. Known \subseteq K
  BY <1>1, StampsKnown
<1>3. MayGet(get)
  BY DEF Step, Channel
<1>4. sending' \in Seq(K)
  <2> HIDE DEF K
  <2>1. sending \in Seq(K) /\ tx_data \in K
    BY <1>1, <1>2, SeqGrows
  <2>2. sending' = IF ~(TxSys /\ tx_valid) THEN sending
                   ELSE IF tx_last THEN <<>> ELSE Append(sending, tx_data)
    BY DEF Step, Channel
  <2>3. <<>> \in Seq(K) /\ Append(sending, tx_data) \in Seq(K)
    BY <2>1
  <2> QED BY <2>1, <2>2, <2>3
<1>5. PICK new \in Seq(Coming) :
        /\ Kept(get) \in Seq(B) /\ new \in Seq(B)
        /\ air' = Kept(get) \o new
  BY AirMoves
<1>6. /\ air' \in Seq(B)
      /\ Kept(get) # <<>> => air' # <<>> /\ Head(air') = Head(Kept(get))
  <2> HIDE DEF B
  <2> QED BY <1>5, QueueJoins
<1>7. air' # <<>> => Head(air') \in B
  <2> HIDE DEF B
  <2> QED BY <1>6
<1>8. air' # <<>> => Len(Head(air').words) \in Nat \ {0}
  <2> SUFFICES ASSUME air' # <<>>
               PROVE  Len(Head(air').words) \in Nat \ {0}
    OBVIOUS
  <2>1. Head(air').words \in Seq(K) \ {<<>>}
    BY <1>7 DEF KnownBlocks
  <2> HIDE DEF K
  <2> QED BY <2>1
<1>9. position' = IF ~get THEN position
                  ELSE IF WordsLeft = 1 THEN 0 ELSE position + 1
  BY DEF Step, Channel
<1>10. /\ air' = <<>> => position' = 0
       /\ air' # <<>> => position' \in 0 .. Len(Head(air').words) - 1
  <2>1. CASE ~get
    <3>1. Kept(get) = air /\ position' = position
      BY <1>9, <2>1 DEF Kept, LastWord
    <3>2. CASE air = <<>>
      BY <1>1, <1>8, <3>1, <3>2
    <3>3. CASE air # <<>>
      <4>1. position \in 0 .. Len(Head(air).words) - 1
        BY <3>3 DEF TypeInv, ChannelTyped
      <4> QED BY <1>6, <3>1, <3>3, <4>1
    <3> QED BY <3>2, <3>3
  <2>2. CASE get /\ WordsLeft = 1
    BY <1>8, <1>9, <2>2
  <2>3. CASE get /\ WordsLeft # 1
    <3>1. Kept(get) = air /\ position' = position + 1
      BY <1>9, <2>3 DEF Kept, LastWord
    <3>2. air # <<>> /\ position \in 0 .. Len(Head(air).words) - 1
      BY <1>3, <2>3, GotIsKnown
    <3>3. Head(air') = Head(air) /\ air' # <<>>
      BY <1>6, <3>1, <3>2
    <3>4. Len(Head(air).words) \in Nat
      BY <1>8, <3>3
    <3>5. position + 1 # Len(Head(air).words)
      BY <2>3, <3>2, <3>4 DEF WordsLeft
    <3> QED BY <3>1, <3>2, <3>3, <3>4, <3>5
  <2> QED BY <2>1, <2>2, <2>3
<1> QED BY <1>4, <1>6, <1>10 DEF ChannelTyped

LEMMA RxStep ==
  ASSUME TypeInv, NEW tx_dreq \in BOOLEAN, NEW slave \in BOOLEAN,
         NEW get \in BOOLEAN, Step(tx_dreq, slave, get)
  PROVE  RxTyped'
<1>1. now \in Nat /\ now' = now + 1 /\ RxTyped
  BY DEF Step, TypeInv, TimeTyped
<1>2. Known \subseteq Known'
  BY <1>1, StampsKnown
<1>3. /\ cr_slave_o \in BOOLEAN /\ new_sample_sys_rx \in BOOLEAN
      /\ rx_state \in RxPathStates /\ rx_cnt \in 0 .. CounterSize - 1
      /\ sample_sys \in KnownSamples
  BY <1>1 DEF RxTyped
<1>4. KnownSamples \subseteq KnownSamples'
  BY <1>2 DEF KnownSamples
<1>5. CASE ~RxSys
  <2>1. UNCHANGED rxSysVars
    BY <1>5 DEF Step, Slave
  <2> QED BY <1>3, <1>4, <2>1 DEF rxSysVars, RxTyped
<1>6. CASE RxSys
  <2>1. RxSysEdge(slave, Got(get), position = 0)
    BY <1>6 DEF Step, Slave, Got
  <2>2. MayGet(get)
    BY DEF Step, Channel
  <2>3. Got(get) # <<>> => Got(get)[1] \in Known'
    <3> SUFFICES ASSUME get PROVE Head(air).words[position + 1] \in Known'
      BY DEF Got
    <3> QED BY <1>2, <2>2, GotIsKnown
  <2>4. Increment(rx_cnt) \in 0 .. CounterSize - 1
    BY <1>3, Assumed DEF Increment
  <2> DEFINE w == Got(get)
             S == KnownSamples'
  <2>5. sample_sys \in S
    BY <1>3, <1>4
  <2>6. w # <<>> =>
          /\ [sample_sys EXCEPT !.timestamp = w[1]] \in S
          /\ [sample_sys EXCEPT !.acc = w[1]] \in S
          /\ [sample_sys EXCEPT !.tune = w[1]] \in S
    BY <2>3, <2>5 DEF KnownSamples
  <2> HIDE DEF w, S
  <2>7. cr_slave_o' = slave
    BY <2>1 DEF RxSysEdge
  <2> DEFINE Good == /\ new_sample_sys_rx' \in BOOLEAN
                     /\ rx_state' \in RxPathStates
                     /\ sample_sys' \in S
                     /\ rx_cnt' \in 0 .. CounterSize - 1
  <2>8. ASSUME RxWaitSample(w, position = 0) PROVE Good
    BY <1>3, <2>5, <2>6, <2>8 DEF RxWaitSample, RxPathStates
  <2>9. ASSUME RxAcc(w) PROVE Good
    BY <1>3, <2>5, <2>6, <2>9 DEF RxAcc, RxPathStates
  <2>10. ASSUME RxTune(w) PROVE Good
    BY <1>3, <2>4, <2>5, <2>6, <2>10 DEF RxTune, RxPathStates
  <2>11. CASE ~cr_slave_o
    <3>1. UNCHANGED <<rx_state, sample_sys, new_sample_sys_rx, rx_cnt>>
      BY <2>1, <2>11 DEF RxSysEdge
    <3> QED BY <1>3, <2>5, <2>7, <3>1 DEF RxTyped, S
  <2>12. CASE cr_slave_o
    <3>1. Good
      <4> HIDE DEF Good
      <4>1. RxWaitSample(w, position = 0) \/ RxAcc(w) \/ RxTune(w)
        BY <2>1, <2>12 DEF RxSysEdge, w
      <4> QED BY <2>8, <2>9, <2>10, <4>1
    <3> QED BY <2>7, <3>1 DEF RxTyped, S
  <2> QED BY <2>11, <2>12
<1> QED BY <1>5, <1>6

LEMMA FifoStep ==
  ASSUME TypeInv, NEW tx_dreq \in BOOLEAN, NEW slave \in BOOLEAN,
         NEW get \in BOOLEAN, Step(tx_dreq, slave, get)
  PROVE  FifoTyped'
<1>1. now \in Nat /\ now' = now + 1 /\ FifoTyped /\ RxTyped /\ DriveTyped
  BY DEF Step, TypeInv, TimeTyped
<1> DEFINE S == KnownSamples'
           E == [sample : S, wait : 0 .. FifoLatency]
           E0 == [sample : KnownSamples, wait : 0 .. FifoLatency]
<1>2. KnownSamples \subseteq S
  <2>1. Known \subseteq Known'
    BY <1>1, StampsKnown
  <2> QED BY <2>1 DEF KnownSamples
<1>3. FifoEdge(RxSys) /\ DriveFsm(TRUE)
  BY DEF Step, Slave, RxRefEdge
<1>4. fifo \in Seq(E) /\ sample_sys \in S /\ fifo_out \in S
  <2>1. fifo \in Seq(E0) /\ sample_sys \in S /\ fifo_out \in S
    BY <1>1, <1>2 DEF FifoTyped, RxTyped
  <2>2. E0 \subseteq E
    BY <1>2
  <2> HIDE DEF E, E0
  <2> QED BY <2>1, <2>2, SeqGrows
<1> HIDE DEF S
<1>5. \A q \in Seq(E) : Older(q) \in Seq(E) /\ Len(Older(q)) = Len(q)
  <2> SUFFICES ASSUME NEW q \in Seq(E)
               PROVE  Older(q) \in Seq(E) /\ Len(Older(q)) = Len(q)
    OBVIOUS
  <2>1. ASSUME NEW e \in E
        PROVE  [e EXCEPT !.wait = IF @ > 0 THEN @ - 1 ELSE 0] \in E
    <3>1. (IF e.wait > 0 THEN e.wait - 1 ELSE 0) \in 0 .. FifoLatency
      BY Assumed
    <3> DEFINE v == IF e.wait > 0 THEN e.wait - 1 ELSE 0
    <3>2. [e EXCEPT !.wait = v] \in E
      <4> HIDE DEF v
      <4>1. v \in 0 .. FifoLatency
        BY <3>1 DEF v
      <4> QED BY <4>1
    <3> QED BY <3>2
  <2>2. \A i \in 1 .. Len(q) : q[i] \in E
    <3> HIDE DEF E
    <3> QED OBVIOUS
  <2>3. Older(q) \in [1 .. Len(q) -> E]
    <3>1. Older(q) = [i \in 1 .. Len(q) |->
                        [q[i] EXCEPT !.wait = IF @ > 0 THEN @ - 1 ELSE 0]]
      <4> HIDE DEF E
      <4>1. DOMAIN q = 1 .. Len(q)
        OBVIOUS
      <4> QED BY <4>1 DEF Older
    <3>2. \A i \in 1 .. Len(q) :
            [q[i] EXCEPT !.wait = IF @ > 0 THEN @ - 1 ELSE 0] \in E
      BY <2>1, <2>2
    <3> HIDE DEF E
    <3> QED BY <3>1, <3>2
  <2> HIDE DEF E
  <2>4. Len(q) \in Nat
    OBVIOUS
  <2> QED BY <2>3, <2>4
<1> DEFINE rest == IF fifo_rd /\ ~fifo_empty THEN Tail(fifo) ELSE fifo
           kept == Older(rest)
<1>6. rest \in Seq(E) /\ Len(rest) <= Len(fifo)
  <2>1. ~fifo_empty => fifo # <<>>
    BY DEF fifo_empty
  <2> HIDE DEF E
  <2> QED BY <1>4, <2>1
<1> HIDE DEF rest
<1>7. kept \in Seq(E) /\ Len(kept) <= Len(fifo) /\ Len(kept) \in Nat
  <2>1. kept \in Seq(E) /\ Len(kept) = Len(rest)
    BY <1>5, <1>6
  <2> HIDE DEF E, kept
  <2> QED BY <1>4, <1>6, <2>1
<1> HIDE DEF kept
<1>8. Len(fifo) \in Nat /\ Len(fifo) <= FifoSize
  <2> HIDE DEF E
  <2> QED BY <1>1, <1>4 DEF FifoTyped
<1>9. fifo' \in Seq(E) /\ Len(fifo') <= FifoSize
  <2>1. CASE RxSys /\ new_sample_sys_rx /\ ~fifo_full
    <3>1. PICK w \in {FifoLatency, FifoLatency - 1} \ {-1} :
            fifo' = Append(kept, [sample |-> sample_sys, wait |-> w])
      BY <1>3, <2>1 DEF FifoEdge, kept, rest
    <3>2. w \in 0 .. FifoLatency
      BY Assumed
    <3> DEFINE e == [sample |-> sample_sys, wait |-> w]
    <3>3. e \in E
      BY <1>4, <3>2
    <3> HIDE DEF e, E
    <3>4. fifo' = Append(kept, e)
      BY <3>1 DEF e
    <3>5. Len(fifo') = Len(kept) + 1 /\ fifo' \in Seq(E)
      BY <1>7, <3>3, <3>4
    <3>6. Len(fifo) < FifoSize
      BY <1>8, <2>1, Assumed DEF fifo_full
    <3> QED BY <1>7, <1>8, <3>5, <3>6, Assumed
  <2>2. CASE ~(RxSys /\ new_sample_sys_rx /\ ~fifo_full)
    <3>1. fifo' = kept
      BY <1>3, <2>2 DEF FifoEdge, kept, rest
    <3> HIDE DEF E
    <3> QED BY <1>7, <1>8, <3>1, Assumed
  <2> QED BY <2>1, <2>2
<1>10. fifo_out' \in S
  <2>1. ~fifo_empty => Head(fifo) \in E
    <3>1. ~fifo_empty => fifo # <<>>
      BY DEF fifo_empty
    <3> HIDE DEF E
    <3> QED BY <1>4, <3>1
  <2>2. ~fifo_empty => Head(fifo).sample \in S
    BY <2>1
  <2>3. fifo_out' = IF fifo_rd /\ ~fifo_empty THEN Head(fifo).sample
                    ELSE fifo_out
    BY <1>3 DEF FifoEdge
  <2> HIDE DEF E
  <2> QED BY <1>4, <2>2, <2>3
<1>11. fifo_rd' \in BOOLEAN
  BY <1>1, <1>3 DEF FifoTyped, DriveFsm, DrvWaitSample, DrvReadSample,
                    DrvAdjust, DrvWaitTrigger, DrvOff
<1> QED BY <1>9, <1>10, <1>11 DEF FifoTyped, S

LEMMA PipesStep ==
  ASSUME TypeInv, NEW tx_dreq \in BOOLEAN, NEW slave \in BOOLEAN,
         NEW get \in BOOLEAN, Step(tx_dreq, slave, get)
  PROVE  PipesTyped'
<1>1. /\ now \in Nat /\ PipesTyped
      /\ compare_enable \in BOOLEAN /\ fifo_out \in KnownSamples
  BY DEF Step, TypeInv, TimeTyped, DriveTyped, FifoTyped
<1>2. Pipelines(StampOf(now))
  BY DEF Step, Slave, RxRefEdge
<1>3. fifo_out.timestamp.stamp \in Normal
  BY <1>1 DEF KnownSamples, Known, Words
<1>4. Stamp(0, Delay) \in Normal
  BY Assumed DEF Stamp, Normal
<1>5. FieldSum(fifo_out.timestamp.stamp, Stamp(0, Delay)) \in FirstSums
  BY <1>3, <1>4, FirstSumIsTyped
<1>6. /\ sums[1] \in FirstSums /\ sums[2] \in FirstSums
      /\ sums[3].sum \in FirstSums /\ sums[3].carry = Carry(sums[3].sum)
      /\ sums[4] \in Normal /\ tm_d0 \in Normal
  BY <1>1 DEF PipesTyped
<1>7. Normalise(sums[3].sum, sums[3].carry) \in Normal
  BY <1>6, NormaliseIsTyped
<1>8. /\ DOMAIN sums' = 1 .. 4
      /\ sums'[1] \in FirstSums /\ sums'[2] \in FirstSums
      /\ sums'[3].sum \in FirstSums /\ sums'[3].carry = Carry(sums'[3].sum)
      /\ sums'[4] \in Normal
  BY <1>2, <1>5, <1>6, <1>7 DEF Pipelines
<1>9. tm_d0' \in Normal
  BY <1>1, <1>2, StampIsNormal DEF Pipelines
<1>10. FieldCompare(time_adj, tm_d0) \in Comparison
  BY <1>6, ComparesTimes DEF time_adj
<1>11. Equal(compare.fields) \in BOOLEAN /\ Great(compare.fields) \in BOOLEAN
  BY DEF Equal, Great
<1>12. compare.stage1 \in BOOLEAN
  BY <1>1 DEF PipesTyped
<1>13. compare' \in [stage1 : BOOLEAN, done : BOOLEAN, fields : Comparison,
                     equal : BOOLEAN, great : BOOLEAN]
  BY <1>1, <1>2, <1>10, <1>11, <1>12 DEF Pipelines
<1> QED BY <1>8, <1>9, <1>13 DEF PipesTyped

LEMMA DriveStep ==
  ASSUME TypeInv, NEW tx_dreq \in BOOLEAN, NEW slave \in BOOLEAN,
         NEW get \in BOOLEAN, Step(tx_dreq, slave, get)
  PROVE  DriveTyped'
<1>1. /\ now \in Nat /\ now' = now + 1 /\ DriveTyped
      /\ fifo_out \in KnownSamples /\ cr_slave_o \in BOOLEAN
  BY DEF Step, TypeInv, TimeTyped, FifoTyped, RxTyped
<1>2. DriveFsm(TRUE) /\ CicFsm(TRUE) /\ slave_sync' = <<cr_slave_o, slave_sync[1]>>
  BY DEF Step, Slave, RxRefEdge
<1>3. Known \subseteq Known'
  BY <1>1, StampsKnown
<1>4. /\ slave_sync \in BOOLEAN \X BOOLEAN /\ compare_enable \in BOOLEAN
      /\ drv_state \in DriveStates /\ cic_state \in {"CIC_WAIT", "CIC_DONE"}
      /\ applied \in [acc : Known', tune : Known']
      /\ hit_cnt \in 0 .. CounterSize - 1 /\ miss_cnt \in 0 .. CounterSize - 1
  BY <1>1, <1>3 DEF DriveTyped
<1>5. /\ Increment(hit_cnt) \in 0 .. CounterSize - 1
      /\ Increment(miss_cnt) \in 0 .. CounterSize - 1
      /\ 0 \in 0 .. CounterSize - 1
  BY <1>4, Assumed DEF Increment
<1>6. [acc |-> fifo_out.acc, tune |-> fifo_out.tune]
        \in [acc : Known', tune : Known']
  BY <1>1, <1>3 DEF KnownSamples
<1>7. slave_sync' \in BOOLEAN \X BOOLEAN
  BY <1>1, <1>2, <1>4
<1>8. cic_state' \in {"CIC_WAIT", "CIC_DONE"}
  BY <1>2, <1>4 DEF CicFsm
<1> DEFINE A == [acc : Known', tune : Known']
           C == 0 .. CounterSize - 1
           Good == /\ compare_enable' \in BOOLEAN
                   /\ drv_state' \in DriveStates
                   /\ applied' \in A
                   /\ hit_cnt' \in C /\ miss_cnt' \in C
<1>9. /\ applied \in A /\ hit_cnt \in C /\ miss_cnt \in C /\ 0 \in C
      /\ Increment(hit_cnt) \in C /\ Increment(miss_cnt) \in C
      /\ [acc |-> fifo_out.acc, tune |-> fifo_out.tune] \in A
  BY <1>4, <1>5, <1>6
<1> HIDE DEF A, C
<1>10. Good
  <2>1. ASSUME DrvOff PROVE Good
    BY <1>9, <2>1 DEF DrvOff, DriveStates
  <2>2. ASSUME DrvWaitSample PROVE Good
    BY <1>4, <1>9, <2>2 DEF DrvWaitSample, DriveStates
  <2>3. ASSUME DrvReadSample PROVE Good
    BY <1>9, <2>3 DEF DrvReadSample, DriveStates
  <2>4. ASSUME DrvAdjust PROVE Good
    BY <1>4, <1>9, <2>4 DEF DrvAdjust, DriveStates
  <2>5. ASSUME DrvWaitTrigger PROVE Good
    BY <1>4, <1>9, <2>5 DEF DrvWaitTrigger, DriveStates
  <2> HIDE DEF Good
  <2> QED BY <1>2, <2>1, <2>2, <2>3, <2>4, <2>5 DEF DriveFsm
<1> QED BY <1>7, <1>8, <1>10 DEF DriveTyped, A, C

LEMMA TimeStep ==
  ASSUME TypeInv, NEW tx_dreq \in BOOLEAN, NEW slave \in BOOLEAN,
         NEW get \in BOOLEAN, Step(tx_dreq, slave, get)
  PROVE  TimeTyped'
<1>1. /\ TimeTyped /\ now < EndOfTime /\ now' = now + 1
      /\ next_ce' = IF now = next_ce THEN next_ce + Period ELSE next_ce
      /\ stalls' = IF tx_state = "WAIT_SAMPLE" THEN 0
                   ELSE IF tx_dreq THEN stalls ELSE stalls + 1
      /\ MayStall(tx_dreq)
  BY DEF Step, TypeInv, Master
<1>2. stalls' \in 0 .. MaxStall
  <2>1. ~tx_dreq => tx_state # "WAIT_SAMPLE" /\ stalls < MaxStall
    BY <1>1 DEF MayStall
  <2> QED BY <1>1, <2>1, Assumed DEF TimeTyped
<1> QED BY <1>1, <1>2, Assumed DEF TimeTyped

(* Every step keeps the kinds of the values. *)
LEMMA StoppedKeepsTypes == TypeInv /\ UNCHANGED vars => TypeInv'
BY DEF TypeInv, TagsTyped, TxTyped, ChannelTyped, RxTyped, FifoTyped,
       PipesTyped, DriveTyped, TimeTyped, vars, txPathVars, rxPathVars,
       linkVars, tagVars, txSysVars, rxSysVars, pipeVars, driveVars,
       Known, Before, KnownSamples, KnownBlocks

LEMMA StepKeepsTypes ==
  ASSUME TypeInv, NEW tx_dreq \in BOOLEAN, NEW slave \in BOOLEAN,
         NEW get \in BOOLEAN, Step(tx_dreq, slave, get)
  PROVE  TypeInv'
BY TagsStep, TxStep, ChannelStep, RxStep, FifoStep, PipesStep, DriveStep,
   TimeStep DEF TypeInv

LEMMA NextIsStep ==
  Next <=> \/ \E tx_dreq, slave, get \in BOOLEAN :
                Step(tx_dreq, slave, get) /\ UNCHANGED slave_phase
           \/ Stopped
BY DEF Next, Cycle, Step

LEMMA TypeStep == TypeInv /\ [Next]_vars => TypeInv'
<1> SUFFICES ASSUME TypeInv, [Next]_vars PROVE TypeInv'
  OBVIOUS
<1>1. CASE \E tx_dreq, slave, get \in BOOLEAN : Step(tx_dreq, slave, get)
  BY <1>1, StepKeepsTypes
<1>2. CASE UNCHANGED vars
  BY <1>2, StoppedKeepsTypes
<1> QED BY <1>1, <1>2, NextIsStep DEF Stopped

(* Every variable keeps the kind of value it starts with (TypeOK).         *)
LEMMA TypeInvIsType == TypeInv => TypeOK
<1> SUFFICES ASSUME TypeInv PROVE TypeOK
  OBVIOUS
<1>1. Before \subseteq Normal /\ Known \subseteq Words
  BY DEF Before, Known
<1>2. KnownSamples \subseteq Samples
  BY <1>1 DEF KnownSamples, Samples
<1>3. FirstSums \subseteq Sums
  <2> SUFFICES ASSUME NEW s \in FirstSums PROVE s \in Sums
    OBVIOUS
  <2>1. /\ s = [utc |-> s.utc, coarse |-> s.coarse]
        /\ s.utc \in 0 .. TaiSize - 1 /\ s.coarse \in 0 .. 2 * Rate - 1
    BY DEF FirstSums
  <2>2. s.coarse \in -CyclesSize .. 2 * CyclesSize
    BY <2>1, Assumed
  <2> QED BY <2>1, <2>2 DEF Sums
<1>4. snap \in Normal /\ tx_data \in Words /\ sample_sys \in Samples
      /\ fifo_out \in Samples
  BY <1>1, <1>2 DEF TypeInv, TagsTyped, TxTyped, RxTyped, FifoTyped
<1>5. {tune_valid, new_sample, new_sample_sys, tx_valid, tx_last,
       cr_slave_o, new_sample_sys_rx, fifo_rd, compare_enable} \subseteq BOOLEAN
  BY DEF TypeInv, TagsTyped, TxTyped, RxTyped, FifoTyped, DriveTyped
<1>6. fifo \in Seq([sample : Samples, wait : 0 .. FifoLatency])
  <2>1. [sample : KnownSamples, wait : 0 .. FifoLatency]
          \subseteq [sample : Samples, wait : 0 .. FifoLatency]
    BY <1>2
  <2> DEFINE S == [sample : KnownSamples, wait : 0 .. FifoLatency]
             T == [sample : Samples, wait : 0 .. FifoLatency]
  <2>2. fifo \in Seq(S)
    BY DEF TypeInv, FifoTyped
  <2> HIDE DEF S, T
  <2>3. fifo \in Seq(T)
    BY <2>1, <2>2, SeqGrows DEF S, T
  <2> QED BY <2>3 DEF T
<1>7. {sums[1], sums[2], sums[3].sum} \subseteq Sums
  BY <1>3 DEF TypeInv, PipesTyped
<1>8. sums[3].carry \in -1 .. 2
  <2>1. sums[3].carry \in {0, 1}
    BY NormaliseIsTyped DEF TypeInv, PipesTyped
  <2> QED BY <2>1
<1>9. applied \in [acc : Words, tune : Words]
  BY <1>1 DEF TypeInv, DriveTyped
<1>10. {time_adj, tm_d0} \subseteq Normal
  BY DEF TypeInv, PipesTyped, time_adj
<1>11. /\ {rx_cnt, hit_cnt, miss_cnt} \subseteq 0 .. CounterSize - 1
       /\ now \in 0 .. EndOfTime /\ stalls \in 0 .. MaxStall
  BY Assumed DEF TypeInv, RxTyped, DriveTyped, TimeTyped
<1> QED
  BY <1>4, <1>5, <1>6, <1>7, <1>8, <1>9, <1>10, <1>11
  DEF TypeOK, TypeInv, TagsTyped, TxTyped, RxTyped, FifoTyped, PipesTyped,
      DriveTyped

(* dds_tx_path.vhd, dds_rx_path.vhd: every variable keeps the kind of      *)
(* value it starts with: the counters wrap, the states are the cases' and  *)
(* the adder's result is a time stamp.                                     *)
THEOREM TypeCorrect == Spec => []TypeOK
BY TypeInit, TypeStep, TypeInvIsType, PTL DEF Spec

-----------------------------------------------------------------------------
(* The master sends whole blocks.                                          *)
LEMMA PacingInit == Init => Pacing
BY DEF Init, TxPathInit, Pacing

LEMMA PacingStep ==
  ASSUME TypeInv, Pacing, Paced, NEW tx_dreq \in BOOLEAN,
         NEW slave \in BOOLEAN, NEW get \in BOOLEAN, Step(tx_dreq, slave, get)
  PROVE  Pacing'
<1>1. /\ now \in Nat /\ now' = now + 1 /\ next_ce \in Nat
      /\ stalls \in 0 .. MaxStall /\ stalls' \in 0 .. MaxStall
      /\ MaxStall \in Nat /\ Period \in Nat
  BY TimeStep, Assumed DEF Step, TypeInv, TimeTyped
<1>2. /\ TakeTags(StampOf(now), TRUE, now = next_ce)
      /\ Crossing(TxSys) /\ MayStall(tx_dreq)
      /\ IF TxSys THEN TxSysEdge(now >= MasterOn, tx_dreq)
         ELSE UNCHANGED txSysVars
      /\ next_ce' = IF now = next_ce THEN next_ce + Period ELSE next_ce
      /\ stalls' = IF tx_state = "WAIT_SAMPLE" THEN 0
                   ELSE IF tx_dreq THEN stalls ELSE stalls + 1
  BY DEF Step, Master
<1>3. /\ now % 2 \in {0, 1} /\ (now + 1) % 2 = 1 - (now % 2)
  BY <1>1
<1> DEFINE e == now % 2
<1>4. e \in {0, 1} /\ (TxSys <=> e = 0)
  BY <1>3 DEF TxSys
<1>5. /\ Since \in Int /\ Left \in Int
      /\ now = next_ce => Since = Period /\ Left = 0 - e /\ Since' = 1
      /\ now # next_ce => /\ Since' = Since + 1
                          /\ Left' = Left - 2 + 2 * e
  BY <1>1, <1>2, <1>3 DEF Since, Left
<1>6. Left = Period - Since - e
  BY DEF Left
<1> HIDE DEF e
(* What is under way may go on by two cycles in each system edge. *)
<1>7. ASSUME NEW n \in Nat, NEW m \in Nat, Since >= 3, n <= Left,
             (e = 1 /\ m <= n) \/ m + 2 <= n
      PROVE  Since' >= 3 /\ m <= Left'
  BY <1>4, <1>5, <1>7
<1>8. \A n \in SyncEdges : n \in Nat /\ 2 * n + 2 * MaxStall + 10 <= Period
  BY Assumed DEF Paced
<1>9. Period >= 10
  <2>1. PICK n \in SyncEdges : TRUE
    BY Assumed
  <2> QED BY <1>1, <1>8, <2>1
<1>10. tune_valid' => Since' = 1
  BY <1>2, <1>5 DEF TakeTags
<1>11. new_sample' => Since' = 2
  <2> SUFFICES ASSUME tune_valid PROVE Since' = 2
    BY <1>2 DEF TakeTags
  <2>1. Since = 1
    BY DEF Pacing
  <2> QED BY <1>1, <1>5, <1>9, <2>1
<1>12. crossing \in Nat /\ crossing' \in Nat
  <2>1. \A c : c \in {0} \cup UNION {1 .. n : n \in SyncEdges} => c \in Nat
    BY Assumed
  <2>2. TagsTyped /\ TagsTyped'
    BY TagsStep DEF TypeInv
  <2> QED BY <2>1, <2>2 DEF TagsTyped
<1>13. crossing' > 0 =>
         Since' >= 3 /\ 2 * crossing' + 2 * MaxStall + 6 <= Left'
  <2> DEFINE n == 2 * crossing + 2 * MaxStall + 6
             m == 2 * crossing' + 2 * MaxStall + 6
  <2>1. CASE crossing > 0
    <3>1. crossing' = IF e = 0 THEN crossing - 1 ELSE crossing
      BY <1>2, <1>4, <2>1 DEF Crossing
    <3>2. n \in Nat /\ m \in Nat /\ ((e = 1 /\ m <= n) \/ m + 2 <= n)
      BY <1>1, <1>4, <1>12, <3>1
    <3>3. Since >= 3 /\ n <= Left
      BY <2>1 DEF Pacing, Takes
    <3> HIDE DEF n, m
    <3>4. Since' >= 3 /\ m <= Left'
      BY <1>7, <3>2, <3>3
    <3> QED BY <3>4 DEF m
  <2>2. CASE ~(crossing > 0) /\ crossing' > 0
    <3>1. new_sample /\ crossing' \in SyncEdges
      BY <1>2, <1>12, <2>2 DEF Crossing
    <3>2. Since = 2
      BY <3>1 DEF Pacing
    <3>3. now # next_ce
      BY <1>1, <1>5, <1>9, <3>2
    <3>4. Since' = 3 /\ Left' = Period - 4 + e
      BY <1>1, <1>4, <1>5, <1>6, <3>2, <3>3
    <3>5. \A k \in SyncEdges :
            2 * k + 2 * MaxStall + 6 <= (Period - 4) + e
      BY <1>1, <1>4, <1>8
    <3> QED BY <3>1, <3>4, <3>5
  <2> QED BY <2>1, <2>2
<1>14. new_sample_sys' => Since' >= 3 /\ 2 * MaxStall + 6 <= Left'
  <2> DEFINE m == 2 * MaxStall + 6
             n == 2 * 1 + 2 * MaxStall + 6
  <2>0. m \in Nat /\ n \in Nat /\ m <= m /\ m + 2 <= n
    BY <1>1
  <2>1. CASE e = 1
    <3>1. new_sample_sys' = new_sample_sys
      BY <1>2, <1>4, <2>1 DEF txSysVars
    <3>2. new_sample_sys => Since >= 3 /\ m <= Left
      BY DEF Pacing, Takes
    <3> HIDE DEF m
    <3>3. new_sample_sys => Since' >= 3 /\ m <= Left'
      BY <1>7, <2>0, <2>1, <3>2
    <3> QED BY <3>1, <3>3 DEF m
  <2>2. CASE e = 0
    <3>1. new_sample_sys' = (crossing = 1)
      BY <1>2, <1>4, <2>2 DEF TxSysEdge
    <3>2. crossing = 1 => Since >= 3 /\ n <= Left
      BY DEF Pacing, Takes
    <3> HIDE DEF m, n
    <3>3. crossing = 1 => Since' >= 3 /\ m <= Left'
      BY <1>7, <2>0, <3>2
    <3> QED BY <3>1, <3>3 DEF m
  <2> QED BY <1>4, <2>1, <2>2
<1>15. Stalling \in Nat /\ Stalling' \in Nat
  <2>1. \A i \in 0 .. MaxStall : 2 * (MaxStall - i) \in Nat
    BY Assumed
  <2> QED BY <1>1, <2>1 DEF Stalling
(* What is left for each state and for its successor. *)
<1> DEFINE L(state) == IF state = "TX_TIMESTAMP" THEN 4
                       ELSE IF state = "TX_ACC" THEN 2 ELSE 0
           Busy == {"TX_TIMESTAMP", "TX_ACC", "TX_TUNE"}
           n == Stalling + L(tx_state)
           m == Stalling' + L(tx_state')
<1>16. /\ L(tx_state) \in {0, 2, 4} /\ L(tx_state') \in {0, 2, 4}
       /\ n \in Nat /\ m \in Nat
  <2>1. L(tx_state) \in {0, 2, 4} /\ L(tx_state') \in {0, 2, 4}
    OBVIOUS
  <2> HIDE DEF L
  <2> QED BY <1>15, <2>1
<1>17. tx_state \in Busy => Since >= 3 /\ n <= Left
  <2>1. Stalling + 0 = Stalling
    BY <1>15
  <2> QED BY <2>1 DEF Pacing, Takes
<1>18. tx_state' \in Busy => Since' >= 3 /\ m <= Left'
  <2>1. CASE e = 1
    <3>1. tx_state' = tx_state
      BY <1>2, <1>4, <2>1 DEF txSysVars
    <3>2. tx_state \in Busy => m = n
      BY <1>2, <1>4, <2>1, <3>1 DEF Stalling, MayStall
    <3> HIDE DEF n, m
    <3> QED BY <1>7, <1>16, <1>17, <2>1, <3>1, <3>2
  <2>2. CASE e = 0 /\ tx_state \in Busy /\ tx_state' \in Busy
    <3>1. TxSysEdge(now >= MasterOn, tx_dreq)
      BY <1>2, <1>4, <2>2
    <3>2. \/ TxTimestamp(tx_dreq) \/ TxAcc(tx_dreq) \/ TxTune(tx_dreq)
      BY <2>2, <3>1 DEF TxSysEdge, TxFsm, WaitSample, TxPad, TxOff
    <3>3. CASE tx_dreq
      <4>1. L(tx_state') + 2 = L(tx_state)
        BY <2>2, <3>2, <3>3 DEF TxTimestamp, TxAcc, TxTune, SendWord
      <4>2. Stalling' = Stalling
        BY <1>2, <2>2, <3>3 DEF Stalling
      <4>3. m + 2 <= n
        <5>1. \A i, j, l \in Nat : i + 2 = j => (l + i) + 2 <= l + j
          OBVIOUS
        <5>2. L(tx_state) \in Nat /\ L(tx_state') \in Nat
          BY <1>16
        <5> HIDE DEF L
        <5> QED BY <1>15, <4>1, <4>2, <5>1, <5>2
      <4> HIDE DEF n, m
      <4> QED BY <1>7, <1>16, <1>17, <2>2, <4>3
    <3>4. CASE ~tx_dreq
      <4>1. tx_state' = tx_state
        BY <3>2, <3>4 DEF TxTimestamp, TxAcc, TxTune, SendWord
      <4>2. Stalling' + 2 = Stalling
        BY <1>1, <1>2, <2>2, <3>4 DEF Stalling
      <4>3. m + 2 <= n
        <5>1. \A i, j, l \in Nat : j + 2 = l => (j + i) + 2 <= l + i
          OBVIOUS
        <5>2. L(tx_state) \in Nat
          BY <1>16
        <5>3. L(tx_state') = L(tx_state)
          BY <4>1
        <5> HIDE DEF L
        <5>4. m = Stalling' + L(tx_state)
          BY <5>3
        <5> QED BY <1>15, <4>2, <5>1, <5>2, <5>4
      <4> HIDE DEF n, m
      <4> QED BY <1>7, <1>16, <1>17, <2>2, <4>3
    <3> QED BY <3>3, <3>4
  <2>3. CASE e = 0 /\ tx_state \notin Busy /\ tx_state' \in Busy
    <3>1. TxSysEdge(now >= MasterOn, tx_dreq)
      BY <1>2, <1>4, <2>3
    <3>2. /\ tx_state = "WAIT_SAMPLE" /\ tx_state' = "TX_TIMESTAMP"
          /\ new_sample_sys
      BY <2>3, <3>1 DEF TxSysEdge, TxFsm, WaitSample, TxPad, TxOff,
                        TxTimestamp, TxAcc, TxTune
    <3>3. stalls' = 0
      BY <1>2, <3>2
    <3>4. m = 2 * MaxStall + 4
      BY <1>1, <3>2, <3>3 DEF Stalling
    <3> DEFINE k == 2 * MaxStall + 6
    <3>5. k \in Nat /\ m + 2 <= k
      BY <1>1, <3>4
    <3>6. Since >= 3 /\ k <= Left
      BY <3>2 DEF Pacing, Takes
    <3> HIDE DEF k, m
    <3> QED BY <1>7, <1>16, <3>5, <3>6
  <2> QED BY <1>4, <2>1, <2>2, <2>3
<1>19. /\ tx_state' = "TX_TIMESTAMP" => Since' >= 3 /\ Stalling' + 4 <= Left'
       /\ tx_state' = "TX_ACC" => Since' >= 3 /\ Stalling' + 2 <= Left'
       /\ tx_state' = "TX_TUNE" => Since' >= 3 /\ Stalling' <= Left'
  <2>1. \A k \in Nat : k + 0 = k
    OBVIOUS
  <2>2. Stalling' + 0 = Stalling'
    BY <1>15, <2>1
  <2> QED BY <1>18, <2>2
<1> QED BY <1>10, <1>11, <1>13, <1>14, <1>19 DEF Pacing, Takes

LEMMA BlockInit == Init => BlockUnderWay /\ BlocksInAir
BY DEF Init, TxPathInit, BlockUnderWay, BlocksInAir

LEMMA SameSequence ==
  ASSUME NEW S, NEW p \in Seq(S), NEW q \in Seq(S), Len(p) = Len(q),
         \A i \in 1 .. Len(p) : p[i] = q[i]
  PROVE  p = q
<1>1. /\ p = [i \in 1 .. Len(p) |-> p[i]] /\ q = [i \in 1 .. Len(q) |-> q[i]]
  OBVIOUS
<1> QED BY <1>1

LEMMA Appends ==
  \A a, b, c, d : /\ Append(<<a>>, b) = <<a, b>>
                  /\ Append(<<a, b>>, c) = <<a, b, c>>
                  /\ Append(<<a, b, c>>, d) = <<a, b, c, d>>
<1> TAKE a, b, c, d
<1> DEFINE S == {a, b, c, d}
<1>1. Append(<<a>>, b) = <<a, b>>
  <2> DEFINE p == Append(<<a>>, b)
             q == <<a, b>>
  <2>1. /\ p \in Seq(S) /\ Len(p) = 2
        /\ p[1] = a /\ p[2] = b
    OBVIOUS
  <2>2. /\ q \in Seq(S) /\ Len(q) = 2
        /\ q[1] = a /\ q[2] = b
    OBVIOUS
  <2> HIDE DEF p, q, S
  <2>3. \A i \in 1 .. Len(p) : p[i] = q[i]
    BY <2>1, <2>2
  <2>4. p = q
    BY <2>1, <2>2, <2>3, SameSequence
  <2> QED BY <2>4 DEF p, q
<1>2. Append(<<a, b>>, c) = <<a, b, c>>
  <2> DEFINE p == Append(<<a, b>>, c)
             q == <<a, b, c>>
  <2>1. /\ p \in Seq(S) /\ Len(p) = 3
        /\ p[1] = a /\ p[2] = b /\ p[3] = c
    OBVIOUS
  <2>2. /\ q \in Seq(S) /\ Len(q) = 3
        /\ q[1] = a /\ q[2] = b /\ q[3] = c
    OBVIOUS
  <2> HIDE DEF p, q, S
  <2>3. \A i \in 1 .. Len(p) : p[i] = q[i]
    BY <2>1, <2>2
  <2>4. p = q
    BY <2>1, <2>2, <2>3, SameSequence
  <2> QED BY <2>4 DEF p, q
<1>3. Append(<<a, b, c>>, d) = <<a, b, c, d>>
  <2> DEFINE p == Append(<<a, b, c>>, d)
             q == <<a, b, c, d>>
  <2>1. /\ p \in Seq(S) /\ Len(p) = 4
        /\ p[1] = a /\ p[2] = b /\ p[3] = c /\ p[4] = d
    OBVIOUS
  <2>2. /\ q \in Seq(S) /\ Len(q) = 4
        /\ q[1] = a /\ q[2] = b /\ q[3] = c /\ q[4] = d
    OBVIOUS
  <2> HIDE DEF p, q, S
  <2>3. \A i \in 1 .. Len(p) : p[i] = q[i]
    BY <2>1, <2>2
  <2>4. p = q
    BY <2>1, <2>2, <2>3, SameSequence
  <2> QED BY <2>4 DEF p, q
<1> QED BY <1>1, <1>2, <1>3

LEMMA BlockStep ==
  ASSUME TypeInv, Pacing, BlockUnderWay, NEW tx_dreq \in BOOLEAN,
         NEW slave \in BOOLEAN, NEW get \in BOOLEAN, Step(tx_dreq, slave, get)
  PROVE  BlockUnderWay'
<1>1. /\ TakeTags(StampOf(now), TRUE, now = next_ce)
      /\ IF TxSys THEN TxSysEdge(now >= MasterOn, tx_dreq)
         ELSE UNCHANGED txSysVars
      /\ sending' = IF ~(TxSys /\ tx_valid) THEN sending
                    ELSE IF tx_last THEN <<>> ELSE Append(sending, tx_data)
      /\ now' = now + 1
  BY DEF Step, Master, Channel
<1>2. /\ now \in Nat /\ snap \in Normal /\ MasterOn \in Nat
      /\ sending \in Seq(Known) /\ tx_data \in Known
      /\ tx_state \in TxPathStates
  BY Assumed
     DEF TypeInv, TimeTyped, TagsTyped, TxTyped, ChannelTyped, Before
<1>3. tx_state \in {"TX_TIMESTAMP", "TX_ACC", "TX_TUNE"} => snap' = snap
  <2> SUFFICES ASSUME tx_state \in {"TX_TIMESTAMP", "TX_ACC", "TX_TUNE"}
               PROVE  ~tune_valid
    BY <1>1 DEF TakeTags
  <2>1. Since >= 3
    BY DEF Pacing, Takes
  <2> QED BY <2>1 DEF Pacing
<1>4. CASE ~TxSys
  <2>1. /\ tx_state' = tx_state /\ tx_valid' = tx_valid /\ tx_last' = tx_last
        /\ tx_data' = tx_data /\ sending' = sending /\ Sent' = Sent
    BY <1>1, <1>4 DEF txSysVars, Sent
  <2>2. now' < MasterOn => now < MasterOn
    BY <1>1, <1>2
  <2>3. /\ tx_state = "TX_ACC" => Sent = <<TimeWord(snap')>>
        /\ tx_state = "TX_TUNE" => Sent = <<TimeWord(snap'), AccWord(snap')>>
    BY <1>3 DEF BlockUnderWay
  <2>4. /\ TimeWord(snap)' = TimeWord(snap') /\ AccWord(snap)' = AccWord(snap')
    BY DEF TimeWord, AccWord
  <2>5. \A s \in Normal :
          /\ TimeWord(s)' = TimeWord(s) /\ AccWord(s)' = AccWord(s)
          /\ TuneWord(s)' = TuneWord(s)
    BY DEF TimeWord, AccWord, TuneWord
  <2> QED BY <2>1, <2>2, <2>3 DEF BlockUnderWay
<1>5. CASE TxSys
  <2> DEFINE on == now >= MasterOn
  <2>1. TxSysEdge(on, tx_dreq)
    BY <1>1, <1>5
  <2>2. ~(tx_valid /\ tx_last) => sending' = Sent
    BY <1>1, <1>5 DEF Sent
  <2>3. Sent' = IF tx_valid' THEN Append(sending', tx_data') ELSE sending'
    BY DEF Sent
  <2>4. CASE TxOff /\ now < MasterOn
    <3>1. sending = <<>> /\ ~tx_valid
      BY <2>4 DEF BlockUnderWay
    <3>2. sending' = <<>> /\ tx_state' = "WAIT_SAMPLE" /\ ~tx_valid'
      BY <1>1, <2>4, <3>1 DEF TxOff
    <3> QED BY <3>2 DEF BlockUnderWay
  <2>5. on => ~(now' < MasterOn)
    BY <1>1, <1>2
  <2>6. CASE WaitSample /\ on
    <3>1. ~tx_valid' /\ tx_state' \in {"WAIT_SAMPLE", "TX_TIMESTAMP"}
      BY <2>6 DEF WaitSample
    <3>2. sending' = <<>>
      <4>1. CASE tx_valid
        BY <1>1, <1>5, <2>6, <4>1 DEF WaitSample, BlockUnderWay
      <4>2. CASE ~tx_valid
        BY <1>1, <2>6, <4>2 DEF WaitSample, BlockUnderWay
      <4> QED BY <4>1, <4>2
    <3> QED BY <2>5, <2>6, <3>1, <3>2 DEF BlockUnderWay
  <2>7. CASE TxTimestamp(tx_dreq) /\ on
    <3>1. ~tx_valid /\ sending = <<>> /\ sending' = <<>> /\ snap' = snap
      BY <1>1, <1>3, <2>7 DEF TxTimestamp, BlockUnderWay
    <3>2. CASE tx_dreq
      <4>1. /\ tx_state' = "TX_ACC" /\ tx_valid' = TRUE /\ tx_last' = FALSE
            /\ tx_data' = TimeWord(snap')
        BY <2>7, <3>1, <3>2 DEF TxTimestamp, SendWord, TimeWord
      <4>2. Sent' = <<TimeWord(snap')>>
        BY <2>3, <3>1, <4>1
      <4> QED BY <2>5, <2>7, <4>1, <4>2 DEF BlockUnderWay
    <3>3. CASE ~tx_dreq
      <4>1. tx_state' = "TX_TIMESTAMP" /\ ~tx_valid'
        BY <2>7, <3>3 DEF TxTimestamp, SendWord
      <4> QED BY <2>5, <2>7, <3>1, <4>1 DEF BlockUnderWay
    <3> QED BY <3>2, <3>3
  <2>8. CASE TxAcc(tx_dreq) /\ on
    <3>1. Sent = <<TimeWord(snap)>> /\ sending' = Sent /\ snap' = snap
      BY <1>3, <2>2, <2>8 DEF TxAcc, BlockUnderWay
    <3>2. CASE tx_dreq
      <4>1. /\ tx_state' = "TX_TUNE" /\ tx_valid' = TRUE /\ tx_last' = FALSE
            /\ tx_data' = AccWord(snap')
        BY <2>8, <3>1, <3>2 DEF TxAcc, SendWord, AccWord
      <4>2. Sent' = <<TimeWord(snap'), AccWord(snap')>>
        <5>1. Sent' = Append(Sent, AccWord(snap'))
          BY <2>3, <3>1, <4>1
        <5>2. Sent = <<TimeWord(snap')>>
          BY <3>1
        <5> QED BY <5>1, <5>2, Appends
      <4> QED BY <2>5, <2>8, <4>1, <4>2 DEF BlockUnderWay
    <3>3. CASE ~tx_dreq
      <4>1. tx_state' = "TX_ACC" /\ ~tx_valid'
        BY <2>8, <3>3 DEF TxAcc, SendWord
      <4>2. Sent' = <<TimeWord(snap')>>
        BY <2>3, <3>1, <4>1
      <4> QED BY <2>5, <2>8, <4>1, <4>2 DEF BlockUnderWay
    <3> QED BY <3>2, <3>3
  <2>9. CASE TxTune(tx_dreq) /\ on
    <3>1. /\ Sent = <<TimeWord(snap), AccWord(snap)>>
          /\ sending' = Sent /\ snap' = snap
      BY <1>3, <2>2, <2>9 DEF TxTune, BlockUnderWay
    <3>2. CASE tx_dreq
      <4>1. /\ tx_state' = "TX_PAD" /\ tx_valid' = TRUE /\ tx_last' = FALSE
            /\ tx_data' = TuneWord(snap)
        BY <2>9, <3>2 DEF TxTune, SendWord, TuneWord
      <4>2. Sent' = <<TimeWord(snap), AccWord(snap), TuneWord(snap)>>
        <5>1. Sent' = Append(Sent, TuneWord(snap))
          BY <2>3, <3>1, <4>1
        <5> QED BY <3>1, <5>1, Appends
      <4> QED BY <1>2, <2>5, <2>9, <4>1, <4>2 DEF BlockUnderWay
    <3>3. CASE ~tx_dreq
      <4>1. tx_state' = "TX_TUNE" /\ ~tx_valid'
        BY <2>9, <3>3 DEF TxTune, SendWord
      <4>2. Sent' = <<TimeWord(snap'), AccWord(snap')>>
        BY <2>3, <3>1, <4>1
      <4> QED BY <2>5, <2>9, <4>1, <4>2 DEF BlockUnderWay
    <3> QED BY <3>2, <3>3
  <2>10. CASE TxPad(tx_dreq) /\ on
    <3>1. PICK s \in Normal :
            /\ Sent = <<TimeWord(s), AccWord(s), TuneWord(s)>>
            /\ tx_data = TuneWord(s)
      BY <2>10 DEF TxPad, BlockUnderWay
    <3>2. sending' = Sent /\ tx_data' = tx_data
      BY <2>2, <2>10 DEF TxPad, BlockUnderWay
    <3>3. CASE tx_dreq
      <4>1. tx_state' = "WAIT_SAMPLE" /\ tx_valid' = TRUE /\ tx_last' = TRUE
        BY <2>10, <3>3 DEF TxPad
      <4>2. Sent' = <<TimeWord(s), AccWord(s), TuneWord(s), TuneWord(s)>>
        <5>1. Sent' = Append(Sent, TuneWord(s))
          BY <2>3, <3>1, <3>2, <4>1
        <5> QED BY <3>1, <5>1, Appends
      <4> QED BY <2>5, <2>10, <4>1, <4>2 DEF BlockUnderWay
    <3>4. CASE ~tx_dreq
      <4>1. tx_state' = "TX_PAD" /\ ~tx_valid'
        BY <2>10, <3>4 DEF TxPad
      <4>2. Sent' = <<TimeWord(s), AccWord(s), TuneWord(s)>>
        BY <2>3, <3>1, <3>2, <4>1
      <4>3. tx_data' = TuneWord(s)
        BY <3>1, <3>2
      <4> QED BY <2>5, <2>10, <4>1, <4>2, <4>3 DEF BlockUnderWay
    <3> QED BY <3>3, <3>4
  <2>11. \/ TxOff /\ now < MasterOn
         \/ (\/ WaitSample \/ TxTimestamp(tx_dreq) \/ TxAcc(tx_dreq)
             \/ TxTune(tx_dreq) \/ TxPad(tx_dreq)) /\ on
    BY <1>2, <2>1 DEF TxSysEdge, TxFsm
  <2> QED BY <2>4, <2>6, <2>7, <2>8, <2>9, <2>10, <2>11
<1> QED BY <1>4, <1>5

LEMMA ComingAreBlocks ==
  ASSUME BlockUnderWay, NEW b \in Coming
  PROVE  IsBlock(b.words)
<1>1. CASE b = [words |-> ForeignBlock, due |-> now + MaxTransport]
  <2>1. b.words = ForeignBlock
    BY <1>1
  <2>2. IsBlock(ForeignBlock)
    BY Assumed DEF ForeignBlock, IsBlock, Word
  <2> QED BY <2>1, <2>2
<1>2. CASE /\ TxSys /\ tx_valid /\ tx_last
           /\ b.words = Append(sending, tx_data)
  <2>1. b.words = Sent
    BY <1>2 DEF Sent
  <2>2. PICK s \in Normal :
          Sent = <<TimeWord(s), AccWord(s), TuneWord(s), TuneWord(s)>>
    BY <1>2 DEF BlockUnderWay
  <2> QED BY <2>1, <2>2 DEF IsBlock, TimeWord, AccWord, TuneWord, Word
<1> QED BY <1>1, <1>2 DEF Coming

LEMMA InAirStep ==
  ASSUME TypeInv, BlockUnderWay, BlocksInAir, NEW tx_dreq \in BOOLEAN,
         NEW slave \in BOOLEAN, NEW get \in BOOLEAN, Step(tx_dreq, slave, get)
  PROVE  BlocksInAir'
<1>1. PICK new \in Seq(Coming) :
        /\ Kept(get) \in Seq(KnownBlocks') /\ new \in Seq(KnownBlocks')
        /\ air' = Kept(get) \o new
  BY AirMoves
<1> DEFINE B == KnownBlocks'
<1> HIDE DEF B
<1>2. \A i \in 1 .. Len(new) : IsBlock(new[i].words)
  <2> DEFINE C == Coming
  <2>1. \A b \in C : IsBlock(b.words)
    BY ComingAreBlocks
  <2> HIDE DEF C
  <2>2. \A i \in 1 .. Len(new) : new[i] \in C
    BY DEF C
  <2> QED BY <2>1, <2>2
<1>3. \A i \in 1 .. Len(Kept(get)) : IsBlock(Kept(get)[i].words)
  <2>1. MayGet(get)
    BY DEF Step, Channel
  <2>2. air \in Seq(KnownBlocks)
    BY DEF TypeInv, ChannelTyped
  <2> DEFINE K == KnownBlocks
  <2> HIDE DEF K
  <2>3. air \in Seq(K) /\ \A i \in 1 .. Len(air) : IsBlock(air[i].words)
    BY <2>2 DEF K, BlocksInAir
  <2>4. LastWord(get) => air # <<>>
    BY <2>1 DEF LastWord, MayGet
  <2>5. CASE LastWord(get)
    <3>1. /\ Len(Tail(air)) = Len(air) - 1
          /\ \A i \in 1 .. Len(air) - 1 : Tail(air)[i] = air[i + 1]
      BY <2>3, <2>4, <2>5
    <3> QED BY <2>3, <2>5, <3>1 DEF Kept
  <2>6. CASE ~LastWord(get)
    BY <2>3, <2>6 DEF Kept
  <2> QED BY <2>5, <2>6
<1>4. /\ Kept(get) \in Seq(B) /\ new \in Seq(B) /\ air' = Kept(get) \o new
  BY <1>1 DEF B
<1>5. /\ DOMAIN air' = 1 .. Len(Kept(get)) + Len(new)
      /\ \A i \in 1 .. Len(Kept(get)) + Len(new) :
           air'[i] = IF i <= Len(Kept(get)) THEN Kept(get)[i]
                     ELSE new[i - Len(Kept(get))]
  BY <1>4
<1>6. Len(Kept(get)) \in Nat /\ Len(new) \in Nat
  BY <1>4
<1>7. \A i \in DOMAIN air' : IsBlock(air'[i].words)
  <2> SUFFICES ASSUME NEW i \in 1 .. Len(Kept(get)) + Len(new)
               PROVE  IsBlock(air'[i].words)
    BY <1>5
  <2>1. CASE i <= Len(Kept(get))
    BY <1>3, <1>5, <1>6, <2>1
  <2>2. CASE ~(i <= Len(Kept(get)))
    <3>1. i - Len(Kept(get)) \in 1 .. Len(new)
      BY <1>6, <2>2
    <3> QED BY <1>2, <1>5, <2>2, <3>1
  <2> QED BY <2>1, <2>2
<1> QED BY <1>7 DEF BlocksInAir

-----------------------------------------------------------------------------
(* The slave takes them whole.                                             *)
LEMMA SlaveInit ==
  Init => Switching /\ Receiving /\ Reading /\ SamplesWhole
<1> SUFFICES ASSUME Init
             PROVE  Switching /\ Receiving /\ Reading /\ SamplesWhole
  OBVIOUS
<1>1. /\ cr_slave_o = FALSE /\ switches = 0
      /\ slave_sync = <<FALSE, FALSE>>
      /\ rx_state = "RX_WAIT_SAMPLE" /\ new_sample_sys_rx = FALSE
      /\ fifo = <<>> /\ fifo_rd = FALSE /\ drv_state = "DRV_WAIT_SAMPLE"
  BY DEF Init, RxPathInit
<1> QED BY <1>1 DEF Switching, Receiving, Reading, SamplesWhole, AtOutput

LEMMA SwitchingStep ==
  ASSUME TypeInv, Switching, SwitchedOnce, NEW tx_dreq \in BOOLEAN,
         NEW slave \in BOOLEAN, NEW get \in BOOLEAN, Step(tx_dreq, slave, get)
  PROVE  /\ Switching'
         /\ cr_slave_o => cr_slave_o'
         /\ slave_sync'[1] = cr_slave_o /\ slave_sync'[2] = slave_sync[1]
<1>1. /\ slave = cr_slave_o \/ (RxSys /\ switches < MaxSwitches)
      /\ switches' = IF slave = cr_slave_o THEN switches ELSE switches + 1
      /\ slave_sync' = <<cr_slave_o, slave_sync[1]>>
      /\ IF RxSys
           THEN RxSysEdge(slave, Got(get), position = 0)
           ELSE UNCHANGED rxSysVars
  BY DEF Step, Slave, MayWrite, RxRefEdge, Got
<1>2. cr_slave_o' = slave
  BY <1>1 DEF RxSysEdge, rxSysVars
<1>3. cr_slave_o \in BOOLEAN /\ MaxSwitches <= 1 /\ MaxSwitches \in Nat
  BY Assumed DEF TypeInv, RxTyped, SwitchedOnce
<1>4. switches \in Nat /\ (cr_slave_o => switches = 1)
  BY DEF Switching
<1>5. cr_slave_o => slave = TRUE
  <2> SUFFICES ASSUME cr_slave_o PROVE slave = TRUE
    OBVIOUS
  <2>1. ~(switches < MaxSwitches)
    BY <1>3, <1>4
  <2>2. slave = cr_slave_o
    BY <1>1, <2>1
  <2>3. cr_slave_o = TRUE
    BY <1>3
  <2> QED BY <2>2, <2>3
<1>6. switches' \in Nat /\ (slave => switches' = 1)
  <2>1. CASE slave = cr_slave_o
    BY <1>1, <1>4, <2>1
  <2>2. CASE slave # cr_slave_o
    <3>1. switches < MaxSwitches /\ switches' = switches + 1
      BY <1>1, <2>2
    <3> QED BY <1>3, <1>4, <3>1
  <2> QED BY <2>1, <2>2
<1>7. slave_sync'[1] = cr_slave_o /\ slave_sync'[2] = slave_sync[1]
  BY <1>1
<1> QED BY <1>2, <1>5, <1>6, <1>7 DEF Switching

(* The first block in the air stays first until its last word is taken.    *)
LEMMA FirstStays ==
  ASSUME TypeInv, NEW tx_dreq \in BOOLEAN, NEW slave \in BOOLEAN,
         NEW get \in BOOLEAN, Step(tx_dreq, slave, get),
         air # <<>>, ~LastWord(get)
  PROVE  air' # <<>> /\ Head(air') = Head(air)
<1>1. PICK new \in Seq(Coming) :
        /\ Kept(get) \in Seq(KnownBlocks') /\ new \in Seq(KnownBlocks')
        /\ air' = Kept(get) \o new
  BY AirMoves
<1>2. Kept(get) = air
  BY DEF Kept
<1> DEFINE B == KnownBlocks'
<1> HIDE DEF B
<1>3. air \in Seq(B) /\ new \in Seq(B) /\ air' = air \o new
  BY <1>1, <1>2 DEF B
<1> QED BY <1>3, QueueJoins

LEMMA ReceivingStep ==
  ASSUME TypeInv, BlocksInAir, Switching, SwitchedOnce, Receiving,
         NEW tx_dreq \in BOOLEAN, NEW slave \in BOOLEAN,
         NEW get \in BOOLEAN, Step(tx_dreq, slave, get)
  PROVE  Receiving'
<1> DEFINE ws == Head(air).words
<1>1. /\ MayGet(get)
      /\ position' = IF ~get THEN position
                     ELSE IF WordsLeft = 1 THEN 0 ELSE position + 1
      /\ IF RxSys
           THEN RxSysEdge(slave, Got(get), position = 0)
           ELSE UNCHANGED rxSysVars
  BY DEF Step, Channel, Slave, Got
<1>2. cr_slave_o => cr_slave_o'
  BY SwitchingStep
<1>3. get => /\ air # <<>> /\ RxSys
             /\ Len(ws) = 4 /\ position \in 0 .. 3 /\ IsBlock(ws)
             /\ Got(get) = <<ws[position + 1]>>
  <2> SUFFICES ASSUME get
               PROVE  /\ air # <<>> /\ RxSys
                      /\ Len(ws) = 4 /\ position \in 0 .. 3 /\ IsBlock(ws)
    BY DEF Got
  <2>1. /\ RxSys /\ air # <<>> /\ Head(air) = air[1]
        /\ position \in 0 .. Len(ws) - 1
    BY <1>1, GotIsKnown
  <2>2. air \in Seq(KnownBlocks)
    BY DEF TypeInv, ChannelTyped
  <2> DEFINE K == KnownBlocks
  <2> HIDE DEF K
  <2>3. air \in Seq(K)
    BY <2>2 DEF K
  <2>4. 1 \in DOMAIN air
    BY <2>1, <2>3
  <2>5. IsBlock(ws)
    BY <2>1, <2>4 DEF BlocksInAir
  <2>6. Len(ws) = 4
    BY <2>5 DEF IsBlock
  <2>7. position \in 0 .. 3
    <3> HIDE DEF ws
    <3> QED BY <2>1, <2>6
  <2> QED BY <2>1, <2>5, <2>6, <2>7
<1>4. ~get => Got(get) = <<>>
  BY DEF Got
<1>5. ASSUME get, NEW k \in 0 .. 3, position = k
       PROVE  Got(get) # <<>> /\ Got(get)[1] = ws[k + 1]
  <2>1. \A v : <<v>> # <<>> /\ <<v>>[1] = v
    OBVIOUS
  <2> DEFINE v == Head(air).words[position + 1]
  <2>2. Got(get) = <<v>> /\ v = ws[k + 1]
    BY <1>5 DEF Got
  <2> HIDE DEF v, ws
  <2> QED BY <2>1, <2>2
<1>6. /\ get /\ position = 0 => Got(get) # <<>> /\ Got(get)[1] = ws[1]
      /\ get /\ position = 1 => Got(get) # <<>> /\ Got(get)[1] = ws[2]
      /\ get /\ position = 2 => Got(get) # <<>> /\ Got(get)[1] = ws[3]
  <2>1. 0 \in 0 .. 3 /\ 1 \in 0 .. 3 /\ 2 \in 0 .. 3
    OBVIOUS
  <2>2. 0 + 1 = 1 /\ 1 + 1 = 2 /\ 2 + 1 = 3
    OBVIOUS
  <2> HIDE DEF ws
  <2> QED BY <1>5, <2>1, <2>2
<1>7. sample_sys \in KnownSamples /\ cr_slave_o \in BOOLEAN
      /\ new_sample_sys_rx \in BOOLEAN
  BY DEF TypeInv, RxTyped
<1>8. air # <<>> /\ ~LastWord(get) => air' # <<>> /\ Head(air') = Head(air)
  BY FirstStays
<1>9. ASSUME rx_state # "RX_WAIT_SAMPLE" PROVE cr_slave_o
  BY <1>9 DEF Receiving
<1>10. ~get => ~LastWord(get) /\ position' = position
  BY <1>1 DEF LastWord
(* Nothing received, and nothing done. *)
<1>11. CASE ~RxSys \/ ~cr_slave_o
  <2>1. /\ rx_state' = rx_state /\ sample_sys' = sample_sys
        /\ new_sample_sys_rx' = new_sample_sys_rx
    BY <1>1, <1>11 DEF RxSysEdge, rxSysVars
  <2>2. CASE rx_state = "RX_WAIT_SAMPLE"
    BY <2>1, <2>2 DEF Receiving
  <2>3. CASE rx_state # "RX_WAIT_SAMPLE"
    <3>1. cr_slave_o /\ ~RxSys /\ ~get
      BY <1>3, <1>9, <1>11, <2>3
    <3>2. air # <<>>
      BY <2>3, <1>9 DEF Receiving, TypeInv, RxTyped, RxPathStates
    <3>3. position' = position /\ air' # <<>> /\ Head(air') = Head(air)
      BY <1>8, <1>10, <3>1, <3>2
    <3> QED BY <1>2, <2>1, <2>3, <3>1, <3>3 DEF Receiving
  <2> QED BY <2>2, <2>3
<1>12. CASE RxSys /\ cr_slave_o
  <2>1. RxWaitSample(Got(get), position = 0) \/ RxAcc(Got(get)) \/ RxTune(Got(get))
    BY <1>1, <1>12 DEF RxSysEdge
  <2>2. cr_slave_o'
    BY <1>2, <1>12
  <2>3. CASE RxWaitSample(Got(get), position = 0) /\ get /\ position = 0
    <3>1. /\ rx_state' = "RX_ACC" /\ new_sample_sys_rx' = FALSE
          /\ sample_sys' = [sample_sys EXCEPT !.timestamp = ws[1]]
      BY <2>3, <1>4, <1>6 DEF RxWaitSample
    <3>2. WordsLeft = 4
      BY <1>3, <2>3 DEF WordsLeft
    <3>3. position' = 1 /\ air' # <<>> /\ Head(air') = Head(air)
      BY <1>1, <1>3, <1>8, <2>3, <3>2 DEF LastWord
    <3>4. sample_sys'.timestamp = ws[1]
      BY <1>7, <3>1 DEF KnownSamples
    <3> QED BY <2>2, <3>1, <3>3, <3>4 DEF Receiving
  <2>4. CASE RxWaitSample(Got(get), position = 0) /\ ~(get /\ position = 0)
    <3>1. rx_state' = "RX_WAIT_SAMPLE" /\ new_sample_sys_rx' = FALSE
      BY <2>4, <1>4, <1>6 DEF RxWaitSample
    <3> QED BY <3>1 DEF Receiving
  <2>5. CASE RxAcc(Got(get)) /\ get
    <3>1. position = 1 /\ sample_sys.timestamp = ws[1] /\ ~new_sample_sys_rx
      BY <2>5 DEF RxAcc, Receiving
    <3>2. /\ rx_state' = "RX_TUNE" /\ ~new_sample_sys_rx'
          /\ sample_sys' = [sample_sys EXCEPT !.acc = ws[2]]
      BY <2>5, <1>4, <1>6, <3>1 DEF RxAcc
    <3>3. WordsLeft = 3
      BY <1>3, <2>5, <3>1 DEF WordsLeft
    <3>4. position' = 2 /\ air' # <<>> /\ Head(air') = Head(air)
      BY <1>1, <1>3, <1>8, <2>5, <3>1, <3>3 DEF LastWord
    <3>5. sample_sys'.timestamp = ws[1] /\ sample_sys'.acc = ws[2]
      BY <1>7, <3>1, <3>2 DEF KnownSamples
    <3> QED BY <2>2, <3>2, <3>4, <3>5 DEF Receiving
  <2>6. CASE RxAcc(Got(get)) /\ ~get
    <3>1. /\ air # <<>> /\ position = 1 /\ sample_sys.timestamp = ws[1]
          /\ ~new_sample_sys_rx
      BY <2>6 DEF RxAcc, Receiving
    <3>2. /\ rx_state' = "RX_ACC" /\ ~new_sample_sys_rx'
          /\ sample_sys' = sample_sys
      BY <2>6, <1>4, <1>6, <3>1 DEF RxAcc
    <3>3. position' = position /\ air' # <<>> /\ Head(air') = Head(air)
      BY <1>8, <1>10, <2>6, <3>1
    <3> QED BY <2>2, <3>1, <3>2, <3>3 DEF Receiving
  <2>7. CASE RxTune(Got(get)) /\ get
    <3>1. /\ position = 2 /\ ~new_sample_sys_rx
          /\ sample_sys.timestamp = ws[1] /\ sample_sys.acc = ws[2]
      BY <2>7 DEF RxTune, Receiving
    <3>2. Got(get) # <<>> /\ Got(get)[1] = ws[3]
      BY <2>7, <1>4, <1>6, <3>1
    <3>3. /\ rx_state' = "RX_WAIT_SAMPLE"
          /\ sample_sys' = [sample_sys EXCEPT !.tune = ws[3]]
          /\ new_sample_sys_rx' => ws[3].clk_id = SlaveId
      BY <2>7, <3>1, <3>2 DEF RxTune
    <3>4. /\ sample_sys'.timestamp = ws[1] /\ sample_sys'.acc = ws[2]
          /\ sample_sys'.tune = ws[3]
      BY <1>7, <3>1, <3>3 DEF KnownSamples
    <3>5. IsBlock(ws)
      BY <1>3, <2>7
    <3>6. new_sample_sys_rx' => Whole(sample_sys')
      BY <3>3, <3>4, <3>5 DEF IsBlock, Whole
    <3>7. new_sample_sys_rx' => Whole(sample_sys)'
      BY <3>6 DEF Whole
    <3> QED BY <3>3, <3>7 DEF Receiving
  <2>8. CASE RxTune(Got(get)) /\ ~get
    <3>1. /\ air # <<>> /\ position = 2 /\ ~new_sample_sys_rx
          /\ sample_sys.timestamp = ws[1] /\ sample_sys.acc = ws[2]
      BY <2>8 DEF RxTune, Receiving
    <3>2. /\ rx_state' = "RX_TUNE" /\ ~new_sample_sys_rx'
          /\ sample_sys' = sample_sys
      BY <2>8, <1>4, <1>6, <3>1 DEF RxTune
    <3>3. position' = position /\ air' # <<>> /\ Head(air') = Head(air)
      BY <1>8, <1>10, <2>8, <3>1, Zenon
    <3> QED BY <2>2, <3>1, <3>2, <3>3 DEF Receiving
  <2> QED BY <2>1, <2>3, <2>4, <2>5, <2>6, <2>7, <2>8
<1> QED BY <1>11, <1>12

(* How the FIFO moves: an entry is taken, one is written, and the others   *)
(* get older. *)
Entries == [sample : KnownSamples, wait : 0 .. FifoLatency]
Taken   == fifo_rd /\ ~fifo_empty
Written == RxSys /\ new_sample_sys_rx /\ ~fifo_full
Rest    == IF Taken THEN Tail(fifo) ELSE fifo
Aged(entry) == [entry EXCEPT !.wait = IF @ > 0 THEN @ - 1 ELSE 0]

LEMMA FifoMoves ==
  ASSUME TypeInv, NEW tx_dreq \in BOOLEAN, NEW slave \in BOOLEAN,
         NEW get \in BOOLEAN, Step(tx_dreq, slave, get)
  PROVE  /\ fifo \in Seq(Entries) /\ Rest \in Seq(Entries)
         /\ Len(fifo) \in Nat /\ Len(Rest) \in Nat
         /\ DOMAIN fifo = 1 .. Len(fifo)
         /\ Taken => /\ Len(fifo) > 0 /\ Len(Rest) = Len(fifo) - 1
                     /\ \A i \in 1 .. Len(Rest) : Rest[i] = fifo[i + 1]
                     /\ fifo_out' = fifo[1].sample
         /\ ~Taken => Rest = fifo /\ fifo_out' = fifo_out
         /\ Len(fifo') = Len(Rest) + One(Written)
         /\ DOMAIN fifo' = 1 .. Len(fifo')
         /\ \A i \in 1 .. Len(Rest) : fifo'[i] = Aged(Rest[i])
         /\ Written => /\ fifo'[Len(Rest) + 1].sample = sample_sys
                       /\ fifo'[Len(Rest) + 1].wait \in 0 .. FifoLatency
<1> DEFINE E == Entries
<1>1. FifoEdge(RxSys)
  BY DEF Step, Slave, RxRefEdge
<1>2. fifo \in Seq(E)
  BY DEF TypeInv, FifoTyped, Entries
<1> HIDE DEF E
<1>3. Len(fifo) \in Nat /\ DOMAIN fifo = 1 .. Len(fifo)
  BY <1>2
<1>4. Taken => fifo # <<>>
  BY DEF Taken, fifo_empty
<1>5. Rest \in Seq(E) /\ Len(Rest) \in Nat /\ DOMAIN Rest = 1 .. Len(Rest)
  <2>1. Rest \in Seq(E)
    BY <1>2, <1>4 DEF Rest
  <2> QED BY <2>1
<1>6. fifo_out' = IF Taken THEN Head(fifo).sample ELSE fifo_out
  BY <1>1 DEF FifoEdge, Taken
<1>7. Taken => /\ Len(fifo) > 0 /\ Len(Rest) = Len(fifo) - 1
               /\ \A i \in 1 .. Len(Rest) : Rest[i] = fifo[i + 1]
               /\ fifo_out' = fifo[1].sample
  <2> SUFFICES ASSUME Taken
               PROVE  /\ Len(fifo) > 0 /\ Len(Rest) = Len(fifo) - 1
                      /\ \A i \in 1 .. Len(Rest) : Rest[i] = fifo[i + 1]
                      /\ fifo_out' = fifo[1].sample
    OBVIOUS
  <2>1. Rest = Tail(fifo) /\ fifo # <<>>
    BY <1>4 DEF Rest
  <2>2. /\ Len(fifo) > 0 /\ Len(Tail(fifo)) = Len(fifo) - 1
        /\ \A i \in 1 .. Len(Tail(fifo)) : Tail(fifo)[i] = fifo[i + 1]
        /\ Head(fifo) = fifo[1]
    BY <1>2, <2>1
  <2> QED BY <1>6, <2>1, <2>2
<1>8. ~Taken => Rest = fifo /\ fifo_out' = fifo_out
  BY <1>6 DEF Rest
<1> DEFINE kept == Older(Rest)
<1>9. kept = [i \in 1 .. Len(Rest) |-> Aged(Rest[i])]
  BY <1>5 DEF Older, Aged
<1>10. PICK S : kept \in Seq(S)
  <2> DEFINE A == {Aged(Rest[i]) : i \in 1 .. Len(Rest)}
  <2>1. kept \in [1 .. Len(Rest) -> A]
    BY <1>9
  <2> HIDE DEF A, kept
  <2>2. kept \in Seq(A)
    BY <1>5, <2>1
  <2> QED BY <2>2
<1>11. /\ Len(kept) = Len(Rest) /\ DOMAIN kept = 1 .. Len(Rest)
       /\ \A i \in 1 .. Len(Rest) : kept[i] = Aged(Rest[i])
  <2>1. DOMAIN kept = 1 .. Len(Rest)
    BY <1>9
  <2>2. \A i \in 1 .. Len(Rest) : kept[i] = Aged(Rest[i])
    BY <1>9
  <2> HIDE DEF kept
  <2>3. Len(kept) = Len(Rest)
    BY <1>5, <1>10, <2>1
  <2> QED BY <2>1, <2>2, <2>3
<1>12. /\ Len(fifo') = Len(Rest) + One(Written)
       /\ DOMAIN fifo' = 1 .. Len(fifo')
       /\ \A i \in 1 .. Len(Rest) : fifo'[i] = Aged(Rest[i])
       /\ Written => /\ fifo'[Len(Rest) + 1].sample = sample_sys
                     /\ fifo'[Len(Rest) + 1].wait \in 0 .. FifoLatency
  <2>1. CASE ~Written
    <3>1. fifo' = kept
      BY <1>1, <2>1 DEF FifoEdge, Rest, Taken, Written
    <3> HIDE DEF kept
    <3> QED BY <1>5, <1>11, <2>1, <3>1 DEF One
  <2>2. CASE Written
    <3>1. PICK w \in {FifoLatency, FifoLatency - 1} \ {-1} :
            fifo' = Append(kept, [sample |-> sample_sys, wait |-> w])
      BY <1>1, <2>2 DEF FifoEdge, Rest, Taken, Written
    <3>2. w \in 0 .. FifoLatency
      BY Assumed
    <3> DEFINE e == [sample |-> sample_sys, wait |-> w]
    <3>3. e.sample = sample_sys /\ e.wait \in 0 .. FifoLatency
      BY <3>2
    <3> HIDE DEF e, kept
    <3>4. fifo' = Append(kept, e)
      BY <3>1 DEF e
    <3>5. kept \in Seq(S \cup {e}) /\ e \in S \cup {e}
      BY <1>10, SeqGrows
    <3>6. /\ Len(fifo') = Len(kept) + 1 /\ DOMAIN fifo' = 1 .. Len(kept) + 1
          /\ \A i \in 1 .. Len(kept) : fifo'[i] = kept[i]
          /\ fifo'[Len(kept) + 1] = e
      BY <3>4, <3>5
    <3> QED BY <1>5, <1>11, <2>2, <3>3, <3>6 DEF One
  <2> QED BY <2>1, <2>2
<1> QED BY <1>2, <1>3, <1>5, <1>7, <1>8, <1>12, Zenon DEF E

(* What p_drive_fsm does in a step, off or on. *)
LEMMA DriveMoves ==
  ASSUME TypeInv, NEW tx_dreq \in BOOLEAN, NEW slave \in BOOLEAN,
         NEW get \in BOOLEAN, Step(tx_dreq, slave, get)
  PROVE  /\ ~slave_mode_on => DrvOff
         /\ slave_mode_on => \/ DrvWaitSample \/ DrvReadSample
                             \/ DrvAdjust \/ DrvWaitTrigger
BY DEF Step, Slave, RxRefEdge, DriveFsm

LEMMA ReadingStep ==
  ASSUME TypeInv, Switching, SwitchedOnce, Reading,
         NEW tx_dreq \in BOOLEAN, NEW slave \in BOOLEAN,
         NEW get \in BOOLEAN, Step(tx_dreq, slave, get)
  PROVE  Reading'
<1>1. slave_sync[2] => slave_sync'[2]
  BY SwitchingStep DEF Switching
<1>2. fifo_rd' <=> drv_state' = "DRV_READ_SAMPLE"
  BY DriveMoves
  DEF Reading, DrvOff, DrvWaitSample, DrvReadSample, DrvAdjust, DrvWaitTrigger
<1>3. drv_state' # "DRV_WAIT_SAMPLE" => slave_sync'[2]
  BY <1>1, DriveMoves DEF slave_mode_on, DrvOff
<1>4. fifo_rd' => ~fifo_empty'
  <2> SUFFICES ASSUME fifo_rd' PROVE ~fifo_empty'
    OBVIOUS
  <2>1. DrvWaitSample /\ ~fifo_empty /\ ~fifo_rd
    BY DriveMoves
    DEF Reading, DrvOff, DrvWaitSample, DrvReadSample, DrvAdjust,
        DrvWaitTrigger
  <2>2. fifo # <<>> /\ ~(Head(fifo).wait > 0) /\ ~Taken
    BY <2>1 DEF fifo_empty, Taken
  <2>3. /\ Rest = fifo /\ fifo \in Seq(Entries)
        /\ Len(fifo') = Len(fifo) + One(Written)
        /\ DOMAIN fifo' = 1 .. Len(fifo')
        /\ \A i \in 1 .. Len(fifo) : fifo'[i] = Aged(fifo[i])
    BY <2>2, FifoMoves
  <2> DEFINE E == Entries
  <2>4. fifo[1] \in E /\ Head(fifo) = fifo[1] /\ 1 \in 1 .. Len(fifo)
    <3> HIDE DEF E
    <3>1. fifo \in Seq(E)
      BY <2>3 DEF E
    <3> QED BY <2>2, <3>1
  <2>5. fifo[1].wait = 0
    BY <2>2, <2>4, Assumed DEF Entries
  <2>6. fifo'[1].wait = 0
    <3>1. ASSUME NEW e \in E, e.wait = 0 PROVE Aged(e).wait = 0
      BY <3>1 DEF Aged, Entries
    <3>2. fifo'[1] = Aged(fifo[1])
      BY <2>3, <2>4
    <3> QED BY <2>4, <2>5, <3>1, <3>2
  <2>7. fifo' # <<>> /\ Head(fifo') = fifo'[1]
    <3>1. fifo' \in Seq(Entries')
      BY FifoStep DEF FifoTyped, Entries
    <3> DEFINE F == Entries'
    <3> HIDE DEF F
    <3>2. fifo' \in Seq(F)
      BY <3>1 DEF F
    <3>3. Len(fifo) \in Nat /\ Len(fifo) >= 1
      BY <2>2, FifoMoves, <2>4
    <3>4. Len(fifo') >= 1
      BY <2>3, <3>3 DEF One
    <3> QED BY <3>2, <3>4
  <2> QED BY <2>6, <2>7 DEF fifo_empty
<1> QED BY <1>2, <1>3, <1>4 DEF Reading

LEMMA WholeStep ==
  ASSUME TypeInv, Receiving, Reading, SamplesWhole,
         NEW tx_dreq \in BOOLEAN, NEW slave \in BOOLEAN,
         NEW get \in BOOLEAN, Step(tx_dreq, slave, get)
  PROVE  SamplesWhole'
<1>1. Written => Whole(sample_sys)
  BY DEF Written, Receiving
<1>2. \A i \in 1 .. Len(fifo) : Whole(fifo[i].sample)
  BY FifoMoves DEF SamplesWhole
<1>3. \A i \in 1 .. Len(Rest) : Whole(Rest[i].sample)
  <2>1. CASE Taken
    <3>1. /\ Len(fifo) \in Nat /\ Len(Rest) = Len(fifo) - 1
          /\ \A i \in 1 .. Len(Rest) : Rest[i] = fifo[i + 1]
      BY <2>1, FifoMoves
    <3>2. \A i \in 1 .. Len(Rest) : i + 1 \in 1 .. Len(fifo)
      BY <3>1
    <3> QED BY <1>2, <3>1, <3>2
  <2>2. CASE ~Taken
    BY <1>2, <2>2, FifoMoves
  <2> QED BY <2>1, <2>2
<1>4. \A i \in 1 .. Len(Rest) : fifo'[i].sample = Rest[i].sample
  <2> SUFFICES ASSUME NEW i \in 1 .. Len(Rest)
               PROVE  fifo'[i].sample = Rest[i].sample
    OBVIOUS
  <2> DEFINE E == Entries
  <2>1. Rest[i] \in E
    <3> HIDE DEF E
    <3>1. Rest \in Seq(E)
      BY FifoMoves DEF E
    <3> QED BY <3>1
  <2>2. fifo'[i] = Aged(Rest[i])
    BY FifoMoves
  <2> QED BY <2>1, <2>2 DEF Aged, Entries
<1>5. \A i \in DOMAIN fifo' : Whole(fifo'[i].sample)
  <2> SUFFICES ASSUME NEW i \in DOMAIN fifo' PROVE Whole(fifo'[i].sample)
    OBVIOUS
  <2>1. /\ i \in 1 .. Len(fifo') /\ Len(fifo') = Len(Rest) + One(Written)
        /\ Len(Rest) \in Nat
    BY FifoMoves
  <2>2. CASE i \in 1 .. Len(Rest)
    BY <1>3, <1>4, <2>2
  <2>3. CASE ~(i \in 1 .. Len(Rest))
    <3>1. Written /\ i = Len(Rest) + 1
      BY <2>1, <2>3 DEF One
    <3>2. fifo'[i].sample = sample_sys
      BY <3>1, FifoMoves
    <3> QED BY <1>1, <3>1, <3>2
  <2> QED BY <2>2, <2>3
<1>6. ASSUME AtOutput' PROVE Whole(fifo_out')
  <2>1. \/ DrvReadSample /\ drv_state = "DRV_READ_SAMPLE"
        \/ AtOutput /\ drv_state # "DRV_READ_SAMPLE"
    BY <1>6, DriveMoves
    DEF AtOutput, DrvOff, DrvWaitSample, DrvReadSample, DrvAdjust,
        DrvWaitTrigger
  <2>2. CASE drv_state = "DRV_READ_SAMPLE"
    <3>1. Taken
      BY <2>2 DEF Reading, Taken
    <3>2. /\ fifo_out' = fifo[1].sample /\ 1 \in 1 .. Len(fifo)
      BY <3>1, FifoMoves
    <3> QED BY <1>2, <3>2
  <2>3. CASE AtOutput /\ drv_state # "DRV_READ_SAMPLE"
    <3>1. ~Taken
      BY <2>3 DEF Reading, Taken
    <3>2. fifo_out' = fifo_out
      BY <3>1, FifoMoves
    <3> QED BY <2>3, <3>2 DEF SamplesWhole
  <2> QED BY <2>1, <2>2, <2>3
<1> QED BY <1>5, <1>6 DEF SamplesWhole, Whole

-----------------------------------------------------------------------------
(* What makes whole samples of the words, in both cards and in between.    *)
SampleInv ==
  /\ Pacing /\ BlockUnderWay /\ BlocksInAir
  /\ Switching /\ Receiving /\ Reading /\ SamplesWhole

LEMMA SampleInit == Init => SampleInv
BY PacingInit, BlockInit, SlaveInit DEF SampleInv

LEMMA StoppedKeepsSamples == SampleInv /\ UNCHANGED vars => SampleInv'
<1> SUFFICES ASSUME SampleInv, UNCHANGED vars PROVE SampleInv'
  OBVIOUS
<1>1. /\ UNCHANGED txPathVars /\ UNCHANGED rxPathVars /\ UNCHANGED linkVars
  BY DEF vars
<1>2. Pacing' /\ BlockUnderWay' /\ BlocksInAir'
  BY <1>1
  DEF SampleInv, Pacing, Takes, Left, Since, Stalling, BlockUnderWay, Sent,
      BlocksInAir, txPathVars, tagVars, txSysVars, linkVars
<1>3. Switching' /\ Receiving' /\ Reading' /\ SamplesWhole'
  BY <1>1
  DEF SampleInv, Switching, Receiving, Reading, SamplesWhole, AtOutput,
      fifo_empty, Whole, rxPathVars, rxSysVars, pipeVars, driveVars, linkVars
<1> QED BY <1>2, <1>3 DEF SampleInv

LEMMA SampleStep ==
  ASSUME Paced, SwitchedOnce, TypeInv, SampleInv, [Next]_vars
  PROVE  SampleInv'
<1>1. CASE UNCHANGED vars
  BY <1>1, StoppedKeepsSamples
<1>2. ASSUME NEW tx_dreq \in BOOLEAN, NEW slave \in BOOLEAN,
             NEW get \in BOOLEAN, Step(tx_dreq, slave, get)
      PROVE  SampleInv'
  <2>1. /\ Pacing /\ BlockUnderWay /\ BlocksInAir
        /\ Switching /\ Receiving /\ Reading /\ SamplesWhole
    BY DEF SampleInv
  <2>2. Pacing' /\ BlockUnderWay' /\ BlocksInAir'
    BY <1>2, <2>1, PacingStep, BlockStep, InAirStep
  <2>3. Switching' /\ Receiving' /\ Reading' /\ SamplesWhole'
    BY <1>2, <2>1, SwitchingStep, ReceivingStep, ReadingStep, WholeStep
  <2> QED BY <2>2, <2>3 DEF SampleInv
<1> QED BY <1>1, <1>2, NextIsStep DEF Stopped

LEMMA SampleInvIsWhole == SampleInv => WholeSamples
<1> SUFFICES ASSUME SampleInv, NEW s \in Held PROVE Whole(s)
  BY DEF WholeSamples, Whole
<1>1. SamplesWhole
  BY DEF SampleInv
<1>2. CASE s \in {fifo[i].sample : i \in DOMAIN fifo}
  BY <1>1, <1>2 DEF SamplesWhole
<1>3. CASE AtOutput /\ s = fifo_out
  BY <1>1, <1>3 DEF SamplesWhole
<1> QED BY <1>2, <1>3 DEF Held

(* dds_tx_path.vhd, dds_rx_path.vhd: the words of a sample were snapped    *)
(* together, whatever the stalls and the losses, when a block is sent      *)
(* before the next sample is taken.                                        *)
THEOREM SamplesAreWhole ==
  ASSUME Paced, SwitchedOnce
  PROVE  Spec => []WholeSamples
<1>1. TypeInv /\ SampleInv /\ [Next]_vars => SampleInv'
  BY SampleStep
<1> QED BY <1>1, TypeInit, TypeStep, SampleInit, SampleInvIsWhole, PTL DEF Spec

-----------------------------------------------------------------------------
(* Each sample is applied in its time.                                     *)
LEMMA PipesInit ==
  Init => /\ AddersBehind /\ ComparesSample /\ NotSeenYet
          /\ NoMissYet /\ FirstHit
<1> SUFFICES ASSUME Init
             PROVE  /\ AddersBehind /\ ComparesSample /\ NotSeenYet
                    /\ NoMissYet /\ FirstHit
  OBVIOUS
<1> DEFINE zero == [utc |-> 0, coarse |-> 0]
<1>1. /\ now = Beginning /\ cr_slave_o = FALSE /\ slave_sync = <<FALSE, FALSE>>
      /\ drv_state = "DRV_WAIT_SAMPLE" /\ miss_cnt = 0 /\ hit_cnt = 0
      /\ fifo_out = NoSample
      /\ sums = <<zero, zero, [sum |-> zero, carry |-> 0], Stamp(0, 0)>>
  BY DEF Init, RxPathInit
<1>2. TimeOf(Stamp(0, 0)) = 0
  BY Assumed DEF TimeOf, Stamp
<1>3. Carry(zero) = 0 /\ Normalise(zero, 0) = Stamp(0, 0)
  BY Assumed DEF Carry, Normalise
<1> HIDE DEF zero
<1>4. Adder = <<0, 0, 0, 0>>
  BY <1>1, <1>2, <1>3 DEF Adder
<1>5. Due = Delay
  BY <1>1, <1>2, Assumed DEF Due, NoSample, NoWord
<1>6. now \in Nat /\ Delay \in Nat /\ now > Delay + 1
  BY <1>1, Assumed
<1>7. \A stage \in Stages : IsPast(stage)
  <2> SUFFICES ASSUME NEW stage \in Stages PROVE IsPast(stage)
    OBVIOUS
  <2>1. Adder[stage] = 0 /\ stage \in 1 .. 4
    BY <1>4 DEF Stages
  <2>2. now \in Nat /\ now > 1
    BY <1>6
  <2> HIDE DEF Adder
  <2>3. 0 < now + 3 - stage
    <3>1. stage \in 1 .. 4
      BY DEF Stages
    <3> HIDE DEF Stages
    <3> QED BY <2>2, <3>1
  <2> QED BY <2>1, <2>3 DEF IsPast
<1>8. Due < now + 3
  BY <1>5, <1>6
<1>9. AddersBehind
  BY <1>1, <1>7, <1>8 DEF AddersBehind
<1> QED BY <1>1, <1>9 DEF ComparesSample, NotSeenYet, NoMissYet, FirstHit

(* The results of the adder move on by a stage. *)
LEMMA AdderMoves ==
  ASSUME TypeInv, NoWrap, NEW tx_dreq \in BOOLEAN, NEW slave \in BOOLEAN,
         NEW get \in BOOLEAN, Step(tx_dreq, slave, get)
  PROVE  /\ Due \in Nat
         /\ \A stage \in Stages : Adder[stage] \in Nat
         /\ Adder' = <<Due, Adder[1], Adder[2], Adder[3]>>
<1> DEFINE s == fifo_out.timestamp.stamp
           d == Stamp(0, Delay)
<1>1. Pipelines(StampOf(now)) /\ now < EndOfTime
  BY DEF Step, Slave, RxRefEdge
<1>2. s \in Normal /\ TimeOf(s) < now /\ now \in Nat
  BY DEF TypeInv, FifoTyped, TimeTyped, KnownSamples, Known, Words
<1>3. TimeOf(s) \in Nat
  BY <1>2, TimeIsNat
<1>4. TimeOf(s) + Delay < TaiSize * Rate
  <2> DEFINE W == TaiSize * Rate
  <2>1. W \in Nat /\ EndOfTime + Delay <= W
    BY Assumed DEF NoWrap
  <2> HIDE DEF W
  <2>2. TimeOf(s) + Delay < W
    BY <1>1, <1>2, <1>3, <2>1, Assumed
  <2> QED BY <2>2 DEF W
<1>5. TimeOf(Sum(s, d)) = TimeOf(s) + Delay
  BY <1>2, <1>4, DelayIsAdded
<1>6. /\ sums'[1] = FieldSum(s, d) /\ sums'[2] = sums[1]
      /\ sums'[3].sum = sums[2] /\ sums'[3].carry = Carry(sums[2])
      /\ sums'[4] = Normalise(sums[3].sum, sums[3].carry)
  BY <1>1 DEF Pipelines
<1>7. TimeOf(Normalise(sums'[1], Carry(sums'[1]))) = Due
  BY <1>5, <1>6 DEF Sum, Due
<1>8. Adder' = <<Due, Adder[1], Adder[2], Adder[3]>>
  BY <1>6, <1>7 DEF Adder
<1>9. /\ Normalise(sums[1], Carry(sums[1])) \in Normal
      /\ Normalise(sums[2], Carry(sums[2])) \in Normal
      /\ Normalise(sums[3].sum, sums[3].carry) \in Normal
      /\ sums[4] \in Normal
  BY NormaliseIsTyped DEF TypeInv, PipesTyped
<1>10. \A stage \in Stages : Adder[stage] \in Nat
  BY <1>9, TimeIsNat DEF Adder, Stages
<1>11. Due \in Nat
  BY <1>3, Assumed DEF Due
<1> QED BY <1>8, <1>10, <1>11

(* The comparators compare the last result with the time before this one.  *)
LEMMA CompareMoves ==
  ASSUME TypeInv, NoWrap, AddersBehind, NEW tx_dreq \in BOOLEAN,
         NEW slave \in BOOLEAN, NEW get \in BOOLEAN, Step(tx_dreq, slave, get)
  PROVE  /\ cr_slave_o =>
              /\ Equal(compare'.fields) <=> Adder[4] = now - 1
              /\ Great(compare'.fields) <=> Adder[4] > now - 1
         /\ compare'.equal <=> Equal(compare.fields)
         /\ compare'.great <=> Great(compare.fields)
         /\ compare'.stage1 <=> compare_enable
         /\ compare'.done <=> compare.stage1
         /\ tm_d0' = StampOf(now' - 1)
<1>1. Pipelines(StampOf(now)) /\ now' = now + 1
  BY DEF Step, Slave, RxRefEdge
<1>2. now \in Nat /\ Beginning <= now /\ now <= EndOfTime
  BY DEF TypeInv, TimeTyped
<1>3. tm_d0' = StampOf(now' - 1)
  <2>1. now' - 1 = now
    BY <1>1, <1>2
  <2> QED BY <1>1, <2>1 DEF Pipelines
<1>4. /\ compare'.equal = Equal(compare.fields)
      /\ compare'.great = Great(compare.fields)
      /\ compare'.stage1 = compare_enable /\ compare'.done = compare.stage1
      /\ compare'.fields = FieldCompare(sums[4], tm_d0)
  BY <1>1 DEF Pipelines, time_adj
<1>5. sums[4] \in Normal /\ tm_d0 \in Normal /\ Adder[4] = TimeOf(sums[4])
  BY DEF TypeInv, PipesTyped, Adder
<1>6. /\ Equal(compare'.fields) <=> Adder[4] = TimeOf(tm_d0)
      /\ Great(compare'.fields) <=> Adder[4] > TimeOf(tm_d0)
  BY <1>4, <1>5, ComparesTimes
<1>7. cr_slave_o => TimeOf(tm_d0) = now - 1
  <2> DEFINE W == TaiSize * Rate
  <2>1. W \in Nat /\ EndOfTime + Delay <= W
    BY Assumed DEF NoWrap
  <2> HIDE DEF W
  <2>2. now - 1 \in Nat /\ now - 1 < W
    BY <1>2, <2>1, Assumed
  <2>3. TimeOf(StampOf(now - 1)) = now - 1
    BY <2>2, TimeOfStamp DEF W
  <2> QED BY <2>3 DEF AddersBehind
<1> QED BY <1>3, <1>4, <1>6, <1>7

(* A sample comes to the FIFO's output, stays, and leaves when it is due.  *)
LEMMA OutputMoves ==
  ASSUME TypeInv, Switching, SwitchedOnce, Reading, ComparesSample,
         NotSeenYet, NEW tx_dreq \in BOOLEAN, NEW slave \in BOOLEAN,
         NEW get \in BOOLEAN, Step(tx_dreq, slave, get)
  PROVE  \/ AtOutput /\ AtOutput' /\ Due' = Due
         \/ AtOutput /\ ~AtOutput' /\ Due' = Due /\ Due = now - 3
         \/ ~AtOutput /\ ~AtOutput' /\ Due' = Due
         \/ /\ ~AtOutput /\ AtOutput'
            /\ drv_state = "DRV_READ_SAMPLE" /\ drv_state' = "DRV_ADJUST"
<1>1. ~Taken => Due' = Due
  BY FifoMoves DEF Due
<1>2. CASE drv_state = "DRV_READ_SAMPLE"
  BY <1>2, DriveMoves DEF Reading, slave_mode_on, DrvReadSample, AtOutput,
     DrvWaitSample, DrvAdjust, DrvWaitTrigger
<1>3. CASE drv_state = "DRV_WAIT_SAMPLE"
  <2>1. ~Taken
    BY <1>3 DEF Reading, Taken
  <2>2. ~AtOutput'
    BY <1>3, DriveMoves
    DEF DrvOff, DrvReadSample, AtOutput, DrvWaitSample, DrvAdjust,
        DrvWaitTrigger
  <2> QED BY <1>1, <1>3, <2>1, <2>2 DEF AtOutput
<1>4. CASE drv_state = "DRV_ADJUST"
  <2>1. ~Taken /\ slave_mode_on /\ ~ts_miss
    BY <1>4 DEF Reading, Taken, slave_mode_on, NotSeenYet, ts_miss
  <2>2. DrvAdjust
    BY <1>4, <2>1, DriveMoves DEF DrvReadSample, DrvWaitSample, DrvWaitTrigger
  <2>3. AtOutput'
    BY <1>4, <2>1, <2>2 DEF DrvAdjust, AtOutput
  <2> QED BY <1>1, <1>4, <2>1, <2>3 DEF AtOutput
<1>5. CASE drv_state = "DRV_WAIT_TRIGGER"
  <2>1. ~Taken /\ slave_mode_on
    BY <1>5 DEF Reading, Taken, slave_mode_on
  <2>2. DrvWaitTrigger
    BY <1>5, <2>1, DriveMoves DEF DrvReadSample, DrvWaitSample, DrvAdjust
  <2>3. AtOutput
    BY <1>5 DEF AtOutput
  <2>4. CASE ts_hit
    <3>1. Due = now - 3
      BY <2>1, <2>4 DEF slave_mode_on, ts_hit, ComparesSample
    <3>2. ~AtOutput'
      BY <2>2, <2>4 DEF DrvWaitTrigger, AtOutput
    <3> QED BY <1>1, <2>1, <2>3, <3>1, <3>2
  <2>5. CASE ~ts_hit
    <3>1. AtOutput'
      BY <1>5, <2>2, <2>5 DEF DrvWaitTrigger, AtOutput
    <3> QED BY <1>1, <2>1, <2>3, <3>1
  <2> QED BY <2>4, <2>5
<1> QED BY <1>2, <1>3, <1>4, <1>5 DEF TypeInv, DriveTyped, DriveStates

(* What the invariants say of the adder, in this cycle and in the next. *)
LEMMA StagesMove ==
  ASSUME TypeInv, NoWrap, AddersBehind, NEW tx_dreq \in BOOLEAN,
         NEW slave \in BOOLEAN, NEW get \in BOOLEAN, Step(tx_dreq, slave, get)
  PROVE  /\ now \in Nat /\ now' = now + 1 /\ Due \in Nat
         /\ Adder[1] \in Nat /\ Adder[2] \in Nat
         /\ Adder[3] \in Nat /\ Adder[4] \in Nat
         /\ Adder'[1] = Due /\ Adder'[2] = Adder[1]
         /\ Adder'[3] = Adder[2] /\ Adder'[4] = Adder[3]
         /\ Adder[1] < now + 2 \/ (AtOutput /\ Adder[1] = Due)
         /\ Adder[2] < now + 1 \/ (AtOutput /\ Adder[2] = Due)
         /\ Adder[3] < now \/ (AtOutput /\ Adder[3] = Due)
         /\ Adder[4] < now - 1 \/ (AtOutput /\ Adder[4] = Due)
<1>1. now \in Nat /\ now' = now + 1
  BY DEF Step, TypeInv, TimeTyped
<1>2. /\ Due \in Nat
      /\ Adder[1] \in Nat /\ Adder[2] \in Nat
      /\ Adder[3] \in Nat /\ Adder[4] \in Nat
  BY AdderMoves DEF Stages
<1>3. /\ Adder'[1] = Due /\ Adder'[2] = Adder[1]
      /\ Adder'[3] = Adder[2] /\ Adder'[4] = Adder[3]
  BY AdderMoves
<1>4. /\ IsPast(1) \/ IsDue(1)
      /\ IsPast(2) \/ IsDue(2)
      /\ IsPast(3) \/ IsDue(3)
      /\ IsPast(4) \/ IsDue(4)
  BY DEF AddersBehind, Stages
<1>5. /\ Adder[1] < now + 2 \/ (AtOutput /\ Adder[1] = Due)
      /\ Adder[2] < now + 1 \/ (AtOutput /\ Adder[2] = Due)
      /\ Adder[3] < now \/ (AtOutput /\ Adder[3] = Due)
      /\ Adder[4] < now - 1 \/ (AtOutput /\ Adder[4] = Due)
  <2> HIDE DEF Adder, Due, AtOutput
  <2> QED BY <1>1, <1>2, <1>4 DEF IsPast, IsDue
<1> QED BY <1>1, <1>2, <1>3, <1>5

LEMMA AddersStep ==
  ASSUME TypeInv, Switching, SwitchedOnce, Reading, NoWrap, AddersBehind,
         ComparesSample, NotSeenYet, NEW tx_dreq \in BOOLEAN,
         NEW slave \in BOOLEAN, NEW get \in BOOLEAN, Step(tx_dreq, slave, get)
  PROVE  AddersBehind'
<1>1. /\ now \in Nat /\ now' = now + 1 /\ Due \in Nat
      /\ Adder[1] \in Nat /\ Adder[2] \in Nat /\ Adder[3] \in Nat
      /\ Adder'[1] = Due /\ Adder'[2] = Adder[1]
      /\ Adder'[3] = Adder[2] /\ Adder'[4] = Adder[3]
      /\ Adder[1] < now + 2 \/ (AtOutput /\ Adder[1] = Due)
      /\ Adder[2] < now + 1 \/ (AtOutput /\ Adder[2] = Due)
      /\ Adder[3] < now \/ (AtOutput /\ Adder[3] = Due)
  BY StagesMove
<1>2. \/ AtOutput /\ AtOutput' /\ Due' = Due
      \/ AtOutput /\ ~AtOutput' /\ Due' = Due /\ Due = now - 3
      \/ ~AtOutput /\ ~AtOutput' /\ Due' = Due
      \/ ~AtOutput /\ AtOutput'
  BY OutputMoves
<1>3. ~AtOutput => Due < now + 3
  BY DEF AddersBehind
<1>4. cr_slave_o' => tm_d0' = StampOf(now' - 1)
  BY CompareMoves
<1> HIDE DEF Adder, Due, AtOutput
<1>5. /\ Adder'[1] < now' + 2 \/ (AtOutput' /\ Adder'[1] = Due')
      /\ Adder'[2] < now' + 1 \/ (AtOutput' /\ Adder'[2] = Due')
      /\ Adder'[3] < now' \/ (AtOutput' /\ Adder'[3] = Due')
      /\ Adder'[4] < now' - 1 \/ (AtOutput' /\ Adder'[4] = Due')
  BY <1>1, <1>2, <1>3
<1>6. ~AtOutput' => Due' < now' + 3
  BY <1>1, <1>2, <1>3
<1>7. \A stage \in Stages :
        \/ Adder'[stage] < now' + 3 - stage
        \/ AtOutput' /\ Adder'[stage] = Due'
  <2> SUFFICES ASSUME NEW stage \in Stages
               PROVE  \/ Adder'[stage] < now' + 3 - stage
                      \/ AtOutput' /\ Adder'[stage] = Due'
    OBVIOUS
  <2>1. stage = 1 \/ stage = 2 \/ stage = 3 \/ stage = 4
    BY DEF Stages
  <2>2. /\ now' + 3 - 1 = now' + 2 /\ now' + 3 - 2 = now' + 1
        /\ now' + 3 - 3 = now' /\ now' + 3 - 4 = now' - 1
    BY <1>1
  <2> QED BY <1>5, <2>1, <2>2
<1> QED BY <1>4, <1>6, <1>7 DEF AddersBehind, IsPast, IsDue

LEMMA ComparesStep ==
  ASSUME TypeInv, Switching, SwitchedOnce, Reading, NoWrap, AddersBehind,
         ComparesSample, NotSeenYet, NEW tx_dreq \in BOOLEAN,
         NEW slave \in BOOLEAN, NEW get \in BOOLEAN, Step(tx_dreq, slave, get)
  PROVE  ComparesSample'
<1>1. /\ now \in Nat /\ now' = now + 1 /\ Due \in Nat /\ Adder[4] \in Nat
      /\ Adder[4] < now - 1 \/ (AtOutput /\ Adder[4] = Due)
  BY StagesMove
<1>2. \/ AtOutput /\ AtOutput' /\ Due' = Due
      \/ AtOutput /\ ~AtOutput' /\ Due' = Due /\ Due = now - 3
      \/ ~AtOutput
  BY OutputMoves
<1>3. slave_sync'[1] = cr_slave_o /\ slave_sync'[2] = slave_sync[1]
  BY SwitchingStep
<1>4. /\ cr_slave_o => /\ Equal(compare'.fields) <=> Adder[4] = now - 1
                       /\ Great(compare'.fields) <=> Adder[4] > now - 1
      /\ compare'.equal <=> Equal(compare.fields)
      /\ compare'.great <=> Great(compare.fields)
  BY CompareMoves
<1>5. slave_sync[1] => /\ Equal(compare.fields) => AtOutput /\ Due = now - 2
                       /\ Great(compare.fields) => AtOutput /\ Due > now - 2
  BY DEF ComparesSample
<1> HIDE DEF Adder, Due, AtOutput
<1>6. ASSUME slave_sync'[1]
      PROVE  /\ Equal(compare'.fields) => AtOutput' /\ Due' = now' - 2
             /\ Great(compare'.fields) => AtOutput' /\ Due' > now' - 2
  <2>1. /\ Equal(compare'.fields) => Adder[4] = now - 1
        /\ Great(compare'.fields) => Adder[4] > now - 1
    BY <1>3, <1>4, <1>6
  <2>2. Adder[4] = now - 1 => AtOutput' /\ Due' = now' - 2
    BY <1>1, <1>2
  <2>3. Adder[4] > now - 1 => AtOutput' /\ Due' > now' - 2
    BY <1>1, <1>2
  <2> QED BY <2>1, <2>2, <2>3
<1>7. ASSUME slave_sync'[2]
      PROVE  /\ compare'.equal => AtOutput' /\ Due' = now' - 3
             /\ compare'.great => AtOutput' /\ Due' > now' - 3
  <2>1. /\ compare'.equal => AtOutput /\ Due = now - 2
        /\ compare'.great => AtOutput /\ Due > now - 2
    BY <1>3, <1>4, <1>5, <1>7
  <2>2. AtOutput /\ Due = now - 2 => AtOutput' /\ Due' = now' - 3
    BY <1>1, <1>2
  <2>3. AtOutput /\ Due > now - 2 => AtOutput' /\ Due' > now' - 3
    BY <1>1, <1>2
  <2> QED BY <2>1, <2>2, <2>3
<1> QED BY <1>6, <1>7 DEF ComparesSample

LEMMA NotSeenStep ==
  ASSUME TypeInv, Switching, SwitchedOnce, Reading, NoWrap, AddersBehind,
         ComparesSample, NotSeenYet, NEW tx_dreq \in BOOLEAN,
         NEW slave \in BOOLEAN, NEW get \in BOOLEAN, Step(tx_dreq, slave, get)
  PROVE  NotSeenYet'
<1> SUFFICES ASSUME drv_state' = "DRV_ADJUST"
             PROVE  /\ compare_enable'
                    /\ ~compare'.equal /\ ~compare'.great
                    /\ ~Equal(compare'.fields) /\ ~Great(compare'.fields)
                    /\ Adder'[4] < now' - 1 /\ Adder'[3] < now'
                    /\ ~compare'.done => Adder'[2] < now' + 1
                    /\ ~compare'.done /\ ~compare'.stage1
                         => Adder'[1] < now' + 2
  <2>1. now \in Nat /\ now' = now + 1
    BY DEF Step, TypeInv, TimeTyped
  <2>2. /\ now' + 3 - 1 = now' + 2 /\ now' + 3 - 2 = now' + 1
        /\ now' + 3 - 3 = now' /\ now' + 3 - 4 = now' - 1
    BY <2>1
  <2> QED BY <2>2 DEF NotSeenYet, IsPast
<1>1. /\ now \in Nat /\ now' = now + 1 /\ Due \in Nat
      /\ Adder[1] \in Nat /\ Adder[2] \in Nat
      /\ Adder[3] \in Nat /\ Adder[4] \in Nat
      /\ Adder'[1] = Due /\ Adder'[2] = Adder[1]
      /\ Adder'[3] = Adder[2] /\ Adder'[4] = Adder[3]
  BY StagesMove
<1>2. slave_mode_on /\ slave_sync[1] /\ cr_slave_o
  BY DriveMoves DEF DrvOff, Switching, slave_mode_on
<1>3. /\ Equal(compare'.fields) <=> Adder[4] = now - 1
      /\ Great(compare'.fields) <=> Adder[4] > now - 1
      /\ compare'.equal <=> Equal(compare.fields)
      /\ compare'.great <=> Great(compare.fields)
      /\ compare'.stage1 <=> compare_enable
      /\ compare'.done <=> compare.stage1
  BY <1>2, CompareMoves
<1>4. CASE drv_state = "DRV_READ_SAMPLE"
  <2>1. ~AtOutput
    BY <1>4 DEF AtOutput
  <2>2. compare_enable'
    BY <1>2, <1>4, DriveMoves
    DEF DrvWaitSample, DrvReadSample, DrvAdjust, DrvWaitTrigger
  <2>3. ~Equal(compare.fields) /\ ~Great(compare.fields)
    BY <1>2, <2>1 DEF ComparesSample
  <2>4. /\ Adder[1] < now + 2 /\ Adder[2] < now + 1
        /\ Adder[3] < now /\ Adder[4] < now - 1
    BY <2>1, StagesMove
  <2>5. Due < now + 3
    BY <2>1 DEF AddersBehind
  <2> HIDE DEF Adder, Due
  <2>6. ~Equal(compare'.fields) /\ ~Great(compare'.fields)
    BY <1>1, <1>3, <2>4
  <2>7. /\ Adder'[4] < now' - 1 /\ Adder'[3] < now'
        /\ Adder'[2] < now' + 1 /\ Adder'[1] < now' + 2
    BY <1>1, <2>4, <2>5
  <2> QED BY <1>3, <2>2, <2>3, <2>6, <2>7
<1>5. CASE drv_state = "DRV_ADJUST"
  <2>1. /\ compare_enable /\ ~compare.equal /\ ~compare.great
        /\ ~Equal(compare.fields) /\ ~Great(compare.fields)
        /\ Adder[4] < now + 3 - 4 /\ Adder[3] < now + 3 - 3
        /\ ~compare.done => Adder[2] < now + 3 - 2
        /\ ~compare.done /\ ~compare.stage1 => Adder[1] < now + 3 - 1
    BY <1>5 DEF NotSeenYet, IsPast
  <2>2. DrvAdjust
    BY <1>2, <1>5, DriveMoves DEF DrvReadSample, DrvWaitSample, DrvWaitTrigger
  <2>3. ~compare.done /\ compare_enable'
    BY <2>1, <2>2 DEF DrvAdjust
  <2> HIDE DEF Adder, Due
  <2>4. Adder[4] < now - 1 /\ Adder[3] < now /\ Adder[2] < now + 1
    BY <1>1, <2>1, <2>3
  <2>5. ~compare.stage1 => Adder[1] < now + 2
    BY <1>1, <2>1, <2>3
  <2>6. ~Equal(compare'.fields) /\ ~Great(compare'.fields)
    BY <1>1, <1>3, <2>4
  <2>7. Adder'[4] < now' - 1 /\ Adder'[3] < now'
    BY <1>1, <2>4
  <2>8. ~compare.stage1 => Adder'[2] < now' + 1
    BY <1>1, <2>5
  <2> QED BY <1>3, <2>1, <2>3, <2>6, <2>7, <2>8
<1>6. CASE drv_state \in {"DRV_WAIT_SAMPLE", "DRV_WAIT_TRIGGER"}
  BY <1>2, <1>6, DriveMoves
  DEF DrvWaitSample, DrvReadSample, DrvAdjust, DrvWaitTrigger
<1> QED BY <1>4, <1>5, <1>6 DEF TypeInv, DriveTyped, DriveStates

LEMMA CountsStep ==
  ASSUME TypeInv, Switching, NotSeenYet, NoMissYet, FirstHit,
         NEW tx_dreq \in BOOLEAN, NEW slave \in BOOLEAN, NEW get \in BOOLEAN,
         Step(tx_dreq, slave, get)
  PROVE  NoMissYet' /\ FirstHit'
<1>1. cic_state' = IF ~slave_mode_on THEN "CIC_WAIT"
                   ELSE IF drv_state = "DRV_WAIT_TRIGGER" /\ ts_hit
                     THEN "CIC_DONE" ELSE cic_state
  BY DEF Step, Slave, RxRefEdge, CicFsm
<1>2. CASE ~slave_mode_on
  BY <1>2, DriveMoves DEF DrvOff, NoMissYet, FirstHit
<1>3. CASE slave_mode_on /\ drv_state = "DRV_WAIT_TRIGGER"
  <2>1. DrvWaitTrigger
    BY <1>3, DriveMoves DEF DrvWaitSample, DrvReadSample, DrvAdjust
  <2> QED BY <1>1, <1>3, <2>1 DEF DrvWaitTrigger, NoMissYet, FirstHit
<1>4. CASE slave_mode_on /\ drv_state # "DRV_WAIT_TRIGGER"
  <2>1. DrvWaitSample \/ DrvReadSample \/ DrvAdjust
    BY <1>4, DriveMoves DEF DrvWaitTrigger
  <2>2. drv_state = "DRV_ADJUST" => ~ts_miss
    BY DEF NotSeenYet, ts_miss
  <2>3. hit_cnt' = hit_cnt /\ miss_cnt' = miss_cnt
    BY <2>1, <2>2 DEF DrvWaitSample, DrvReadSample, DrvAdjust
  <2> QED BY <1>1, <1>4, <2>3 DEF NoMissYet, FirstHit
<1> QED BY <1>2, <1>3, <1>4

(* Together: a sample is seen by the comparators only when it is due. *)
TriggerInv == /\ AddersBehind /\ ComparesSample /\ NotSeenYet
              /\ NoMissYet /\ FirstHit

LEMMA StoppedKeepsTriggers == TriggerInv /\ UNCHANGED vars => TriggerInv'
<1> SUFFICES ASSUME TriggerInv, UNCHANGED vars PROVE TriggerInv'
  OBVIOUS
<1>1. UNCHANGED rxPathVars /\ UNCHANGED linkVars
  BY DEF vars
<1>2. Adder' = Adder /\ Due' = Due /\ AtOutput' = AtOutput
  BY <1>1 DEF Adder, Due, AtOutput, rxPathVars, pipeVars, driveVars
<1>3. UNCHANGED <<cr_slave_o, compare, tm_d0, slave_sync, compare_enable,
                  drv_state, hit_cnt, miss_cnt, cic_state, now>>
  BY <1>1 DEF rxPathVars, rxSysVars, pipeVars, driveVars, linkVars
<1> HIDE DEF Adder, Due, AtOutput
<1>4. AddersBehind' /\ ComparesSample' /\ NotSeenYet'
  BY <1>2, <1>3
  DEF TriggerInv, AddersBehind, ComparesSample, NotSeenYet, IsPast, IsDue
<1>5. NoMissYet' /\ FirstHit'
  BY <1>3 DEF TriggerInv, NoMissYet, FirstHit
<1> QED BY <1>4, <1>5 DEF TriggerInv

LEMMA TriggerStep ==
  ASSUME SwitchedOnce, NoWrap, TypeInv, SampleInv, TriggerInv, [Next]_vars
  PROVE  TriggerInv'
<1>1. CASE UNCHANGED vars
  BY <1>1, StoppedKeepsTriggers
<1>2. ASSUME NEW tx_dreq \in BOOLEAN, NEW slave \in BOOLEAN,
             NEW get \in BOOLEAN, Step(tx_dreq, slave, get)
      PROVE  TriggerInv'
  <2>1. /\ Switching /\ Reading /\ AddersBehind /\ ComparesSample
        /\ NotSeenYet /\ NoMissYet /\ FirstHit
    BY DEF SampleInv, TriggerInv
  <2>2. AddersBehind' /\ ComparesSample' /\ NotSeenYet'
    BY <1>2, <2>1, AddersStep, ComparesStep, NotSeenStep
  <2>3. NoMissYet' /\ FirstHit'
    BY <1>2, <2>1, CountsStep
  <2> QED BY <2>2, <2>3 DEF TriggerInv
<1> QED BY <1>1, <1>2, NextIsStep DEF Stopped

(* The sample that is applied was taken Latency cycles ago. *)
LEMMA AppliedInTime ==
  ASSUME TypeInv, SampleInv, TriggerInv, [Next]_vars, applied' # applied
  PROVE  applied'.tune.stamp = StampOf(now - Latency)
<1>1. PICK tx_dreq \in BOOLEAN, slave \in BOOLEAN, get \in BOOLEAN :
        Step(tx_dreq, slave, get)
  BY NextIsStep DEF Stopped, vars, rxPathVars, driveVars
<1>2. /\ slave_mode_on /\ drv_state = "DRV_WAIT_TRIGGER" /\ ts_hit
      /\ applied' = [acc |-> fifo_out.acc, tune |-> fifo_out.tune]
  BY <1>1, DriveMoves
  DEF DrvOff, DrvWaitSample, DrvReadSample, DrvAdjust, DrvWaitTrigger
<1>3. Due = now - 3
  BY <1>2 DEF TriggerInv, ComparesSample, slave_mode_on, ts_hit
<1>4. Whole(fifo_out)
  BY <1>2 DEF SampleInv, SamplesWhole, AtOutput
<1> DEFINE s == fifo_out.timestamp.stamp
<1>5. s \in Normal
  BY DEF TypeInv, FifoTyped, KnownSamples, Known, Words
<1>6. TimeOf(s) = now - Latency
  <2>1. TimeOf(s) \in Nat
    BY <1>5, TimeIsNat
  <2>2. TimeOf(s) + Delay = now - 3 /\ now \in Nat /\ Delay \in Nat
    BY <1>3, Assumed DEF Due, TypeInv, TimeTyped
  <2> HIDE DEF s
  <2> QED BY <2>1, <2>2 DEF Latency
<1>7. StampOf(now - Latency) = s
  BY <1>5, <1>6, StampOfTime
<1>8. fifo_out.tune.stamp = s
  BY <1>4 DEF Whole
<1> QED BY <1>2, <1>7, <1>8

(* dds_rx_path.vhd:253-318: the tuning value changes Latency cycles after  *)
(* the master's was taken, for every delay and every time the words take,  *)
(* as long as slave mode is not switched off and on.                       *)
THEOREM AppliesOnTime ==
  ASSUME Paced, SwitchedOnce, NoWrap
  PROVE  Spec => AppliedOnTime
<1>1. TypeInv /\ SampleInv /\ [Next]_vars => SampleInv'
  BY SampleStep
<1>2. TypeInv /\ SampleInv /\ TriggerInv /\ [Next]_vars => TriggerInv'
  BY TriggerStep
<1>3. Init => TriggerInv
  BY PipesInit DEF TriggerInv
<1>4. TypeInv /\ SampleInv /\ TriggerInv /\ [Next]_vars
        => [applied' # applied
              => applied'.tune.stamp = StampOf(now - Latency)]_vars
  BY AppliedInTime
<1> QED BY <1>1, <1>2, <1>3, <1>4, TypeInit, TypeStep, SampleInit, PTL
        DEF Spec, AppliedOnTime

LEMMA ResetIsFirst ==
  SampleInv /\ TriggerInv => CicResetWithFirst
<1> SUFFICES ASSUME SampleInv, TriggerInv, cic_reset_o(TRUE)
             PROVE  drv_state = "DRV_WAIT_TRIGGER" /\ hit_cnt = 0
  BY DEF CicResetWithFirst
<1>1. compare.equal /\ cic_state = "CIC_WAIT" /\ slave_sync[2]
  BY DEF cic_reset_o, ts_hit, slave_mode_on
<1>2. AtOutput
  BY <1>1 DEF TriggerInv, ComparesSample
<1>3. drv_state # "DRV_ADJUST"
  BY <1>1 DEF TriggerInv, NotSeenYet
<1> QED BY <1>1, <1>2, <1>3 DEF AtOutput, TriggerInv, FirstHit

(* dds_rx_path.vhd:354: the CIC filter is reset with the first sample that *)
(* is applied and with no other. *)
THEOREM ResetsWithFirst ==
  ASSUME Paced, SwitchedOnce, NoWrap
  PROVE  Spec => []CicResetWithFirst
<1>1. TypeInv /\ SampleInv /\ [Next]_vars => SampleInv'
  BY SampleStep
<1>2. TypeInv /\ SampleInv /\ TriggerInv /\ [Next]_vars => TriggerInv'
  BY TriggerStep
<1>3. Init => TriggerInv
  BY PipesInit DEF TriggerInv
<1> QED BY <1>1, <1>2, <1>3, TypeInit, TypeStep, SampleInit, ResetIsFirst,
           PTL DEF Spec

-----------------------------------------------------------------------------
(* Every sample gets there in time.  From the sample to p_drive_fsm it     *)
(* takes less than the delay, with every stall and every block of another  *)
(* master in the way.  A block of four words takes eight cycles to come    *)
(* in. *)
Deliverable ==
  /\ MaxTransport >= 8
  /\ \A n \in SyncEdges :
       2 * n + 2 * MaxStall + MaxTransport + 8 * MaxForeign + FifoLatency + 19
         <= Delay

(* The FIFO has room for the samples of the delay. *)
Roomy == FifoSize * Period >= Delay

(* How long after it was taken a sample is in the network, has come in and *)
(* is visible in the FIFO, at most. *)
Visible == Delay - 5
Arrives == Visible - FifoLatency - 1
Leaves  == Arrives - MaxTransport - 8 * MaxForeign

(* When the last sample was taken; what of it is under way to p_tx_fsm and *)
(* in it; and the time of the next block that goes out, at least.          *)
Sampled  == next_ce - Period + 1
Crosses  == new_sample \/ crossing > 0 \/ new_sample_sys
Pending  == tune_valid \/ Crosses \/ tx_state = "TX_TIMESTAMP"
Busy     == tx_valid \/ tx_state \in {"TX_ACC", "TX_TUNE", "TX_PAD"}
BusyTime == TimeOf(Sent[1].stamp)
NextTime == IF Busy THEN BusyTime
            ELSE IF Pending THEN Sampled ELSE Sampled + Period

(* snap is needed until the last word with its time is out. *)
SnapUsed == Crosses \/ tx_state \in {"TX_TIMESTAMP", "TX_ACC", "TX_TUNE"}

MasterOrder ==
  /\ SnapUsed => TimeOf(snap) = Sampled
  /\ crossing > 0 => ~new_sample_sys
  /\ tx_state = "TX_TIMESTAMP" => ~Crosses
  /\ Busy => \/ BusyTime = Sampled /\ ~Pending
             \/ BusyTime + Period <= Sampled

(* The next system edge of the master. *)
TxEdge == now + (now % 2)

MasterDue ==
  /\ crossing > 0 =>
       TxEdge + 2 * crossing + 2 * MaxStall + 10 <= Sampled + Leaves
  /\ new_sample_sys => TxEdge + 2 * MaxStall + 10 <= Sampled + Leaves
  /\ tx_state = "TX_TIMESTAMP" => TxEdge + Stalling + 8 <= Sampled + Leaves
  /\ tx_state = "TX_ACC" => TxEdge + Stalling + 6 <= BusyTime + Leaves
  /\ tx_state = "TX_TUNE" => TxEdge + Stalling + 4 <= BusyTime + Leaves
  /\ tx_state = "TX_PAD" => TxEdge + Stalling + 2 <= BusyTime + Leaves
  /\ tx_valid /\ tx_last => TxEdge <= BusyTime + Leaves

(* The blocks in the network that are for the slave, and when they were    *)
(* taken. *)
Own     == {i \in DOMAIN air : air[i].words[3].clk_id = SlaveId}
AirTime == [i \in DOMAIN air |-> TimeOf(air[i].words[1].stamp)]

AirOrder ==
  /\ \A i \in Own : AirTime[i] + Period <= NextTime
  /\ \A i, j \in Own : i < j => AirTime[i] + Period <= AirTime[j]

(* The next system edge of the slave, and that in which it gets the last   *)
(* word of the first block if it gets one in each from now on.             *)
RxEdge == now + ((now + slave_phase) % 2)
Last   == RxEdge + 6 - 2 * position

(* A block has come in by the latest of these edges: no word of it waits   *)
(* but for the words before it, or until it is due.                        *)
Ends == [i \in DOMAIN air |->
           {Last + 8 * (i - 1)}
             \cup {air[j].due + 8 * (i - j) : j \in 1 .. i}]

(* All have come in by then if no other comes from another master: by the  *)
(* time the master has sent a block the slave could have got one more.     *)
Passed  == CASE tx_state = "TX_ACC" -> 2 [] tx_state = "TX_TUNE" -> 4
             [] tx_state = "TX_PAD" -> 6
             [] tx_state = "WAIT_SAMPLE" /\ tx_valid -> 8
             [] OTHER -> 0
Backlog == TxEdge - Passed + MaxTransport + 8 * foreign

Bounded == slave_phase \in {0, 1} /\ foreign \in 0 .. MaxForeign

AirDue ==
  /\ \A i \in DOMAIN air : \A e \in Ends[i] : e <= Backlog
  /\ \A i \in Own : \A e \in Ends[i] : e <= AirTime[i] + Arrives

(* The times of what the slave has and of what may still come. *)
Unread   == {i \in Own : i > 1 \/ position <= 2}
Upcoming == {AirTime[i] : i \in Unread} \cup {NextTime}
SysTime  == TimeOf(sample_sys.timestamp.stamp)
FifoTime == [i \in DOMAIN fifo |-> TimeOf(fifo[i].sample.timestamp.stamp)]
OutTime  == TimeOf(fifo_out.timestamp.stamp)

SlaveOrder ==
  /\ new_sample_sys_rx => \A c \in Upcoming : SysTime + Period <= c
  /\ \A i \in DOMAIN fifo :
       /\ \A c \in Upcoming : FifoTime[i] + Period <= c
       /\ new_sample_sys_rx => FifoTime[i] + Period <= SysTime
       /\ \A j \in DOMAIN fifo :
            i < j => FifoTime[i] + (j - i) * Period <= FifoTime[j]
  /\ AtOutput =>
       /\ \A c \in Upcoming : OutTime + Period <= c
       /\ new_sample_sys_rx => OutTime + Period <= SysTime
       /\ \A i \in DOMAIN fifo : OutTime + Period <= FifoTime[i]

(* Slave mode has reached p_drive_fsm when the first sample comes. *)
Settled ==
  /\ cr_slave_o /\ RxSys => slave_sync[1]
  /\ rx_state # "RX_WAIT_SAMPLE" \/ new_sample_sys_rx \/ fifo # <<>>
       => slave_sync[2]

SlaveDue ==
  /\ new_sample_sys_rx => RxEdge <= SysTime + Arrives
  /\ \A i \in DOMAIN fifo :
       fifo[i].wait > 0 => now + fifo[i].wait <= FifoTime[i] + Visible
  /\ drv_state = "DRV_WAIT_SAMPLE" /\ ~fifo_empty =>
       now <= FifoTime[1] + Visible
  /\ drv_state = "DRV_READ_SAMPLE" => now <= FifoTime[1] + Visible + 1

(* The sample at the output goes through the pipelines before its time.    *)
Filled ==
  AtOutput =>
    /\ \A stage \in Stages : Adder[stage] = Due \/ now <= Due - 4 + stage
    /\ now <= Due + 3
    /\ now = Due + 2 => Equal(compare.fields)
    /\ now = Due + 3 => compare.equal
    /\ drv_state = "DRV_ADJUST" =>
         /\ now <= Due - 1
         /\ ~compare.done => now <= Due - 2
         /\ ~compare.done /\ ~compare.stage1 => now <= Due - 3

(* p_rx_fsm has counted what is in the FIFO, at its output or applied.     *)
Counted ==
  /\ (hit_cnt + Len(fifo) + One(AtOutput) + One(new_sample_sys_rx))
       % CounterSize = rx_cnt
  /\ ~slave_sync[2] => hit_cnt = 0 /\ rx_cnt = 0

-----------------------------------------------------------------------------
(* The clocks. *)
LEMMA EdgesMove ==
  ASSUME TypeInv, Bounded, NEW tx_dreq \in BOOLEAN, NEW slave \in BOOLEAN,
         NEW get \in BOOLEAN, Step(tx_dreq, slave, get),
         slave_phase' = slave_phase
  PROVE  /\ now \in Nat /\ now' = now + 1
         /\ TxSys => TxEdge = now /\ TxEdge' = now + 2
         /\ ~TxSys => TxEdge = now + 1 /\ TxEdge' = now + 1
         /\ RxSys => RxEdge = now /\ RxEdge' = now + 2
         /\ ~RxSys => RxEdge = now + 1 /\ RxEdge' = now + 1
         /\ RxSys' <=> ~RxSys
<1>1. now \in Nat /\ now' = now + 1 /\ slave_phase \in {0, 1}
  BY DEF Step, TypeInv, TimeTyped, Bounded
<1>2. /\ now % 2 = 0 => (now + 1) % 2 = 1
      /\ now % 2 # 0 => now % 2 = 1 /\ (now + 1) % 2 = 0
  BY <1>1
<1>3. /\ TxSys => TxEdge = now /\ TxEdge' = now + 2
      /\ ~TxSys => TxEdge = now + 1 /\ TxEdge' = now + 1
  BY <1>1, <1>2 DEF TxSys, TxEdge
<1>4. CASE slave_phase = 0
  <2>1. RxEdge = now + (now % 2) /\ RxEdge' = now' + (now' % 2)
    BY <1>1, <1>4 DEF RxEdge
  <2> QED BY <1>1, <1>2, <1>3, <1>4, <2>1 DEF RxSys
<1>5. CASE slave_phase = 1
  <2>1. RxEdge = now + ((now + 1) % 2) /\ RxEdge' = now' + ((now' + 1) % 2)
    BY <1>1, <1>5 DEF RxEdge
  <2>2. now % 2 = 0 => (now + 1 + 1) % 2 = 0
    BY <1>1
  <2>3. now % 2 # 0 => (now + 1 + 1) % 2 = 1
    BY <1>1
  <2> QED BY <1>1, <1>2, <1>3, <1>5, <2>1, <2>2, <2>3 DEF RxSys
<1> QED BY <1>1, <1>3, <1>4, <1>5

(* What Paced and Deliverable come to. *)
LEMMA Margins ==
  ASSUME Paced, Deliverable
  PROVE  /\ Period \in Nat /\ Period >= 12
         /\ MaxTransport \in Nat /\ MaxTransport >= 8
         /\ MaxForeign \in Nat /\ MaxStall \in Nat /\ FifoLatency \in Nat
         /\ Delay \in Nat /\ Leaves \in Nat /\ Arrives \in Nat
         /\ Visible \in Nat
         /\ Visible = Delay - 5 /\ Arrives = Visible - FifoLatency - 1
         /\ Leaves = Arrives - MaxTransport - 8 * MaxForeign
         /\ \A n \in SyncEdges : n \in Nat /\ n >= 1
                                 /\ 2 * n + 2 * MaxStall + 13 <= Leaves
<1>1. /\ Period \in Nat /\ MaxTransport \in Nat /\ MaxForeign \in Nat
      /\ MaxStall \in Nat /\ FifoLatency \in Nat /\ Delay \in Nat
      /\ MaxTransport >= 8
      /\ \A n \in SyncEdges : n \in Nat /\ n >= 1
  BY Assumed DEF Deliverable
<1>2. PICK n \in SyncEdges : TRUE
  BY Assumed
<1>3. /\ 2 * n + 2 * MaxStall + 10 <= Period
      /\ 2 * n + 2 * MaxStall + MaxTransport + 8 * MaxForeign + FifoLatency
           + 19 <= Delay
  BY DEF Paced, Deliverable
<1>4. ASSUME NEW k \in SyncEdges
      PROVE  2 * k + 2 * MaxStall + 13 <= Leaves
  <2>1. k \in Nat
           /\ 2 * k + 2 * MaxStall + MaxTransport + 8 * MaxForeign
                + FifoLatency + 19 <= Delay
    BY <1>1 DEF Deliverable
  <2> QED BY <1>1, <2>1 DEF Leaves, Arrives, Visible
<1> QED BY <1>1, <1>2, <1>3, <1>4 DEF Leaves, Arrives, Visible

-----------------------------------------------------------------------------
(* The master.  What moves when: the time of the last sample, and what is  *)
(* left of it on the way. *)
LEMMA SampledMoves ==
  ASSUME TypeInv, Pacing, Paced, Deliverable, NEW tx_dreq \in BOOLEAN,
         NEW slave \in BOOLEAN, NEW get \in BOOLEAN, Step(tx_dreq, slave, get)
  PROVE  /\ now \in Nat /\ Sampled \in Int /\ Sampled' \in Int
         /\ Sampled' = IF now = next_ce THEN Sampled + Period ELSE Sampled
         /\ tune_valid' <=> now = next_ce
         /\ tune_valid => Sampled = now
         /\ new_sample => Sampled = now - 1
         /\ SnapUsed => ~tune_valid
         /\ SnapUsed' => now # next_ce
         /\ tx_state = "TX_TIMESTAMP" => now # next_ce
         /\ crossing > 0 \/ new_sample_sys
              \/ tx_state \in {"TX_TIMESTAMP", "TX_ACC", "TX_TUNE"}
              => ~new_sample
<1>1. /\ now \in Nat /\ next_ce \in Nat /\ now' = now + 1
      /\ next_ce' = IF now = next_ce THEN next_ce + Period ELSE next_ce
      /\ tune_valid' = (now = next_ce)
      /\ Period \in Nat /\ Period >= 12
  BY Margins DEF Step, TypeInv, TimeTyped, Master, TakeTags
<1>2. /\ Since \in Int /\ Sampled \in Int /\ Sampled = now - Since + 1
      /\ Sampled' \in Int
      /\ Sampled' = IF now = next_ce THEN Sampled + Period ELSE Sampled
      /\ now = next_ce => Since = Period /\ Since' = 1
  BY <1>1 DEF Sampled, Since
<1>3. tune_valid => Since = 1
  BY DEF Pacing
<1>4. new_sample => Since = 2
  BY DEF Pacing
<1>5. crossing > 0 \/ new_sample_sys
        \/ tx_state \in {"TX_TIMESTAMP", "TX_ACC", "TX_TUNE"} => Since >= 3
  BY DEF Pacing, Takes
<1>6. Pacing'
  BY PacingStep
<1>7. SnapUsed' => Since' >= 2
  <2>1. /\ new_sample' => Since' = 2
        /\ crossing' > 0 => Since' >= 3
        /\ new_sample_sys' => Since' >= 3
        /\ tx_state' \in {"TX_TIMESTAMP", "TX_ACC", "TX_TUNE"} => Since' >= 3
    BY <1>6 DEF Pacing, Takes
  <2>2. Since' \in Int
    BY <1>1 DEF Since
  <2> QED BY <2>1, <2>2 DEF SnapUsed, Crosses
<1>8. tx_state = "TX_TIMESTAMP" => now # next_ce
  <2> SUFFICES ASSUME tx_state = "TX_TIMESTAMP", now = next_ce PROVE FALSE
    OBVIOUS
  <2>1. Stalling + 4 <= Left
    BY DEF Pacing, Takes
  <2>2. Stalling \in Nat
    <3>1. stalls \in 0 .. MaxStall /\ MaxStall \in Nat
      BY Margins DEF TypeInv, TimeTyped
    <3> QED BY <3>1 DEF Stalling
  <2>3. Left <= 0
    <3>1. now % 2 \in {0, 1}
      BY <1>1
    <3> QED BY <1>1, <1>2, <3>1 DEF Left
  <2>4. Left \in Int
    BY <1>1, <1>2 DEF Left
  <2> QED BY <2>1, <2>2, <2>3, <2>4
<1>9. SnapUsed => ~tune_valid
  <2>1. SnapUsed => Since >= 2
    BY <1>2, <1>4, <1>5 DEF SnapUsed, Crosses
  <2> QED BY <1>3, <2>1
<1>10. /\ tune_valid => Sampled = now
       /\ new_sample => Sampled = now - 1
  BY <1>1, <1>2, <1>3, <1>4
<1>11. crossing > 0 \/ new_sample_sys
         \/ tx_state \in {"TX_TIMESTAMP", "TX_ACC", "TX_TUNE"} => ~new_sample
  BY <1>4, <1>5
<1>12. SnapUsed' => now # next_ce
  BY <1>2, <1>7
<1> QED BY <1>1, <1>2, <1>8, <1>9, <1>10, <1>11, <1>12

(* What p_tx_fsm and the synchronizer do in a step. *)
LEMMA TxMoves ==
  ASSUME TypeInv, BlockUnderWay, NEW tx_dreq \in BOOLEAN,
         NEW slave \in BOOLEAN, NEW get \in BOOLEAN, Step(tx_dreq, slave, get)
  PROVE  /\ new_sample' <=> tune_valid
         /\ snap' = IF tune_valid THEN StampOf(now) ELSE snap
         /\ ~TxSys => /\ new_sample_sys' = new_sample_sys
                      /\ tx_state' = tx_state /\ tx_valid' = tx_valid
                      /\ tx_last' = tx_last /\ tx_data' = tx_data
                      /\ sending' = sending
         /\ TxSys => /\ new_sample_sys' <=> crossing = 1
                     /\ \/ TxOff /\ tx_state = "WAIT_SAMPLE" /\ ~tx_valid
                        \/ WaitSample \/ TxTimestamp(tx_dreq)
                        \/ TxAcc(tx_dreq) \/ TxTune(tx_dreq)
                        \/ TxPad(tx_dreq)
         /\ crossing \in Nat /\ crossing' \in Nat
         /\ crossing > 0 =>
              crossing' = IF TxSys THEN crossing - 1 ELSE crossing
         /\ ~(crossing > 0) /\ new_sample => crossing' \in SyncEdges
         /\ ~(crossing > 0) /\ ~new_sample => crossing' = 0
<1>1. /\ TakeTags(StampOf(now), TRUE, now = next_ce)
      /\ Crossing(TxSys)
      /\ IF TxSys THEN TxSysEdge(now >= MasterOn, tx_dreq)
         ELSE UNCHANGED txSysVars
      /\ sending' = IF ~(TxSys /\ tx_valid) THEN sending
                    ELSE IF tx_last THEN <<>> ELSE Append(sending, tx_data)
  BY DEF Step, Master, Channel
<1>2. crossing \in Nat /\ crossing' \in Nat
  <2>1. \A c : c \in {0} \cup UNION {1 .. n : n \in SyncEdges} => c \in Nat
    BY Assumed
  <2>2. TagsTyped /\ TagsTyped'
    BY TagsStep DEF TypeInv
  <2> QED BY <2>1, <2>2 DEF TagsTyped
<1>3. TxSys =>
        \/ TxOff /\ tx_state = "WAIT_SAMPLE" /\ ~tx_valid
        \/ WaitSample \/ TxTimestamp(tx_dreq)
        \/ TxAcc(tx_dreq) \/ TxTune(tx_dreq)
        \/ TxPad(tx_dreq)
  <2>1. now \in Nat /\ MasterOn \in Nat
    BY Assumed DEF TypeInv, TimeTyped
  <2>2. ~(now >= MasterOn) => tx_state = "WAIT_SAMPLE" /\ ~tx_valid
    BY <2>1 DEF BlockUnderWay
  <2> QED BY <1>1, <2>2 DEF TxSysEdge, TxFsm
<1>4. TxSys => (new_sample_sys' <=> crossing = 1)
  BY <1>1 DEF TxSysEdge
<1>5. ~TxSys => /\ new_sample_sys' = new_sample_sys
                /\ tx_state' = tx_state /\ tx_valid' = tx_valid
                /\ tx_last' = tx_last /\ tx_data' = tx_data
                /\ sending' = sending
  BY <1>1 DEF txSysVars
<1>6. /\ crossing > 0 => crossing' = IF TxSys THEN crossing - 1 ELSE crossing
      /\ ~(crossing > 0) /\ new_sample => crossing' \in SyncEdges
      /\ ~(crossing > 0) /\ ~new_sample => crossing' = 0
  BY <1>1, <1>2 DEF Crossing
<1>7. /\ new_sample' <=> tune_valid
      /\ snap' = IF tune_valid THEN StampOf(now) ELSE snap
  BY <1>1 DEF TakeTags
<1> QED BY <1>2, <1>3, <1>4, <1>5, <1>6, <1>7

LEMMA FirstOfAppended ==
  ASSUME NEW S, NEW q \in Seq(S), q # <<>>, NEW x
  PROVE  Append(q, x)[1] = q[1]
<1>1. q \in Seq(S \cup {x}) /\ x \in S \cup {x} /\ Len(q) >= 1
  BY SeqGrows
<1> QED BY <1>1

(* The block that goes out: from the first word to the last it is one      *)
(* sample's. *)
LEMMA BusyMoves ==
  ASSUME TypeInv, Pacing, Paced, Deliverable, BlockUnderWay,
         NEW tx_dreq \in BOOLEAN, NEW slave \in BOOLEAN,
         NEW get \in BOOLEAN, Step(tx_dreq, slave, get)
  PROVE  /\ Busy => BusyTime \in Nat /\ Sent \in Seq(Known) /\ Sent # <<>>
         /\ tx_state = "TX_TIMESTAMP" => ~Busy
         /\ Busy /\ Busy' => BusyTime' = BusyTime
         /\ ~Busy /\ Busy' => /\ TxSys /\ tx_state = "TX_TIMESTAMP"
                              /\ tx_state' = "TX_ACC" /\ tx_dreq
                              /\ BusyTime' = TimeOf(snap)
         /\ Busy /\ ~Busy' => TxSys /\ tx_valid /\ tx_last
         /\ TxSys /\ tx_valid /\ tx_last => tx_state = "WAIT_SAMPLE" /\ ~Busy'
<1> DEFINE K == Known
<1>1. Sent \in Seq(K)
  <2>1. sending \in Seq(K) /\ tx_data \in K
    BY DEF TypeInv, ChannelTyped, TxTyped
  <2> HIDE DEF K
  <2> QED BY <2>1 DEF Sent
<1>2. Busy => Sent # <<>>
  <2>1. CASE tx_valid
    <3>1. sending \in Seq(K) /\ tx_data \in K
      BY DEF TypeInv, ChannelTyped, TxTyped
    <3> HIDE DEF K
    <3>2. Append(sending, tx_data) # <<>>
      BY <3>1
    <3> QED BY <2>1, <3>2 DEF Sent
  <2>2. CASE tx_state \in {"TX_ACC", "TX_TUNE", "TX_PAD"}
    <3>1. \A a, b, c : <<a>> # <<>> /\ <<a, b>> # <<>> /\ <<a, b, c>> # <<>>
      OBVIOUS
    <3> QED BY <2>2, <3>1 DEF BlockUnderWay
  <2> QED BY <2>1, <2>2 DEF Busy
<1>3. Busy => BusyTime \in Nat
  <2> SUFFICES ASSUME Busy PROVE BusyTime \in Nat
    OBVIOUS
  <2>1. Sent[1] \in K
    <3> HIDE DEF K
    <3> QED BY <1>1, <1>2
  <2>2. Sent[1].stamp \in Normal
    BY <2>1 DEF Known, Words
  <2> QED BY <2>2, TimeIsNat DEF BusyTime
<1>4. /\ tx_valid => (tx_last <=> tx_state = "WAIT_SAMPLE")
      /\ tx_state = "TX_TIMESTAMP" => ~tx_valid
  BY DEF BlockUnderWay
<1>5. /\ TxSys /\ tx_valid /\ tx_last => sending' = <<>>
      /\ TxSys /\ ~(tx_valid /\ tx_last) => sending' = Sent
      /\ ~TxSys => sending' = sending
  BY DEF Step, Channel, Sent
<1>6. Sent' = IF tx_valid' THEN Append(sending', tx_data') ELSE sending'
  BY DEF Sent
<1>7. CASE ~TxSys
  <2>1. Sent' = Sent /\ (Busy' <=> Busy)
    BY <1>5, <1>6, <1>7, TxMoves DEF Sent, Busy
  <2>2. BusyTime' = BusyTime
    BY <2>1 DEF BusyTime
  <2> QED BY <1>1, <1>2, <1>3, <1>4, <1>7, <2>1, <2>2 DEF K, Busy
<1>8. CASE TxSys /\ tx_valid /\ tx_last
  <2>1. tx_state = "WAIT_SAMPLE"
    BY <1>4, <1>8
  <2>2. WaitSample
    BY <1>8, <2>1, TxMoves DEF TxTimestamp, TxAcc, TxTune, TxPad
  <2>3. ~Busy' /\ Busy
    BY <1>8, <2>1, <2>2 DEF WaitSample, Busy
  <2> QED BY <1>1, <1>2, <1>3, <1>8, <2>1, <2>3 DEF K
<1>9. CASE TxSys /\ ~(tx_valid /\ tx_last)
  <2>1. Sent' = IF tx_valid' THEN Append(Sent, tx_data') ELSE Sent
    BY <1>5, <1>6, <1>9
  <2>2. Busy => Sent'[1] = Sent[1]
    <3> HIDE DEF K
    <3> QED BY <1>1, <1>2, <2>1, FirstOfAppended
  <2>3. Busy => BusyTime' = BusyTime
    BY <2>2 DEF BusyTime
  <2>4. Busy => Busy'
    <3> SUFFICES ASSUME Busy PROVE Busy'
      OBVIOUS
    <3>1. tx_state \in {"TX_ACC", "TX_TUNE", "TX_PAD"}
      BY <1>4, <1>9 DEF Busy, TypeInv, TxTyped, TxPathStates
    <3>2. TxAcc(tx_dreq) \/ TxTune(tx_dreq) \/ TxPad(tx_dreq)
      BY <1>9, <3>1, TxMoves DEF WaitSample, TxTimestamp
    <3> QED BY <3>1, <3>2 DEF TxAcc, TxTune, TxPad, SendWord, Busy
  <2>5. ASSUME ~Busy, Busy'
        PROVE  /\ tx_state = "TX_TIMESTAMP" /\ tx_state' = "TX_ACC" /\ tx_dreq
               /\ BusyTime' = TimeOf(snap)
    <3>1. tx_state = "TX_TIMESTAMP" /\ tx_state' = "TX_ACC" /\ tx_dreq
      BY <1>9, <2>5, TxMoves
      DEF Busy, TxOff, WaitSample, TxTimestamp, TxAcc, TxTune, TxPad, SendWord
    <3>2. snap' = snap
      <4>1. ~tune_valid
        BY <3>1, SampledMoves DEF SnapUsed
      <4> QED BY <4>1, TxMoves
    <3>3. Sent' = <<TimeWord(snap')>>
      <4>1. BlockUnderWay'
        BY BlockStep
      <4> QED BY <3>1, <4>1 DEF BlockUnderWay, TimeWord
    <3>4. Sent'[1].stamp = snap
      BY <3>2, <3>3 DEF TimeWord, Word
    <3> QED BY <3>1, <3>4 DEF BusyTime
  <2>6. tx_state = "TX_TIMESTAMP" => ~Busy
    BY <1>4 DEF Busy
  <2> QED BY <1>1, <1>2, <1>3, <1>9, <2>3, <2>4, <2>5, <2>6 DEF K
<1> QED BY <1>7, <1>8, <1>9

(* A sample is pending from when it is taken until its block goes out.     *)
LEMMA PendingMoves ==
  ASSUME TypeInv, Pacing, Paced, Deliverable, BlockUnderWay,
         NEW tx_dreq \in BOOLEAN, NEW slave \in BOOLEAN,
         NEW get \in BOOLEAN, Step(tx_dreq, slave, get)
  PROVE  /\ Pending' => Pending \/ now = next_ce
         /\ SnapUsed' => SnapUsed \/ tune_valid
<1>1. /\ new_sample' => tune_valid
      /\ crossing' > 0 => crossing > 0 \/ new_sample
      /\ tune_valid' => now = next_ce
  BY TxMoves, SampledMoves
<1>2. new_sample_sys' => crossing > 0 \/ new_sample_sys
  <2>1. CASE TxSys
    <3>1. crossing = 1 => crossing > 0
      OBVIOUS
    <3> QED BY <2>1, <3>1, TxMoves
  <2>2. CASE ~TxSys
    BY <2>2, TxMoves
  <2> QED BY <2>1, <2>2
<1>3. /\ tx_state' = "TX_TIMESTAMP" =>
           tx_state = "TX_TIMESTAMP" \/ new_sample_sys
      /\ tx_state' \in {"TX_ACC", "TX_TUNE"} =>
           tx_state \in {"TX_TIMESTAMP", "TX_ACC", "TX_TUNE"}
  <2>1. CASE TxSys
    BY <2>1, TxMoves
    DEF TxOff, WaitSample, TxTimestamp, TxAcc, TxTune, TxPad, SendWord
  <2>2. CASE ~TxSys
    BY <2>2, TxMoves
  <2> QED BY <2>1, <2>2
<1>4. Pending' => Pending \/ now = next_ce
  BY <1>1, <1>2, <1>3 DEF Pending, Crosses
<1>5. SnapUsed' => SnapUsed \/ tune_valid
  BY <1>1, <1>2, <1>3 DEF SnapUsed, Crosses
<1> QED BY <1>4, <1>5

LEMMA MasterOrderStep ==
  ASSUME TypeInv, Pacing, Paced, Deliverable, NoWrap, BlockUnderWay,
         MasterOrder, NEW tx_dreq \in BOOLEAN, NEW slave \in BOOLEAN,
         NEW get \in BOOLEAN, Step(tx_dreq, slave, get)
  PROVE  MasterOrder'
<1>1. /\ Period \in Nat /\ Sampled \in Int /\ now \in Nat
      /\ Sampled' = IF now = next_ce THEN Sampled + Period ELSE Sampled
  BY Margins, SampledMoves
<1>2. SnapUsed' => TimeOf(snap') = Sampled'
  <2> SUFFICES ASSUME SnapUsed' PROVE TimeOf(snap') = Sampled'
    OBVIOUS
  <2>1. Sampled' = Sampled
    BY <1>1, SampledMoves
  <2>2. CASE tune_valid
    <3>1. snap' = StampOf(now) /\ Sampled = now
      BY <2>2, TxMoves, SampledMoves
    <3>2. TimeOf(StampOf(now)) = now
      <4> DEFINE W == TaiSize * Rate
      <4>1. W \in Nat /\ EndOfTime + Delay <= W /\ now < EndOfTime
        BY Assumed DEF NoWrap, Step
      <4> HIDE DEF W
      <4>2. now < W
        BY <1>1, <4>1, Assumed
      <4> QED BY <1>1, <4>2, TimeOfStamp DEF W
    <3> QED BY <2>1, <3>1, <3>2
  <2>3. CASE ~tune_valid
    <3>1. SnapUsed /\ snap' = snap
      BY <2>3, TxMoves, PendingMoves
    <3> QED BY <2>1, <3>1 DEF MasterOrder
  <2> QED BY <2>2, <2>3
<1>3. crossing' > 0 => ~new_sample_sys'
  <2> SUFFICES ASSUME crossing' > 0 PROVE ~new_sample_sys'
    OBVIOUS
  <2>1. CASE crossing > 0
    BY <2>1, TxMoves DEF MasterOrder
  <2>2. CASE ~(crossing > 0)
    <3>1. new_sample /\ ~new_sample_sys
      BY <2>2, TxMoves, SampledMoves
    <3> QED BY <2>2, <3>1, TxMoves
  <2> QED BY <2>1, <2>2
<1>4. tx_state' = "TX_TIMESTAMP" => ~Crosses'
  <2> SUFFICES ASSUME tx_state' = "TX_TIMESTAMP" PROVE ~Crosses'
    OBVIOUS
  <2>1. tx_state = "TX_TIMESTAMP" \/ (new_sample_sys /\ TxSys)
    <3>1. CASE TxSys
      BY <3>1, TxMoves
      DEF TxOff, WaitSample, TxTimestamp, TxAcc, TxTune, TxPad, SendWord
    <3>2. CASE ~TxSys
      BY <3>2, TxMoves
    <3> QED BY <3>1, <3>2
  <2>2. ~(crossing > 0) /\ ~new_sample
    BY <2>1, SampledMoves DEF MasterOrder, Crosses
  <2>3. ~tune_valid
    BY <2>1, SampledMoves DEF SnapUsed, Crosses
  <2>4. crossing' = 0 /\ ~new_sample'
    BY <2>2, <2>3, TxMoves
  <2>5. ~new_sample_sys'
    <3>1. CASE TxSys
      <4>1. crossing # 1
        BY <2>2, TxMoves
      <4> QED BY <3>1, <4>1, TxMoves
    <3>2. CASE ~TxSys
      BY <2>1, <3>2, TxMoves DEF MasterOrder, Crosses
    <3> QED BY <3>1, <3>2
  <2> QED BY <2>4, <2>5 DEF Crosses
<1>5. Busy' => \/ BusyTime' = Sampled' /\ ~Pending'
               \/ BusyTime' + Period <= Sampled'
  <2> SUFFICES ASSUME Busy'
               PROVE  \/ BusyTime' = Sampled' /\ ~Pending'
                      \/ BusyTime' + Period <= Sampled'
    OBVIOUS
  <2>1. CASE Busy
    <3>1. BusyTime' = BusyTime /\ BusyTime \in Nat
      BY <2>1, BusyMoves
    <3>2. \/ BusyTime = Sampled /\ ~Pending
          \/ BusyTime + Period <= Sampled
      BY <2>1 DEF MasterOrder
    <3>3. CASE now = next_ce
      BY <1>1, <3>1, <3>2, <3>3
    <3>4. CASE now # next_ce
      BY <1>1, <3>1, <3>2, <3>4, PendingMoves
    <3> QED BY <3>3, <3>4
  <2>2. CASE ~Busy
    <3>1. /\ TxSys /\ tx_state = "TX_TIMESTAMP" /\ tx_state' = "TX_ACC"
          /\ BusyTime' = TimeOf(snap)
      BY <2>2, BusyMoves
    <3>2. TimeOf(snap) = Sampled /\ ~Crosses
      BY <3>1 DEF MasterOrder, SnapUsed
    <3>3. Sampled' = Sampled /\ ~tune_valid'
      BY <1>1, <3>1, SampledMoves
    <3>4. ~tune_valid
      BY <3>1, SampledMoves DEF SnapUsed
    <3>5. crossing' = 0 /\ ~new_sample' /\ ~new_sample_sys'
      <4>1. crossing = 0 /\ ~new_sample
        BY <3>2, TxMoves DEF Crosses
      <4> QED BY <3>1, <3>4, <4>1, TxMoves
    <3>6. ~Pending'
      BY <3>1, <3>3, <3>5 DEF Pending, Crosses
    <3> QED BY <3>1, <3>2, <3>3, <3>6
  <2> QED BY <2>1, <2>2
<1> QED BY <1>2, <1>3, <1>4, <1>5 DEF MasterOrder

(* The time of the next block only grows, and by a period with a block.    *)
LEMMA NextTimeMoves ==
  ASSUME TypeInv, Pacing, Paced, Deliverable, BlockUnderWay, MasterOrder,
         NEW tx_dreq \in BOOLEAN, NEW slave \in BOOLEAN,
         NEW get \in BOOLEAN, Step(tx_dreq, slave, get)
  PROVE  /\ NextTime \in Int /\ NextTime' \in Int /\ NextTime <= NextTime'
         /\ TxSys /\ tx_valid /\ tx_last =>
              BusyTime = NextTime /\ BusyTime + Period <= NextTime'
<1>1. /\ Period \in Nat /\ Sampled \in Int /\ Sampled' \in Int
      /\ Sampled' = IF now = next_ce THEN Sampled + Period ELSE Sampled
      /\ Pending' => Pending \/ now = next_ce
  BY Margins, SampledMoves, PendingMoves
<1>2. Busy => /\ BusyTime \in Nat /\ NextTime = BusyTime
              /\ \/ BusyTime = Sampled /\ ~Pending
                 \/ BusyTime + Period <= Sampled
  BY BusyMoves DEF MasterOrder, NextTime
<1>3. CASE Busy /\ Busy'
  <2>1. NextTime' = BusyTime
    BY <1>3, BusyMoves DEF NextTime
  <2>2. ~(TxSys /\ tx_valid /\ tx_last)
    BY <1>3, BusyMoves
  <2> QED BY <1>2, <1>3, <2>1, <2>2
<1>4. CASE Busy /\ ~Busy'
  <2>1. NextTime' = IF Pending' THEN Sampled' ELSE Sampled' + Period
    BY <1>4 DEF NextTime
  <2>2. BusyTime + Period <= NextTime' /\ NextTime' \in Int
    <3>1. CASE now = next_ce
      BY <1>1, <1>2, <1>4, <2>1, <3>1
    <3>2. CASE now # next_ce
      BY <1>1, <1>2, <1>4, <2>1, <3>2
    <3> QED BY <3>1, <3>2
  <2> QED BY <1>1, <1>2, <1>4, <2>2
<1>5. CASE ~Busy /\ Busy'
  <2>1. tx_state = "TX_TIMESTAMP" /\ BusyTime' = TimeOf(snap)
    BY <1>5, BusyMoves
  <2>2. TimeOf(snap) = Sampled
    BY <2>1 DEF MasterOrder, SnapUsed
  <2>3. NextTime = Sampled /\ NextTime' = Sampled
    BY <1>5, <2>1, <2>2 DEF NextTime, Pending
  <2>4. ~(TxSys /\ tx_valid /\ tx_last)
    BY <1>5 DEF Busy
  <2> QED BY <1>1, <2>3, <2>4
<1>6. CASE ~Busy /\ ~Busy'
  <2>1. /\ NextTime = IF Pending THEN Sampled ELSE Sampled + Period
        /\ NextTime' = IF Pending' THEN Sampled' ELSE Sampled' + Period
    BY <1>6 DEF NextTime
  <2>2. ~(TxSys /\ tx_valid /\ tx_last)
    BY <1>6 DEF Busy
  <2>3. NextTime \in Int /\ NextTime' \in Int /\ NextTime <= NextTime'
    <3>1. CASE now = next_ce
      BY <1>1, <2>1, <3>1
    <3>2. CASE now # next_ce
      BY <1>1, <2>1, <3>2
    <3> QED BY <3>1, <3>2
  <2> QED BY <2>2, <2>3
<1> QED BY <1>3, <1>4, <1>5, <1>6

(* What the stalls still to come may take. *)
LEMMA StallsMove ==
  ASSUME TypeInv, Paced, Deliverable, NEW tx_dreq \in BOOLEAN,
         NEW slave \in BOOLEAN, NEW get \in BOOLEAN, Step(tx_dreq, slave, get)
  PROVE  /\ Stalling \in Nat /\ Stalling' \in Nat
         /\ tx_state = "WAIT_SAMPLE" => Stalling' = 2 * MaxStall
         /\ tx_state # "WAIT_SAMPLE" =>
              Stalling' = IF tx_dreq THEN Stalling ELSE Stalling - 2
         /\ ~TxSys => tx_dreq
<1>1. /\ stalls \in 0 .. MaxStall /\ MaxStall \in Nat
      /\ MayStall(tx_dreq)
      /\ stalls' = IF tx_state = "WAIT_SAMPLE" THEN 0
                   ELSE IF tx_dreq THEN stalls ELSE stalls + 1
  BY Margins DEF Step, Master, TypeInv, TimeTyped
<1>2. TimeTyped'
  BY TimeStep
<1>3. stalls' \in 0 .. MaxStall
  BY <1>2 DEF TimeTyped
<1>4. ~TxSys => tx_dreq
  BY <1>1 DEF MayStall
<1> QED BY <1>1, <1>3, <1>4 DEF Stalling

LEMMA MasterDueStep ==
  ASSUME TypeInv, Pacing, Paced, Deliverable, BlockUnderWay, Bounded,
         MasterOrder, MasterDue, NEW tx_dreq \in BOOLEAN, NEW slave \in BOOLEAN,
         NEW get \in BOOLEAN, Step(tx_dreq, slave, get),
         slave_phase' = slave_phase
  PROVE  MasterDue'
<1>1. /\ Sampled \in Int
      /\ new_sample => Sampled = now - 1
      /\ now \in Nat /\ Leaves \in Nat /\ MaxStall \in Nat
  BY Margins, SampledMoves
<1>2. /\ TxSys => TxEdge = now /\ TxEdge' = now + 2
      /\ ~TxSys => TxEdge = now + 1 /\ TxEdge' = now + 1
  BY EdgesMove
<1>3. Stalling \in Nat /\ Stalling' \in Nat
  BY StallsMove
<1>13. ASSUME NEW x \in Int, x <= Sampled + Leaves
       PROVE  x <= Sampled' + Leaves
  <2>1. Period \in Nat
        /\ Sampled' = IF now = next_ce THEN Sampled + Period ELSE Sampled
    BY Margins, SampledMoves
  <2>2. CASE now = next_ce
    BY <1>1, <1>13, <2>1, <2>2
  <2>3. CASE now # next_ce
    BY <1>1, <1>13, <2>1, <2>3
  <2> QED BY <2>2, <2>3
<1>14. TxEdge \in Int /\ TxEdge' \in Int
  BY <1>1, <1>2
<1>4. crossing' > 0 =>
        TxEdge' + 2 * crossing' + 2 * MaxStall + 10 <= Sampled' + Leaves
  <2> SUFFICES ASSUME crossing' > 0
               PROVE  TxEdge' + 2 * crossing' + 2 * MaxStall + 10
                        <= Sampled' + Leaves
    OBVIOUS
  <2>1. crossing \in Nat /\ crossing' \in Nat
    BY TxMoves
  <2>2. CASE crossing > 0
    <3>1. crossing' = IF TxSys THEN crossing - 1 ELSE crossing
      BY <2>2, TxMoves
    <3>2. TxEdge + 2 * crossing + 2 * MaxStall + 10 <= Sampled + Leaves
      BY <2>2 DEF MasterDue
    <3> DEFINE x == TxEdge' + 2 * crossing' + 2 * MaxStall + 10
    <3>3. x \in Int /\ x <= Sampled + Leaves
      <4>1. CASE TxSys
        BY <1>1, <1>2, <2>1, <3>1, <3>2, <4>1
      <4>2. CASE ~TxSys
        BY <1>1, <1>2, <2>1, <3>1, <3>2, <4>2
      <4> QED BY <4>1, <4>2
    <3> HIDE DEF x
    <3>4. x <= Sampled' + Leaves
      BY <1>13, <3>3
    <3> QED BY <3>4 DEF x
  <2>3. CASE ~(crossing > 0)
    <3>1. new_sample /\ crossing' \in SyncEdges
      BY <2>3, TxMoves
    <3>2. 2 * crossing' + 2 * MaxStall + 13 <= Leaves
      BY <3>1, Margins
    <3>3. Sampled = now - 1
      BY <1>1, <3>1
    <3>4. TxEdge' = now + 1 \/ TxEdge' = now + 2
      BY <1>1, <1>2
    <3> DEFINE x == TxEdge' + 2 * crossing' + 2 * MaxStall + 10
    <3>5. x \in Int /\ x <= Sampled + Leaves
      <4>1. PICK c \in Nat : c = crossing'
        BY <2>1
      <4>2. PICK t \in Int : t = TxEdge'
        BY <1>14
      <4>3. 2 * c + 2 * MaxStall + 13 <= Leaves
        BY <3>2, <4>1
      <4>6. t <= now + 2
        BY <1>1, <3>4, <4>2
      <4>4. t + 2 * c + 2 * MaxStall + 10 <= Sampled + Leaves
        BY <1>1, <3>3, <4>3, <4>6
      <4>5. x = t + 2 * c + 2 * MaxStall + 10
        BY <4>1, <4>2
      <4> HIDE DEF x
      <4> QED BY <1>1, <4>4, <4>5
    <3> HIDE DEF x
    <3>6. x <= Sampled' + Leaves
      BY <1>13, <3>5
    <3> QED BY <3>6 DEF x
  <2> QED BY <2>2, <2>3
<1>5. new_sample_sys' => TxEdge' + 2 * MaxStall + 10 <= Sampled' + Leaves
  <2> SUFFICES new_sample_sys' => TxEdge' + 2 * MaxStall + 10
                                    <= Sampled + Leaves
    <3>1. TxEdge' + 2 * MaxStall + 10 \in Int
      BY <1>1, <1>14
    <3> QED BY <1>13, <3>1
  <2>1. CASE TxSys
    <3>1. new_sample_sys' => crossing = 1 /\ crossing > 0
      BY <2>1, TxMoves
    <3>2. new_sample_sys' => TxEdge + 2 * 1 + 2 * MaxStall + 10
                               <= Sampled + Leaves
      BY <3>1 DEF MasterDue
    <3> QED BY <1>1, <1>2, <2>1, <3>2
  <2>2. CASE ~TxSys
    <3>1. new_sample_sys' => TxEdge + 2 * MaxStall + 10 <= Sampled + Leaves
      BY <2>2, TxMoves DEF MasterDue
    <3> QED BY <1>1, <1>2, <2>2, <3>1
  <2> QED BY <2>1, <2>2
<1>6. tx_state' = "TX_TIMESTAMP" =>
        TxEdge' + Stalling' + 8 <= Sampled' + Leaves
  <2> SUFFICES ASSUME tx_state' = "TX_TIMESTAMP"
               PROVE  TxEdge' + Stalling' + 8 <= Sampled + Leaves
    BY <1>3, <1>13, <1>14
  <2>1. \/ tx_state = "TX_TIMESTAMP" /\ (TxSys => ~tx_dreq)
        \/ tx_state = "WAIT_SAMPLE" /\ new_sample_sys /\ TxSys
    <3>1. CASE TxSys
      BY <3>1, TxMoves
      DEF TxOff, WaitSample, TxTimestamp, TxAcc, TxTune, TxPad, SendWord
    <3>2. CASE ~TxSys
      BY <3>2, TxMoves
    <3> QED BY <3>1, <3>2
  <2>2. CASE tx_state = "TX_TIMESTAMP" /\ (TxSys => ~tx_dreq)
    <3>1. Stalling' = IF TxSys THEN Stalling - 2 ELSE Stalling
      BY <2>2, StallsMove
    <3>2. TxEdge + Stalling + 8 <= Sampled + Leaves
      BY <2>2 DEF MasterDue
    <3>3. TxEdge' + Stalling' = TxEdge + Stalling
      BY <1>1, <1>2, <1>3, <3>1
    <3>4. TxEdge \in Int /\ TxEdge' \in Int
      BY <1>1, <1>2
    <3> QED BY <1>1, <1>3, <3>2, <3>3, <3>4
  <2>3. CASE tx_state = "WAIT_SAMPLE" /\ new_sample_sys /\ TxSys
    <3>1. Stalling' = 2 * MaxStall
      BY <2>3, StallsMove
    <3>2. TxEdge + 2 * MaxStall + 10 <= Sampled + Leaves
      BY <2>3 DEF MasterDue
    <3> QED BY <1>1, <1>2, <2>3, <3>1, <3>2
  <2> QED BY <2>1, <2>2, <2>3
(* From one state to the next, or stalled. *)
<1>7. ASSUME NEW n \in Nat, TxEdge + Stalling + n + 2 <= BusyTime + Leaves,
             Busy, Busy', TxSys, Stalling' = Stalling
      PROVE  TxEdge' + Stalling' + n <= BusyTime' + Leaves
  <2>1. BusyTime' = BusyTime /\ BusyTime \in Nat
    BY <1>7, BusyMoves
  <2> QED BY <1>1, <1>2, <1>3, <1>7, <2>1
<1>8. ASSUME NEW n \in Nat, TxEdge + Stalling + n <= BusyTime + Leaves,
             Busy, Busy', Stalling' = IF TxSys THEN Stalling - 2 ELSE Stalling
      PROVE  TxEdge' + Stalling' + n <= BusyTime' + Leaves
  <2>1. BusyTime' = BusyTime /\ BusyTime \in Nat
    BY <1>8, BusyMoves
  <2>2. TxEdge' + Stalling' = TxEdge + Stalling
    BY <1>1, <1>2, <1>3, <1>8
  <2>3. TxEdge \in Int /\ TxEdge' \in Int
    BY <1>1, <1>2
  <2> QED BY <1>1, <1>3, <1>8, <2>1, <2>2, <2>3
<1>9. tx_state' = "TX_ACC" => TxEdge' + Stalling' + 6 <= BusyTime' + Leaves
  <2> SUFFICES ASSUME tx_state' = "TX_ACC"
               PROVE  TxEdge' + Stalling' + 6 <= BusyTime' + Leaves
    OBVIOUS
  <2>1. \/ tx_state = "TX_ACC" /\ (TxSys => ~tx_dreq)
        \/ tx_state = "TX_TIMESTAMP" /\ TxSys /\ tx_dreq
    <3>1. CASE TxSys
      BY <3>1, TxMoves
      DEF TxOff, WaitSample, TxTimestamp, TxAcc, TxTune, TxPad, SendWord
    <3>2. CASE ~TxSys
      BY <3>2, TxMoves
    <3> QED BY <3>1, <3>2
  <2>2. CASE tx_state = "TX_ACC" /\ (TxSys => ~tx_dreq)
    <3>1. Stalling' = IF TxSys THEN Stalling - 2 ELSE Stalling
      BY <2>2, StallsMove
    <3> QED BY <1>8, <2>2, <3>1 DEF MasterDue, Busy
  <2>3. CASE tx_state = "TX_TIMESTAMP" /\ TxSys /\ tx_dreq
    <3>1. Stalling' = Stalling
      BY <2>3, StallsMove
    <3>2. ~Busy /\ Busy'
      BY <2>3, BusyMoves DEF Busy
    <3>3. BusyTime' = Sampled
      BY <2>3, <3>2, BusyMoves DEF MasterOrder, SnapUsed
    <3>4. TxEdge + Stalling + 8 <= Sampled + Leaves
      BY <2>3 DEF MasterDue
    <3> QED BY <1>1, <1>2, <1>3, <2>3, <3>1, <3>3, <3>4
  <2> QED BY <2>1, <2>2, <2>3
<1>10. tx_state' = "TX_TUNE" => TxEdge' + Stalling' + 4 <= BusyTime' + Leaves
  <2> SUFFICES ASSUME tx_state' = "TX_TUNE"
               PROVE  TxEdge' + Stalling' + 4 <= BusyTime' + Leaves
    OBVIOUS
  <2>1. \/ tx_state = "TX_TUNE" /\ (TxSys => ~tx_dreq)
        \/ tx_state = "TX_ACC" /\ TxSys /\ tx_dreq
    <3>1. CASE TxSys
      BY <3>1, TxMoves
      DEF TxOff, WaitSample, TxTimestamp, TxAcc, TxTune, TxPad, SendWord
    <3>2. CASE ~TxSys
      BY <3>2, TxMoves
    <3> QED BY <3>1, <3>2
  <2>2. CASE tx_state = "TX_TUNE" /\ (TxSys => ~tx_dreq)
    <3>1. Stalling' = IF TxSys THEN Stalling - 2 ELSE Stalling
      BY <2>2, StallsMove
    <3> QED BY <1>8, <2>2, <3>1 DEF MasterDue, Busy
  <2>3. CASE tx_state = "TX_ACC" /\ TxSys /\ tx_dreq
    <3>1. Stalling' = Stalling
      BY <2>3, StallsMove
    <3>2. TxEdge + Stalling + 4 + 2 <= BusyTime + Leaves
      <4>1. BusyTime \in Nat
        BY <2>3, BusyMoves DEF Busy
      <4>2. TxEdge + Stalling + 6 <= BusyTime + Leaves
        BY <2>3 DEF MasterDue
      <4> QED BY <1>1, <1>2, <1>3, <2>3, <4>1, <4>2
    <3> QED BY <1>7, <2>3, <3>1, <3>2 DEF Busy
  <2> QED BY <2>1, <2>2, <2>3
<1>11. tx_state' = "TX_PAD" => TxEdge' + Stalling' + 2 <= BusyTime' + Leaves
  <2> SUFFICES ASSUME tx_state' = "TX_PAD"
               PROVE  TxEdge' + Stalling' + 2 <= BusyTime' + Leaves
    OBVIOUS
  <2>1. \/ tx_state = "TX_PAD" /\ (TxSys => ~tx_dreq)
        \/ tx_state = "TX_TUNE" /\ TxSys /\ tx_dreq
    <3>1. CASE TxSys
      BY <3>1, TxMoves
      DEF TxOff, WaitSample, TxTimestamp, TxAcc, TxTune, TxPad, SendWord
    <3>2. CASE ~TxSys
      BY <3>2, TxMoves
    <3> QED BY <3>1, <3>2
  <2>2. CASE tx_state = "TX_PAD" /\ (TxSys => ~tx_dreq)
    <3>1. Stalling' = IF TxSys THEN Stalling - 2 ELSE Stalling
      BY <2>2, StallsMove
    <3> QED BY <1>8, <2>2, <3>1 DEF MasterDue, Busy
  <2>3. CASE tx_state = "TX_TUNE" /\ TxSys /\ tx_dreq
    <3>1. Stalling' = Stalling
      BY <2>3, StallsMove
    <3>2. TxEdge + Stalling + 2 + 2 <= BusyTime + Leaves
      <4>1. BusyTime \in Nat
        BY <2>3, BusyMoves DEF Busy
      <4>2. TxEdge + Stalling + 4 <= BusyTime + Leaves
        BY <2>3 DEF MasterDue
      <4> QED BY <1>1, <1>2, <1>3, <2>3, <4>1, <4>2
    <3> QED BY <1>7, <2>3, <3>1, <3>2 DEF Busy
  <2> QED BY <2>1, <2>2, <2>3
<1>12. tx_valid' /\ tx_last' => TxEdge' <= BusyTime' + Leaves
  <2> SUFFICES ASSUME tx_valid', tx_last'
               PROVE  TxEdge' <= BusyTime' + Leaves
    OBVIOUS
  <2>1. \/ ~TxSys /\ tx_valid /\ tx_last
        \/ TxSys /\ tx_state = "TX_PAD" /\ tx_dreq
    <3>1. CASE TxSys
      <4>1. WaitSample => ~tx_valid'
        BY DEF WaitSample
      <4>2. BlockUnderWay'
        BY BlockStep
      <4>3. tx_state' = "WAIT_SAMPLE"
        BY <4>2 DEF BlockUnderWay
      <4> QED BY <3>1, <4>1, <4>3, TxMoves
          DEF TxOff, TxTimestamp, TxAcc, TxTune, TxPad, SendWord
    <3>2. CASE ~TxSys
      BY <3>2, TxMoves
    <3> QED BY <3>1, <3>2
  <2>2. CASE ~TxSys /\ tx_valid /\ tx_last
    <3>1. TxEdge <= BusyTime + Leaves
      BY <2>2 DEF MasterDue
    <3>2. BusyTime' = BusyTime
      BY <2>2, BusyMoves, TxMoves DEF Busy
    <3> QED BY <1>1, <1>2, <2>2, <3>1, <3>2
  <2>3. CASE TxSys /\ tx_state = "TX_PAD" /\ tx_dreq
    <3>1. Stalling' = Stalling
      BY <2>3, StallsMove
    <3>2. BusyTime \in Nat /\ BusyTime' = BusyTime
      BY <2>3, BusyMoves DEF Busy
    <3>3. TxEdge + Stalling + 2 <= BusyTime + Leaves
      BY <2>3 DEF MasterDue
    <3> QED BY <1>1, <1>2, <1>3, <2>3, <3>2, <3>3
  <2> QED BY <2>1, <2>2, <2>3
<1> QED BY <1>4, <1>5, <1>6, <1>9, <1>10, <1>11, <1>12 DEF MasterDue

-----------------------------------------------------------------------------
(* The network.  What is taken from the queue of blocks and what joins it: *)
(* the master's block, if it has sent its last word, and another master's. *)
LEMMA JoinTwo ==
  ASSUME NEW S, NEW p \in Seq(S), NEW q \in Seq(S), NEW r \in Seq(S),
         Len(q) <= 1, Len(r) <= 1
  PROVE  /\ Len((p \o q) \o r) = Len(p) + Len(q) + Len(r)
         /\ DOMAIN ((p \o q) \o r) = 1 .. Len((p \o q) \o r)
         /\ \A i \in 1 .. Len(p) : ((p \o q) \o r)[i] = p[i]
         /\ Len(q) = 1 => ((p \o q) \o r)[Len(p) + 1] = q[1]
         /\ Len(r) = 1 => ((p \o q) \o r)[Len(p) + Len(q) + 1] = r[1]
<1>1. /\ p \o q \in Seq(S) /\ Len(p \o q) = Len(p) + Len(q)
      /\ \A i \in 1 .. Len(p) : (p \o q)[i] = p[i]
      /\ Len(q) = 1 => (p \o q)[Len(p) + 1] = q[1]
  OBVIOUS
<1> DEFINE t == p \o q
<1> HIDE DEF t
<1>2. /\ t \in Seq(S) /\ Len(t) = Len(p) + Len(q)
      /\ \A i \in 1 .. Len(p) : t[i] = p[i]
      /\ Len(q) = 1 => t[Len(p) + 1] = q[1]
      /\ Len(p) \in Nat /\ Len(q) \in Nat /\ Len(r) \in Nat
  BY <1>1 DEF t
<1>3. /\ Len(t \o r) = Len(t) + Len(r)
      /\ DOMAIN (t \o r) = 1 .. Len(t \o r)
      /\ \A i \in 1 .. Len(t) : (t \o r)[i] = t[i]
      /\ Len(r) = 1 => (t \o r)[Len(t) + 1] = r[1]
  BY <1>2
<1> QED BY <1>2, <1>3 DEF t

(* How many blocks leave the queue, and how many of the master's and of    *)
(* another's join it. *)
Gone(get) == One(LastWord(get))
Joins(get, p, q) ==
  /\ Len(air') = Len(air) - Gone(get) + p + q
  /\ DOMAIN air' = 1 .. Len(air')
  /\ \A i \in 1 .. Len(air) - Gone(get) : air'[i] = air[i + Gone(get)]
  /\ p = 1 =>
       /\ TxSys /\ tx_valid /\ tx_last
       /\ air'[Len(air) - Gone(get) + 1]
            = [words |-> Sent, due |-> now + MaxTransport]
  /\ q = 1 =>
       /\ foreign < MaxForeign
       /\ air'[Len(air) - Gone(get) + p + 1]
            = [words |-> ForeignBlock, due |-> now + MaxTransport]
  /\ foreign' = foreign + q

LEMMA AirGrows ==
  ASSUME TypeInv, NEW tx_dreq \in BOOLEAN, NEW slave \in BOOLEAN,
         NEW get \in BOOLEAN, Step(tx_dreq, slave, get)
  PROVE  /\ Gone(get) \in {0, 1} /\ Gone(get) <= Len(air)
         /\ Len(air) \in Nat /\ DOMAIN air = 1 .. Len(air)
         /\ \E p, q \in {0, 1} : Joins(get, p, q)
<1> DEFINE g == Gone(get)
           b1 == [words |-> Sent, due |-> now + MaxTransport]
           b2 == [words |-> ForeignBlock, due |-> now + MaxTransport]
           B  == KnownBlocks'
<1>1. /\ now \in Nat /\ now' = now + 1 /\ air \in Seq(KnownBlocks)
      /\ MayGet(get)
  BY DEF Step, TypeInv, TimeTyped, ChannelTyped, Channel
<1>2. /\ Gone(get) \in {0, 1} /\ Gone(get) <= Len(air)
      /\ Len(air) \in Nat /\ DOMAIN air = 1 .. Len(air)
  <2>1. LastWord(get) => air # <<>>
    BY <1>1 DEF LastWord, MayGet
  <2>2. Len(air) \in Nat /\ DOMAIN air = 1 .. Len(air)
        /\ (air # <<>> => Len(air) >= 1)
    BY <1>1
  <2> QED BY <2>1, <2>2 DEF Gone, One
<1>3. Kept(get) \in Seq(B)
  BY AirMoves
<1>4. /\ Len(Kept(get)) = Len(air) - g
      /\ \A i \in 1 .. Len(Kept(get)) : Kept(get)[i] = air[i + g]
  <2>1. CASE LastWord(get)
    <3>1. g = 1 /\ Kept(get) = Tail(air) /\ air # <<>>
      BY <1>1, <2>1 DEF Gone, One, Kept, LastWord, MayGet
    <3> QED BY <1>1, <3>1
  <2>2. CASE ~LastWord(get)
    <3>1. g = 0 /\ Kept(get) = air
      BY <2>2 DEF Gone, One, Kept
    <3> QED BY <1>1, <3>1
  <2> QED BY <2>1, <2>2
<1>5. PICK own \in OwnBlocks, other \in ForeignBlocks :
        /\ air' = (IF get /\ WordsLeft = 1 THEN Tail(air) ELSE air)
                    \o own \o other
        /\ foreign' = foreign + Len(other)
  BY DEF Step, Channel
<1>6. /\ own = <<>> \/ (own = <<b1>> /\ TxSys /\ tx_valid /\ tx_last)
      /\ own # <<>> => b1 \in Coming
  BY DEF OwnBlocks, Coming, Sent
<1>7. /\ other = <<>> \/ (other = <<b2>> /\ foreign < MaxForeign)
      /\ b2 \in Coming
  BY DEF ForeignBlocks, Coming
<1>8. Coming \subseteq B
  BY <1>1, ComingIsKnown
<1> HIDE DEF b1, b2, B
<1>9. \A b \in B : <<b>> \in Seq(B) /\ Len(<<b>>) = 1 /\ <<b>>[1] = b
  OBVIOUS
<1>10. <<>> \in Seq(B) /\ Len(<<>>) = 0
  OBVIOUS
<1>11. /\ own \in Seq(B) /\ Len(own) \in {0, 1}
       /\ Len(own) = 1 => own[1] = b1 /\ TxSys /\ tx_valid /\ tx_last
  <2>1. CASE own = <<>>
    BY <1>10, <2>1
  <2>2. CASE own = <<b1>> /\ TxSys /\ tx_valid /\ tx_last
    <3>1. b1 \in B
      BY <1>6, <1>8, <2>2
    <3> QED BY <1>9, <2>2, <3>1
  <2> QED BY <1>6, <2>1, <2>2
<1>12. /\ other \in Seq(B) /\ Len(other) \in {0, 1}
       /\ Len(other) = 1 => other[1] = b2 /\ foreign < MaxForeign
  <2>1. CASE other = <<>>
    BY <1>10, <2>1
  <2>2. CASE other = <<b2>> /\ foreign < MaxForeign
    <3>1. b2 \in B
      BY <1>7, <1>8
    <3> QED BY <1>9, <2>2, <3>1
  <2> QED BY <1>7, <2>1, <2>2
<1>13. air' = (Kept(get) \o own) \o other
  BY <1>5 DEF Kept, LastWord
<1>14. /\ Len(air') = Len(Kept(get)) + Len(own) + Len(other)
       /\ DOMAIN air' = 1 .. Len(air')
       /\ \A i \in 1 .. Len(Kept(get)) : air'[i] = Kept(get)[i]
       /\ Len(own) = 1 => air'[Len(Kept(get)) + 1] = own[1]
       /\ Len(other) = 1 =>
            air'[Len(Kept(get)) + Len(own) + 1] = other[1]
  <2>1. Len(own) <= 1 /\ Len(other) <= 1
    <3>1. \A n \in {0, 1} : n <= 1
      OBVIOUS
    <3> QED BY <1>11, <1>12, <3>1
  <2> QED BY <1>3, <1>11, <1>12, <1>13, <2>1, JoinTwo, SMTT(30)
<1> HIDE DEF g
<1>15. /\ Len(air') = Len(air) - g + Len(own) + Len(other)
       /\ \A i \in 1 .. Len(air) - g : air'[i] = air[i + g]
       /\ Len(own) = 1 => /\ TxSys /\ tx_valid /\ tx_last
                          /\ air'[Len(air) - g + 1] = b1
       /\ Len(other) = 1 => /\ foreign < MaxForeign
                            /\ air'[Len(air) - g + Len(own) + 1] = b2
  BY <1>4, <1>11, <1>12, <1>14
<1>16. Joins(get, Len(own), Len(other))
  BY <1>5, <1>14, <1>15 DEF g, b1, b2, Joins
<1> QED BY <1>2, <1>11, <1>12, <1>16

LEMMA BoundedStep ==
  ASSUME TypeInv, Bounded, NEW tx_dreq \in BOOLEAN, NEW slave \in BOOLEAN,
         NEW get \in BOOLEAN, Step(tx_dreq, slave, get),
         slave_phase' = slave_phase
  PROVE  Bounded'
<1>1. PICK p, q \in {0, 1} : Joins(get, p, q)
  BY AirGrows
<1>2. foreign' = foreign + q /\ (q = 1 => foreign < MaxForeign)
  BY <1>1 DEF Joins
<1> QED BY <1>2, Assumed DEF Bounded

(* The slave gets a word in each of its edges, or the block can wait: the  *)
(* edge of its last word moves only as far as it may.                      *)
LEMMA LastMoves ==
  ASSUME TypeInv, BlocksInAir, Bounded, NEW tx_dreq \in BOOLEAN,
         NEW slave \in BOOLEAN, NEW get \in BOOLEAN, Step(tx_dreq, slave, get),
         slave_phase' = slave_phase
  PROVE  /\ now \in Nat /\ Last \in Int /\ Last' \in Int
         /\ Gone(get) = 1 => Last = now /\ Last' = now + 8 /\ Len(air) >= 1
         /\ Len(air) >= 1 /\ Gone(get) = 0 =>
              Last' = Last \/ Last' <= air[1].due
         /\ Len(air) = 0 => Last' <= now + 8
<1>1. /\ now \in Nat /\ now' = now + 1 /\ air \in Seq(KnownBlocks)
      /\ air = <<>> => position = 0
      /\ air # <<>> => position \in 0 .. Len(Head(air).words) - 1
      /\ MayGet(get)
      /\ position' = IF ~get THEN position
                     ELSE IF WordsLeft = 1 THEN 0 ELSE position + 1
  BY DEF Step, TypeInv, TimeTyped, ChannelTyped, Channel
<1>2. /\ RxSys => RxEdge = now /\ RxEdge' = now + 2
      /\ ~RxSys => RxEdge = now + 1 /\ RxEdge' = now + 1
  BY EdgesMove
<1>3. Len(air) \in Nat /\ (air = <<>> <=> Len(air) = 0)
      /\ (Len(air) # 0 => Len(air) >= 1)
  BY <1>1
<1>4. air # <<>> => /\ WordsLeft = 4 - position /\ position \in 0 .. 3
                    /\ air[1].due \in Nat /\ Head(air) = air[1]
  <2> SUFFICES ASSUME air # <<>>
               PROVE  /\ WordsLeft = 4 - position /\ position \in 0 .. 3
                      /\ air[1].due \in Nat /\ Head(air) = air[1]
    OBVIOUS
  <2>1. Head(air) = air[1] /\ 1 \in DOMAIN air /\ air[1] \in KnownBlocks
    BY <1>1
  <2>2. Len(air[1].words) = 4
    BY <2>1 DEF BlocksInAir, IsBlock
  <2>3. air[1].due \in Nat
    BY <2>1 DEF KnownBlocks
  <2>4. WordsLeft = 4 - position
    BY <2>1, <2>2 DEF WordsLeft
  <2>5. position \in 0 .. 3
    <3>1. Len(Head(air).words) = 4
      BY <2>1, <2>2
    <3>2. position \in 0 .. Len(Head(air).words) - 1
      BY <1>1
    <3>3. \A n : n = 4 /\ position \in 0 .. n - 1 => position \in 0 .. 3
      OBVIOUS
    <3> QED BY <3>1, <3>2, <3>3
  <2> QED BY <2>1, <2>3, <2>4, <2>5
<1>5. RxEdge \in Nat /\ RxEdge' \in Nat /\ position \in Nat
  BY <1>1, <1>2, <1>3, <1>4
<1>6. Last = RxEdge + 6 - 2 * position /\ Last' = RxEdge' + 6 - 2 * position'
  BY DEF Last
<1>7. CASE air = <<>>
  <2>1. ~get /\ position = 0 /\ position' = 0
    BY <1>1, <1>7 DEF MayGet
  <2>2. Gone(get) = 0
    BY <2>1 DEF Gone, One, LastWord
  <2>3. Last = RxEdge + 6 /\ Last' = RxEdge' + 6
    BY <1>5, <1>6, <2>1
  <2>4. Last \in Int /\ Last' \in Int /\ Last' <= now + 8
    <3>1. RxEdge' = now + 1 \/ RxEdge' = now + 2
      BY <1>2
    <3>2. now \in Nat
      BY <1>1
    <3>3. \A edge \in {now + 1, now + 2} :
            edge + 6 \in Int /\ edge + 6 <= now + 8
      BY <3>2
    <3>4. RxEdge + 6 \in Int
      BY <1>5
    <3> QED BY <2>3, <3>1, <3>3, <3>4
  <2> QED BY <1>1, <1>3, <1>7, <2>2, <2>4
<1>8. CASE air # <<>> /\ ~get
  <2>1. position' = position /\ Gone(get) = 0
    BY <1>1, <1>8 DEF Gone, One, LastWord
  <2>2. RxSys => now + 2 * (4 - position) <= air[1].due
    BY <1>1, <1>4, <1>8 DEF MayGet
  <2>3. position \in 0 .. 3 /\ air[1].due \in Nat
    BY <1>4, <1>8
  <2>4. Last \in Int /\ Last' \in Int
    BY <1>5, <1>6, <2>1
  <2>5. RxSys => Last' <= air[1].due
    BY <1>1, <1>2, <1>6, <2>1, <2>2, <2>3
  <2>6. ~RxSys => Last' = Last
    BY <1>1, <1>2, <1>6, <2>1
  <2>7. Len(air) # 0
    BY <1>3, <1>8
  <2> QED BY <1>1, <2>1, <2>4, <2>5, <2>6, <2>7
<1>9. CASE air # <<>> /\ get
  <2>1. RxSys /\ position \in 0 .. 3 /\ Len(air) >= 1 /\ Len(air) # 0
    BY <1>1, <1>3, <1>4, <1>9 DEF MayGet
  <2>2. CASE position = 3
    <3>1. position' = 0 /\ Gone(get) = 1
      BY <1>1, <1>4, <1>9, <2>2 DEF Gone, One, LastWord
    <3>2. Last = now /\ Last' = now + 8
      BY <1>1, <1>2, <1>6, <2>1, <2>2, <3>1
    <3> QED BY <1>1, <2>1, <3>1, <3>2
  <2>3. CASE position # 3
    <3>1. WordsLeft = 4 - position /\ 4 - position # 1
      BY <1>4, <1>9, <2>1, <2>3
    <3>2. position' = position + 1 /\ Gone(get) = 0
      BY <1>1, <1>9, <3>1 DEF Gone, One, LastWord
    <3>3. Last = Last' /\ Last \in Int
      BY <1>1, <1>2, <1>6, <2>1, <3>2
    <3> QED BY <1>1, <2>1, <3>2, <3>3
  <2> QED BY <2>2, <2>3
<1> QED BY <1>7, <1>8, <1>9

(* At most two blocks join what is under way. *)
LEMMA LastTwo ==
  ASSUME NEW i \in Nat, NEW k \in Nat, NEW p \in Nat, NEW q \in Nat,
         i > k, i <= k + p + q, p <= 1, q <= 1
  PROVE  \/ i = k + 1 /\ (p = 1 \/ (p = 0 /\ q = 1))
         \/ i = k + 2 /\ p = 1 /\ q = 1
OBVIOUS

(* When the blocks come in, at the latest: those that are under way no     *)
(* later than before, a new one eight cycles after the one before it or    *)
(* when it is due.                                                         *)
LEMMA EndsMove ==
  ASSUME TypeInv, BlocksInAir, Bounded, MaxTransport >= 8,
         NEW tx_dreq \in BOOLEAN, NEW slave \in BOOLEAN,
         NEW get \in BOOLEAN, Step(tx_dreq, slave, get),
         slave_phase' = slave_phase,
         NEW p \in {0, 1}, NEW q \in {0, 1}, Joins(get, p, q),
         NEW k \in Nat, k = Len(air) - Gone(get)
  PROVE  /\ \A i \in 1 .. k : \A e \in Ends'[i] :
              e \in Int /\ \E f \in Ends[i + Gone(get)] : f \in Int /\ e <= f
         /\ \A i \in k + 1 .. Len(air') : \A e \in Ends'[i] :
              /\ e \in Int
              /\ \/ e <= now + MaxTransport + 8 * (i - k - 1)
                 \/ /\ Len(air) \in DOMAIN air
                    /\ \E f \in Ends[Len(air)] :
                         f \in Int /\ e <= f + 8 * (i - k)
<1> DEFINE g == Gone(get)
           n == Len(air)
<1>1. /\ g \in {0, 1} /\ g <= n /\ n \in Nat /\ DOMAIN air = 1 .. n
      /\ g \in Nat /\ p \in Nat /\ q \in Nat
  BY AirGrows
<1>2. /\ Len(air') = k + p + q /\ DOMAIN air' = 1 .. k + p + q
      /\ \A i \in 1 .. k : air'[i] = air[i + g]
      /\ p = 1 => air'[k + 1].due = now + MaxTransport
      /\ q = 1 => air'[k + p + 1].due = now + MaxTransport
  <2>1. Joins(get, p, q) /\ Len(air) - Gone(get) = k
    OBVIOUS
  <2>2. Len(air') = k + p + q
    BY <2>1 DEF Joins
  <2>3. DOMAIN air' = 1 .. Len(air')
    BY <2>1 DEF Joins
  <2>4. \A i \in 1 .. k : air'[i] = air[i + g]
    BY <2>1 DEF Joins
  <2>5. p = 1 => air'[k + 1] = [words |-> Sent, due |-> now + MaxTransport]
    BY <2>1 DEF Joins
  <2>6. q = 1 => air'[k + p + 1] = [words |-> ForeignBlock,
                                    due   |-> now + MaxTransport]
    BY <2>1 DEF Joins
  <2> QED BY <2>2, <2>3, <2>4, <2>5, <2>6
<1>0. /\ k \in Nat /\ g \in Nat /\ n \in Nat /\ p \in Nat /\ q \in Nat
      /\ n = k + g /\ p <= 1 /\ q <= 1
  BY <1>1
<1> HIDE DEF g, n
<1>3. /\ now \in Nat /\ Last \in Int /\ Last' \in Int
      /\ g = 1 => Last = now /\ Last' = now + 8 /\ n >= 1
      /\ n >= 1 /\ g = 0 => Last' = Last \/ Last' <= air[1].due
      /\ n = 0 => Last' <= now + 8
  BY LastMoves DEF g, n
<1>4. MaxTransport \in Nat
  BY Assumed
<1>5. \A i \in 1 .. n : air[i].due \in Nat
  <2>1. air \in Seq(KnownBlocks)
    BY DEF TypeInv, ChannelTyped
  <2>2. \A i \in 1 .. n : air[i] \in KnownBlocks
    BY <1>1, <2>1
  <2> QED BY <2>2 DEF KnownBlocks
<1>6. \A m \in 1 .. n :
        /\ Last + 8 * (m - 1) \in Ends[m]
        /\ \A j \in 1 .. m : air[j].due + 8 * (m - j) \in Ends[m]
  <2> SUFFICES ASSUME NEW m \in 1 .. n
               PROVE  /\ Last + 8 * (m - 1) \in Ends[m]
                      /\ \A j \in 1 .. m :
                           air[j].due + 8 * (m - j) \in Ends[m]
    OBVIOUS
  <2>1. Ends[m] = {Last + 8 * (m - 1)}
                    \cup {air[i].due + 8 * (m - i) : i \in 1 .. m}
    BY <1>1 DEF Ends
  <2> QED BY <2>1
<1>7. \A i \in 1 .. k + p + q :
        Ends'[i] = {Last' + 8 * (i - 1)}
                     \cup {air'[j].due + 8 * (i - j) : j \in 1 .. i}
  BY <1>2 DEF Ends
<1>8. ASSUME NEW i \in Nat, 1 <= i, i <= k, NEW m \in 1 .. n, m = i + g
      PROVE  /\ Last' + 8 * (i - 1) \in Int
             /\ \E f \in Ends[m] : f \in Int /\ Last' + 8 * (i - 1) <= f
  <2>1. m \in Nat /\ 1 \in 1 .. m /\ n >= 1 /\ 1 \in 1 .. n
    BY <1>0
  <2>2. /\ Last + 8 * (m - 1) \in Ends[m]
        /\ air[1].due + 8 * (m - 1) \in Ends[m]
    BY <1>6, <2>1
  <2>3. air[1].due \in Nat
    BY <1>5, <2>1
  <2>4. Last' + 8 * (i - 1) \in Int
    BY <1>3
  <2>5. CASE g = 1 \/ (g = 0 /\ Last' = Last)
    <3>1. Last' + 8 * (i - 1) = Last + 8 * (m - 1)
      <4>1. PICK a \in Int, b \in Int : a = Last /\ b = Last'
        BY <1>3
      <4>2. b + 8 * (i - 1) = a + 8 * (m - 1)
        <5>1. CASE g = 1
          <6>1. b = a + 8 /\ m = i + 1
            BY <1>3, <1>8, <4>1, <5>1
          <6> QED BY <4>1, <6>1
        <5>2. CASE g = 0 /\ Last' = Last
          <6>1. b = a /\ m = i
            BY <1>8, <4>1, <5>2
          <6> QED BY <6>1
        <5> QED BY <2>5, <5>1, <5>2
      <4> QED BY <4>1, <4>2
    <3>2. \A f \in Int : f <= f
      OBVIOUS
    <3> QED BY <2>2, <2>4, <3>1, <3>2
  <2>6. CASE g = 0 /\ Last' <= air[1].due
    <3>1. /\ Last' + 8 * (i - 1) <= air[1].due + 8 * (m - 1)
          /\ air[1].due + 8 * (m - 1) \in Int
      <4>1. PICK b \in Int, d \in Nat : b = Last' /\ d = air[1].due
        BY <1>3, <2>3
      <4>2. m = i /\ b <= d
        BY <1>8, <2>6, <4>1
      <4>3. PICK c \in Int : c = 8 * (i - 1) /\ c = 8 * (m - 1)
        BY <4>2
      <4>4. b + c <= d + c /\ d + c \in Int
        BY <4>1, <4>2, <4>3
      <4> QED BY <4>1, <4>3, <4>4
    <3> QED BY <2>2, <2>4, <3>1
  <2> QED BY <1>1, <1>3, <2>1, <2>5, <2>6
<1>9. ASSUME NEW i \in Nat, 1 <= i, i <= k, NEW m \in 1 .. n, m = i + g,
             NEW j \in Nat, 1 <= j, j <= i
      PROVE  /\ air'[j].due + 8 * (i - j) \in Ends[m]
             /\ air'[j].due + 8 * (i - j) \in Int
             /\ air'[j].due \in Nat
  <2>1. PICK l \in 1 .. m : l = j + g /\ l \in 1 .. n
    BY <1>0, <1>9
  <2>2. air'[j] = air[l]
    <3>1. j \in 1 .. k
      BY <1>0, <1>9
    <3> QED BY <1>2, <2>1, <3>1
  <2>3. air[l].due \in Nat
    BY <1>5, <2>1
  <2>4. air[l].due + 8 * (m - l) \in Ends[m]
    BY <1>6
  <2>5. PICK c \in Int : c = i - j /\ c = m - l
    <3>1. i - j \in Int /\ m - l = i - j
      BY <1>0, <1>9, <2>1
    <3> QED BY <3>1
  <2>6. PICK d \in Nat : d = air[l].due
    BY <2>3
  <2>7. d + 8 * c \in Int
    BY <2>5, <2>6
  <2>8. d + 8 * c \in Ends[m]
    BY <2>4, <2>5, <2>6
  <2>9. air'[j].due = d
    BY <2>2, <2>6
  <2> QED BY <2>5, <2>6, <2>7, <2>8, <2>9
<1>10. \A i \in Nat : 1 <= i /\ i <= k => \E m \in 1 .. n : m = i + g
  BY <1>0
<1>11. ASSUME NEW j \in Nat, k < j, j <= k + p + q
       PROVE  air'[j].due = now + MaxTransport
  <2>1. \/ j = k + 1 /\ (p = 1 \/ (p = 0 /\ q = 1))
        \/ j = k + 2 /\ p = 1 /\ q = 1
    <3>1. k \in Nat /\ p \in Nat /\ q \in Nat /\ p <= 1 /\ q <= 1
      BY <1>0
    <3> QED BY <1>11, <3>1, LastTwo, SMTT(30)
  <2>2. CASE j = k + 1 /\ p = 1
    BY <1>2, <2>2
  <2>3. CASE j = k + 1 /\ p = 0 /\ q = 1
    <3>1. k + p + 1 = k + 1
      BY <2>3
    <3> QED BY <1>2, <2>3, <3>1
  <2>4. CASE j = k + 2 /\ p = 1 /\ q = 1
    <3>1. k + p + 1 = k + 2
      BY <2>4
    <3> QED BY <1>2, <2>4, <3>1
  <2> QED BY <2>1, <2>2, <2>3, <2>4
<1>12. ASSUME NEW i \in Nat, 1 <= i, i <= k, NEW e \in Ends'[i]
       PROVE  e \in Int /\ \E f \in Ends[i + g] : f \in Int /\ e <= f
  <2>1. i \in 1 .. k + p + q
    BY <1>0, <1>12
  <2>2. \/ e = Last' + 8 * (i - 1)
        \/ \E j \in 1 .. i : e = air'[j].due + 8 * (i - j)
    <3>1. e \in {Last' + 8 * (i - 1)}
                  \cup {air'[j].due + 8 * (i - j) : j \in 1 .. i}
      BY <1>7, <2>1
    <3> QED BY <3>1, Zenon
  <2>3. CASE e = Last' + 8 * (i - 1)
    BY <1>8, <1>12, <1>10, <2>3
  <2>4. CASE \E j \in 1 .. i : e = air'[j].due + 8 * (i - j)
    <3>1. PICK j \in 1 .. i : e = air'[j].due + 8 * (i - j)
      BY <2>4
    <3>2. PICK m \in 1 .. n : m = i + g
      BY <1>10, <1>12
    <3>3. j \in Nat /\ 1 <= j /\ j <= i
      BY <1>12, <3>1
    <3>4. e \in Ends[m] /\ e \in Int
      BY <1>9, <1>12, <3>1, <3>2, <3>3
    <3>5. e <= e
      BY <3>4
    <3> QED BY <3>2, <3>4, <3>5
  <2> QED BY <2>2, <2>3, <2>4
<1>13. ASSUME NEW i \in Nat, k < i, i <= k + p + q, NEW e \in Ends'[i]
       PROVE  /\ e \in Int
              /\ \/ e <= now + MaxTransport + 8 * (i - k - 1)
                 \/ /\ n \in DOMAIN air
                    /\ \E f \in Ends[n] : f \in Int /\ e <= f + 8 * (i - k)
  <2>1. i \in 1 .. k + p + q /\ i \in Nat /\ k < i /\ i <= k + p + q
    BY <1>0, <1>13
  <2>2. \/ e = Last' + 8 * (i - 1)
        \/ \E j \in 1 .. i : e = air'[j].due + 8 * (i - j)
    <3>1. e \in {Last' + 8 * (i - 1)}
                  \cup {air'[j].due + 8 * (i - j) : j \in 1 .. i}
      BY <1>7, <2>1
    <3> QED BY <3>1, Zenon
  <2>3. ASSUME NEW d \in Ends'[k], k >= 1, e = d + 8 * (i - k)
        PROVE  /\ e \in Int /\ n \in DOMAIN air
               /\ \E f \in Ends[n] : f \in Int /\ e <= f + 8 * (i - k)
    <3>1. 1 <= k /\ k <= k
      BY <2>3
    <3>2. PICK f \in Ends[k + g] : d \in Int /\ f \in Int /\ d <= f
      BY <1>12, <3>1
    <3>3. e \in Int /\ e <= f + 8 * (i - k)
      <4>1. \A a, b, c \in Int : a <= b => a + c \in Int /\ a + c <= b + c
        OBVIOUS
      <4>2. d \in Int /\ f \in Int /\ d <= f /\ 8 * (i - k) \in Int
        BY <3>2
      <4> QED BY <2>3, <4>1, <4>2
    <3>4. k + g = n /\ n \in 1 .. n /\ DOMAIN air = 1 .. n
      <4>1. 1 <= n
        BY <1>0, <3>1
      <4> QED BY <1>0, <1>1, <4>1
    <3> QED BY <3>2, <3>3, <3>4
  <2>4. CASE e = Last' + 8 * (i - 1)
    <3>1. CASE k >= 1
      <4>1. Last' + 8 * (k - 1) \in Ends'[k]
        BY <1>7, <3>1
      <4>2. e = Last' + 8 * (k - 1) + 8 * (i - k)
        <5>1. \A b \in Int : b + 8 * (i - 1) = b + 8 * (k - 1) + 8 * (i - k)
          BY <2>1
        <5> QED BY <1>3, <2>4, <5>1
      <4> QED BY <2>3, <3>1, <4>1, <4>2
    <3>2. CASE k = 0
      <4>1. Last' <= now + 8
        <5>1. g = 1 \/ n = 0
          BY <1>0, <1>1, <3>2
        <5> QED BY <1>3, <5>1
      <4>2. e \in Int /\ e <= now + MaxTransport + 8 * (i - k - 1)
        <5>1. PICK b \in Int, t \in Nat :
                b = Last' /\ t = MaxTransport /\ t >= 8
          BY <1>3, <1>4
        <5>2. e = b + 8 * (i - 1) /\ b <= now + 8 /\ now \in Nat
          BY <1>3, <2>4, <4>1, <5>1
        <5>3. PICK c \in Int : c = i - 1 /\ i - k - 1 = c
          <6>1. i - 1 \in Int /\ i - k - 1 = i - 1
            BY <2>1, <3>2
          <6> QED BY <6>1
        <5>4. b + 8 * c \in Int /\ b + 8 * c <= now + t + 8 * c
          <6>1. \A y, z, v, d \in Int :
                  y <= z + 8 /\ v >= 8 => y + d \in Int /\ y + d <= z + v + d
            OBVIOUS
          <6>2. b \in Int /\ now \in Int /\ t \in Int /\ 8 * c \in Int
            BY <5>1, <5>2, <5>3
          <6> QED BY <5>1, <5>2, <6>1, <6>2
        <5> QED BY <5>1, <5>2, <5>3, <5>4
      <4> QED BY <4>2
    <3> QED BY <3>1, <3>2
  <2>5. CASE \E j \in 1 .. i : e = air'[j].due + 8 * (i - j)
    <3>1. PICK j \in 1 .. i : e = air'[j].due + 8 * (i - j)
      BY <2>5
    <3>2. CASE j <= k
      <4>1. k >= 1 /\ k <= k /\ j \in Nat /\ 1 <= j /\ j <= k /\ j \in 1 .. k
            /\ k \in 1 .. k + p + q
        BY <1>1, <3>2
      <4>2. air'[j].due + 8 * (k - j) \in Ends'[k]
        BY <1>7, <4>1
      <4>3. air'[j].due \in Nat
        BY <1>9, <1>10, <4>1
      <4>4. e = air'[j].due + 8 * (k - j) + 8 * (i - k)
        <5>1. \A a \in Nat :
                a + 8 * (i - j) = a + 8 * (k - j) + 8 * (i - k)
          BY <4>1, SMTT(30)
        <5> QED BY <3>1, <4>3, <5>1
      <4> QED BY <2>3, <4>1, <4>2, <4>4
    <3>3. CASE j > k
      <4>1. air'[j].due = now + MaxTransport
        <5>1. j \in Nat /\ k < j /\ j <= k + p + q
          BY <2>1, <3>1, <3>3
        <5> QED BY <1>11, <5>1
      <4>2. /\ e = now + MaxTransport + 8 * (i - j)
            /\ 8 * (i - j) <= 8 * (i - k - 1)
        BY <2>1, <3>1, <3>3, <4>1, SMTT(30)
      <4>3. PICK c \in Int, d \in Int : c = 8 * (i - j) /\ d = 8 * (i - k - 1)
        <5>1. 8 * (i - j) \in Int /\ 8 * (i - k - 1) \in Int
          BY <2>1
        <5> QED BY <5>1
      <4>4. e = now + MaxTransport + c /\ c <= d
        BY <4>2, <4>3
      <4>5. e \in Int /\ e <= now + MaxTransport + d
        BY <1>3, <1>4, <4>4
      <4> QED BY <4>3, <4>5
    <3> QED BY <3>2, <3>3
  <2> QED BY <2>2, <2>4, <2>5
<1>14. \A i \in 1 .. k : i \in Nat /\ 1 <= i /\ i <= k
  OBVIOUS
<1>15. \A i \in k + 1 .. Len(air') : i \in Nat /\ k < i /\ i <= k + p + q
  <2>1. Len(air') = k + p + q
    BY <1>2
  <2>2. k + p + q \in Nat
    BY <1>0
  <2>3. \A b \in Nat : \A i \in k + 1 .. b : i \in Nat /\ k < i /\ i <= b
    OBVIOUS
  <2> QED BY <2>1, <2>2, <2>3
<1> QED BY <1>12, <1>13, <1>14, <1>15 DEF g, n

(* How far the master is with the block that goes out. *)
LEMMA PassedMoves ==
  ASSUME TypeInv, BlockUnderWay, NEW tx_dreq \in BOOLEAN,
         NEW slave \in BOOLEAN, NEW get \in BOOLEAN, Step(tx_dreq, slave, get)
  PROVE  /\ Passed \in Nat /\ Passed' \in Nat /\ Passed' <= 8
         /\ ~TxSys => Passed' = Passed
         /\ TxSys => Passed' <= Passed + 2
         /\ TxSys /\ tx_valid /\ tx_last => Passed = 8 /\ Passed' = 0
<1>1. /\ ~TxSys => tx_state' = tx_state /\ tx_valid' = tx_valid
      /\ TxSys => \/ TxOff /\ tx_state = "WAIT_SAMPLE" /\ ~tx_valid
                  \/ WaitSample \/ TxTimestamp(tx_dreq)
                  \/ TxAcc(tx_dreq) \/ TxTune(tx_dreq)
                  \/ TxPad(tx_dreq)
  BY TxMoves
<1>2. /\ tx_valid /\ tx_last => tx_state = "WAIT_SAMPLE"
      /\ tx_state = "TX_TIMESTAMP" => ~tx_valid
  BY DEF BlockUnderWay
<1>3. /\ Passed \in {0, 2, 4, 6, 8}
      /\ tx_state = "WAIT_SAMPLE" /\ tx_valid => Passed = 8
      /\ tx_state = "TX_ACC" => Passed = 2
      /\ tx_state = "TX_TUNE" => Passed = 4
      /\ tx_state = "TX_PAD" => Passed = 6
  BY DEF Passed
<1>4. /\ Passed' \in {0, 2, 4, 6, 8}
      /\ tx_state' = "WAIT_SAMPLE" /\ ~tx_valid' => Passed' = 0
      /\ tx_state' = "WAIT_SAMPLE" /\ tx_valid' => Passed' = 8
      /\ tx_state' = "TX_TIMESTAMP" => Passed' = 0
      /\ tx_state' = "TX_ACC" => Passed' = 2
      /\ tx_state' = "TX_TUNE" => Passed' = 4
      /\ tx_state' = "TX_PAD" => Passed' = 6
  BY DEF Passed
<1>5. \A x \in {0, 2, 4, 6, 8} : x \in Nat /\ x <= 8
  OBVIOUS
<1>6. ~TxSys => Passed' = Passed
  BY <1>1 DEF Passed
<1>7. CASE TxSys
  <2>1. CASE TxOff \/ WaitSample
    <3>1. Passed' = 0
      BY <1>4, <2>1 DEF TxOff, WaitSample
    <3>2. tx_valid /\ tx_last => Passed = 8
      BY <1>2, <1>3
    <3> QED BY <1>3, <1>4, <1>5, <1>7, <3>1, <3>2
  <2>2. CASE TxTimestamp(tx_dreq)
    <3>1. Passed' \in {0, 2} /\ ~tx_valid
      BY <1>2, <1>4, <2>2 DEF TxTimestamp, SendWord
    <3>2. Passed' <= 2
      BY <3>1
    <3> QED BY <1>3, <1>4, <1>5, <1>7, <3>1, <3>2
  <2>3. CASE TxAcc(tx_dreq)
    <3>1. tx_state = "TX_ACC" /\ tx_state' \in {"TX_ACC", "TX_TUNE"}
      BY <2>3 DEF TxAcc, SendWord
    <3>2. Passed = 2 /\ Passed' \in {2, 4} /\ ~(tx_valid /\ tx_last)
      BY <1>2, <1>3, <1>4, <3>1
    <3>3. Passed' <= 4
      BY <3>2
    <3> QED BY <1>3, <1>4, <1>5, <1>7, <3>2, <3>3
  <2>4. CASE TxTune(tx_dreq)
    <3>1. tx_state = "TX_TUNE" /\ tx_state' \in {"TX_TUNE", "TX_PAD"}
      BY <2>4 DEF TxTune, SendWord
    <3>2. Passed = 4 /\ Passed' \in {4, 6} /\ ~(tx_valid /\ tx_last)
      BY <1>2, <1>3, <1>4, <3>1
    <3>3. Passed' <= 6
      BY <3>2
    <3> QED BY <1>3, <1>4, <1>5, <1>7, <3>2, <3>3
  <2>5. CASE TxPad(tx_dreq)
    <3>1. tx_state = "TX_PAD"
      BY <2>5 DEF TxPad
    <3>2. Passed = 6 /\ Passed' <= 8 /\ ~(tx_valid /\ tx_last)
      BY <1>2, <1>3, <1>4, <1>5, <3>1
    <3> QED BY <1>3, <1>4, <1>5, <1>7, <3>2
  <2> QED BY <1>1, <1>7, <2>1, <2>2, <2>3, <2>4, <2>5
<1>8. CASE ~TxSys
  BY <1>3, <1>4, <1>5, <1>6, <1>8
<1> QED BY <1>7, <1>8

LEMMA BacklogMoves ==
  ASSUME TypeInv, BlockUnderWay, Bounded, NEW tx_dreq \in BOOLEAN,
         NEW slave \in BOOLEAN, NEW get \in BOOLEAN, Step(tx_dreq, slave, get),
         slave_phase' = slave_phase,
         NEW p \in {0, 1}, NEW q \in {0, 1}, Joins(get, p, q)
  PROVE  /\ Backlog \in Int /\ Backlog' \in Int
         /\ Backlog + 8 * (p + q) <= Backlog'
         /\ now + MaxTransport + 8 * (p + q - 1) <= Backlog'
         /\ p = 1 => Backlog + 8 <= now + MaxTransport + 8 * MaxForeign
<1>1. /\ now \in Nat /\ MaxTransport \in Nat /\ foreign \in Nat
      /\ foreign <= MaxForeign /\ MaxForeign \in Nat
      /\ foreign' = foreign + q /\ q \in Nat /\ p \in Nat
      /\ p = 0 \/ p = 1
      /\ q = 0 \/ q = 1
      /\ p = 1 => TxSys /\ tx_valid /\ tx_last
  <2>1. now \in Nat
    BY DEF TypeInv, TimeTyped
  <2>2. /\ foreign' = foreign + q
        /\ p = 1 => TxSys /\ tx_valid /\ tx_last
    BY DEF Joins
  <2> QED BY <2>1, <2>2, Assumed DEF Bounded
<1>2. /\ Passed \in Nat /\ Passed' \in Nat /\ Passed' <= 8
      /\ ~TxSys => Passed' = Passed
      /\ TxSys => Passed' <= Passed + 2
      /\ p = 1 => Passed = 8 /\ Passed' = 0
  BY <1>1, PassedMoves
<1>3. /\ TxSys => TxEdge = now /\ TxEdge' = now + 2
      /\ ~TxSys => TxEdge = now + 1 /\ TxEdge' = now + 1
  BY EdgesMove
<1>4. /\ Backlog = TxEdge - Passed + MaxTransport + 8 * foreign
      /\ Backlog' = TxEdge' - Passed' + MaxTransport + 8 * (foreign + q)
  BY <1>1 DEF Backlog
<1>5. CASE p = 1
  <2>1. /\ Backlog = now - 8 + MaxTransport + 8 * foreign
        /\ Backlog' = now + 2 - 0 + MaxTransport + 8 * (foreign + q)
    BY <1>1, <1>2, <1>3, <1>4, <1>5
  <2> QED BY <1>1, <1>5, <2>1
<1>6. CASE p = 0 /\ TxSys
  <2>1. TxEdge = now /\ TxEdge' = now + 2
    BY <1>3, <1>6
  <2>2. Passed \in Nat /\ Passed' \in Nat /\ Passed' <= 8
        /\ Passed' <= Passed + 2
    BY <1>2, <1>6
  <2>3. PICK b \in Nat : b = Passed' /\ b <= 8 /\ b <= Passed + 2
    BY <2>2
  <2>4. PICK a \in Nat : a = Passed
    BY <2>2
  <2>5. Passed' = b /\ Passed = a /\ b <= a + 2 /\ b <= 8
    BY <2>3, <2>4
  <2>6. /\ Backlog = now - a + MaxTransport + 8 * foreign
        /\ Backlog' = now + 2 - b + MaxTransport + 8 * (foreign + q)
        /\ b <= a + 2 /\ b <= 8
    BY <1>1, <1>4, <2>1, <2>5
  <2>7. Backlog + 8 * (p + q) <= Backlog'
    BY <1>1, <1>6, <2>6
  <2>8. now + MaxTransport + 8 * (p + q - 1) <= Backlog'
    BY <1>1, <1>6, <2>6
  <2>9. Backlog \in Int /\ Backlog' \in Int
    BY <1>1, <2>6
  <2> QED BY <1>6, <2>7, <2>8, <2>9
<1>7. CASE p = 0 /\ ~TxSys
  <2>1. TxEdge = now + 1 /\ TxEdge' = now + 1 /\ Passed' = Passed
    BY <1>2, <1>3, <1>7
  <2>2. PICK a \in Nat : a = Passed /\ a <= 8
    BY <1>2, <2>1
  <2>3. Passed' = a /\ Passed = a
    BY <2>1, <2>2
  <2>4. /\ Backlog = now + 1 - a + MaxTransport + 8 * foreign
        /\ Backlog' = now + 1 - a + MaxTransport + 8 * (foreign + q)
    BY <1>1, <1>4, <2>1, <2>3
  <2> QED BY <1>1, <1>7, <2>2, <2>4
<1> QED BY <1>1, <1>5, <1>6, <1>7

(* Which of them are for the slave. *)
LEMMA OwnMoves ==
  ASSUME TypeInv, NEW tx_dreq \in BOOLEAN, NEW slave \in BOOLEAN,
         NEW get \in BOOLEAN, Step(tx_dreq, slave, get),
         NEW p \in {0, 1}, NEW q \in {0, 1}, Joins(get, p, q),
         NEW k \in Nat, k = Len(air) - Gone(get), NEW i \in Own'
  PROVE  /\ i \in Nat
         /\ \/ /\ i \in 1 .. k /\ i + Gone(get) \in Own
               /\ AirTime'[i] = AirTime[i + Gone(get)]
            \/ /\ i = k + 1 /\ i \in 1 .. Len(air') /\ p = 1
               /\ TxSys /\ tx_valid /\ tx_last
               /\ AirTime'[i] = BusyTime
<1> DEFINE g == Gone(get)
           n == Len(air)
<1>1. /\ g \in {0, 1} /\ g <= n /\ n \in Nat /\ DOMAIN air = 1 .. n
  BY AirGrows
<1>2. g \in Nat /\ p \in Nat /\ q \in Nat /\ n = k + g
  BY <1>1
<1>3. Joins(get, p, q) /\ Len(air) - Gone(get) = k
  OBVIOUS
<1>4. Len(air') = k + p + q /\ DOMAIN air' = 1 .. Len(air')
  BY <1>3 DEF Joins
<1>5. i \in DOMAIN air' /\ air'[i].words[3].clk_id = SlaveId
      /\ AirTime'[i] = TimeOf(air'[i].words[1].stamp)
  BY DEF Own, AirTime
<1>6. i \in 1 .. Len(air') /\ i \in Nat /\ i <= k + p + q /\ 1 <= i
  <2>1. PICK b \in Nat : b = k + p + q
    <3>1. k + p + q \in Nat
      BY <1>2
    <3> QED BY <3>1
  <2>2. i \in 1 .. b
    BY <1>4, <1>5, <2>1
  <2> QED BY <1>4, <2>1, <2>2
<1>7. CASE i <= k
  <2>1. i \in 1 .. k
    BY <1>6, <1>7
  <2>2. air'[i] = air[i + Gone(get)]
    BY <1>3, <2>1 DEF Joins
  <2>3. i + Gone(get) \in DOMAIN air
    <3>1. i + g \in 1 .. n
      <4> HIDE DEF g, n
      <4> QED BY <1>2, <1>6, <1>7
    <3> QED BY <1>1, <3>1
  <2>4. /\ i + Gone(get) \in Own
        /\ AirTime'[i] = AirTime[i + Gone(get)]
    BY <1>5, <2>2, <2>3 DEF Own, AirTime
  <2> QED BY <1>6, <2>1, <2>4
<1>8. CASE i = k + p + 1 /\ q = 1
  <2>1. air'[i].words = ForeignBlock
    <3>1. air'[k + p + 1] = [words |-> ForeignBlock,
                             due   |-> now + MaxTransport]
      BY <1>3, <1>8 DEF Joins
    <3> QED BY <1>8, <3>1
  <2>2. ForeignBlock[3].clk_id = ForeignId
    BY DEF ForeignBlock, Word
  <2> QED BY <1>5, <2>1, <2>2, Assumed
<1>9. CASE i = k + 1 /\ p = 1
  <2>1. air'[i].words = Sent /\ TxSys /\ tx_valid /\ tx_last
    <3>1. /\ air'[k + 1] = [words |-> Sent, due |-> now + MaxTransport]
          /\ TxSys /\ tx_valid /\ tx_last
      BY <1>3, <1>9 DEF Joins
    <3> QED BY <1>9, <3>1
  <2>2. AirTime'[i] = BusyTime
    BY <1>5, <2>1 DEF BusyTime
  <2> QED BY <1>6, <1>9, <2>1, <2>2
<1>10. i <= k \/ (i = k + p + 1 /\ q = 1) \/ (i = k + 1 /\ p = 1)
  <2>1. CASE i > k
    <3>1. p <= 1 /\ q <= 1
      OBVIOUS
    <3>2. \/ i = k + 1 /\ (p = 1 \/ (p = 0 /\ q = 1))
          \/ i = k + 2 /\ p = 1 /\ q = 1
      BY <1>2, <1>6, <2>1, <3>1, LastTwo
    <3> QED BY <3>2
  <2> QED BY <1>6, <2>1
<1> QED BY <1>7, <1>8, <1>9, <1>10

LEMMA OwnTimes ==
  ASSUME TypeInv
  PROVE  \A i \in Own : AirTime[i] \in Nat /\ i \in Nat /\ i \in DOMAIN air
<1> SUFFICES ASSUME NEW i \in Own
             PROVE  AirTime[i] \in Nat /\ i \in Nat /\ i \in DOMAIN air
  OBVIOUS
<1>1. i \in DOMAIN air /\ air \in Seq(KnownBlocks)
  BY DEF Own, TypeInv, ChannelTyped
<1>2. air[i] \in KnownBlocks /\ i \in Nat
  BY <1>1
<1> DEFINE K == Known
           w == air[i].words
<1>3. w \in Seq(K) \ {<<>>}
  BY <1>2 DEF KnownBlocks
<1> HIDE DEF K, w
<1>4. w[1] \in K
  BY <1>3
<1>5. TimeOf(w[1].stamp) \in Nat
  BY <1>4, TimeIsNat DEF K, Known, Words
<1> QED BY <1>1, <1>2, <1>5 DEF AirTime, w

LEMMA AirOrderStep ==
  ASSUME TypeInv, Pacing, Paced, Deliverable, BlockUnderWay, MasterOrder,
         AirOrder, NEW tx_dreq \in BOOLEAN, NEW slave \in BOOLEAN,
         NEW get \in BOOLEAN, Step(tx_dreq, slave, get)
  PROVE  AirOrder'
<1> DEFINE g == Gone(get)
           n == Len(air)
<1>1. /\ g \in {0, 1} /\ g <= n /\ n \in Nat
  BY AirGrows
<1>2. PICK p, q \in {0, 1} : Joins(get, p, q)
  BY AirGrows
<1>3. PICK k \in Nat : k = Len(air) - Gone(get)
  BY <1>1
<1>4. /\ NextTime \in Int /\ NextTime' \in Int /\ NextTime <= NextTime'
      /\ TxSys /\ tx_valid /\ tx_last =>
           BusyTime = NextTime /\ BusyTime + Period <= NextTime'
  BY NextTimeMoves
<1>5. Period \in Nat
  BY Assumed
<1>6. \A i \in Own : AirTime[i] \in Int /\ i \in Nat
  BY OwnTimes
<1> HIDE DEF g, n
<1>7. ASSUME NEW i \in Own'
      PROVE  AirTime'[i] + Period <= NextTime'
  <2>1. CASE i + Gone(get) \in Own /\ AirTime'[i] = AirTime[i + Gone(get)]
    <3>1. PICK t \in Int : t = AirTime'[i] /\ t + Period <= NextTime
      BY <1>6, <2>1 DEF AirOrder
    <3> QED BY <1>4, <1>5, <3>1
  <2>2. CASE TxSys /\ tx_valid /\ tx_last /\ AirTime'[i] = BusyTime
    BY <1>4, <2>2
  <2> QED BY <1>2, <1>3, <2>1, <2>2, OwnMoves
<1>8. ASSUME NEW i \in Own', NEW j \in Own', i < j
      PROVE  AirTime'[i] + Period <= AirTime'[j]
  <2>1. /\ i \in Nat
        /\ \/ /\ i \in 1 .. k /\ i + Gone(get) \in Own
              /\ AirTime'[i] = AirTime[i + Gone(get)]
           \/ i = k + 1
    BY <1>2, <1>3, OwnMoves
  <2>2. /\ j \in Nat
        /\ \/ /\ j \in 1 .. k /\ j + Gone(get) \in Own
              /\ AirTime'[j] = AirTime[j + Gone(get)]
           \/ /\ j = k + 1
              /\ TxSys /\ tx_valid /\ tx_last
              /\ AirTime'[j] = BusyTime
    BY <1>2, <1>3, OwnMoves
  <2>3. /\ i + Gone(get) \in Own /\ AirTime'[i] = AirTime[i + Gone(get)]
    BY <1>8, <2>1, <2>2
  <2>4. CASE j + Gone(get) \in Own /\ AirTime'[j] = AirTime[j + Gone(get)]
    <3>1. i + Gone(get) < j + Gone(get)
      <4>1. Gone(get) \in Nat
        BY <1>1 DEF g
      <4> QED BY <1>8, <2>1, <2>2, <4>1
    <3> QED BY <2>3, <2>4, <3>1 DEF AirOrder
  <2>5. CASE /\ TxSys /\ tx_valid /\ tx_last /\ AirTime'[j] = BusyTime
    BY <1>4, <2>3, <2>5 DEF AirOrder
  <2> QED BY <2>2, <2>4, <2>5
<1> QED BY <1>7, <1>8 DEF AirOrder

(* What comes in waits for what is before it, and no longer.               *)
LEMMA AirDueStep ==
  ASSUME TypeInv, Pacing, Paced, Deliverable, BlockUnderWay, BlocksInAir,
         Bounded, MasterOrder, MasterDue, AirDue,
         NEW tx_dreq \in BOOLEAN, NEW slave \in BOOLEAN,
         NEW get \in BOOLEAN, Step(tx_dreq, slave, get),
         slave_phase' = slave_phase
  PROVE  AirDue'
<1>1. /\ Gone(get) \in {0, 1} /\ Gone(get) <= Len(air) /\ Len(air) \in Nat
      /\ DOMAIN air = 1 .. Len(air)
  BY AirGrows
<1>2. PICK p, q \in {0, 1} : Joins(get, p, q)
  BY AirGrows
<1>3. PICK k \in Nat : k = Len(air) - Gone(get)
  BY <1>1
<1>4. MaxTransport \in Nat /\ MaxTransport >= 8
  BY Margins
<1>5. /\ \A i \in 1 .. k : \A e \in Ends'[i] :
           e \in Int /\ \E f \in Ends[i + Gone(get)] : f \in Int /\ e <= f
      /\ \A i \in k + 1 .. Len(air') : \A e \in Ends'[i] :
           /\ e \in Int
           /\ \/ e <= now + MaxTransport + 8 * (i - k - 1)
              \/ /\ Len(air) \in DOMAIN air
                 /\ \E f \in Ends[Len(air)] :
                      f \in Int /\ e <= f + 8 * (i - k)
  BY <1>2, <1>3, <1>4, EndsMove, SMTT(30)
<1>6. /\ Backlog \in Int /\ Backlog' \in Int
      /\ Backlog + 8 * (p + q) <= Backlog'
      /\ now + MaxTransport + 8 * (p + q - 1) <= Backlog'
      /\ p = 1 => Backlog + 8 <= now + MaxTransport + 8 * MaxForeign
  BY <1>2, BacklogMoves
<1>7. /\ Len(air') = k + p + q /\ DOMAIN air' = 1 .. Len(air')
      /\ p = 1 => TxSys /\ tx_valid /\ tx_last
  <2>1. Joins(get, p, q) /\ Len(air) - Gone(get) = k
    BY <1>2, <1>3
  <2> QED BY <2>1 DEF Joins
<1>8. now \in Nat /\ p \in Nat /\ q \in Nat /\ MaxForeign \in Nat
  BY Assumed DEF TypeInv, TimeTyped
<1>9. \A i \in DOMAIN air : \A e \in Ends[i] : e <= Backlog
  BY DEF AirDue
<1>10. \A i \in 1 .. k : i + Gone(get) \in DOMAIN air
  <2>1. Gone(get) \in Nat
    BY <1>1
  <2> QED BY <1>1, <1>3, <2>1
<1>11. ASSUME NEW i \in DOMAIN air', NEW e \in Ends'[i]
       PROVE  e <= Backlog'
  <2>1. i \in Nat /\ 1 <= i /\ i <= k + p + q
    BY <1>7, <1>8
  <2>2. CASE i <= k
    <3>1. i \in 1 .. k
      BY <2>1, <2>2
    <3>2. PICK f \in Ends[i + Gone(get)] : e \in Int /\ f \in Int /\ e <= f
      BY <1>5, <3>1
    <3>3. f <= Backlog
      BY <1>9, <1>10, <3>1, <3>2
    <3>4. Backlog <= Backlog'
      BY <1>6, <1>8
    <3> QED BY <1>6, <3>2, <3>3, <3>4
  <2>3. CASE i > k
    <3>1. i \in k + 1 .. Len(air')
      BY <1>7, <2>1, <2>3
    <3>2. e \in Int
      BY <1>5, <3>1
    <3>3. 8 * (i - k) <= 8 * (p + q) /\ 8 * (i - k) \in Int
          /\ 8 * (i - k - 1) <= 8 * (p + q - 1) /\ 8 * (i - k - 1) \in Int
      BY <1>8, <2>1
    <3>4. CASE e <= now + MaxTransport + 8 * (i - k - 1)
      BY <1>4, <1>6, <1>8, <3>2, <3>3, <3>4
    <3>5. CASE /\ Len(air) \in DOMAIN air
               /\ \E f \in Ends[Len(air)] : f \in Int /\ e <= f + 8 * (i - k)
      <4>1. PICK f \in Ends[Len(air)] : f \in Int /\ e <= f + 8 * (i - k)
        BY <3>5
      <4>2. f <= Backlog
        BY <1>9, <3>5, <4>1
      <4>3. e <= Backlog + 8 * (i - k)
        BY <1>6, <3>2, <3>3, <4>1, <4>2
      <4> QED BY <1>6, <1>8, <3>2, <3>3, <4>3
    <3> QED BY <1>5, <3>1, <3>4, <3>5
  <2> QED BY <2>1, <2>2, <2>3
<1>12. ASSUME NEW i \in Own', NEW e \in Ends'[i]
       PROVE  e <= AirTime'[i] + Arrives
  <2>1. CASE /\ i \in 1 .. k /\ i + Gone(get) \in Own
             /\ AirTime'[i] = AirTime[i + Gone(get)]
    <3>1. PICK f \in Ends[i + Gone(get)] : e \in Int /\ f \in Int /\ e <= f
      BY <1>5, <2>1
    <3>2. f <= AirTime[i + Gone(get)] + Arrives
      BY <2>1, <3>1 DEF AirDue
    <3>3. AirTime[i + Gone(get)] \in Nat /\ Arrives \in Nat
      BY <2>1, OwnTimes, Margins
    <3> QED BY <2>1, <3>1, <3>2, <3>3
  <2>2. CASE /\ i = k + 1 /\ i \in 1 .. Len(air') /\ p = 1
             /\ TxSys /\ tx_valid /\ tx_last /\ AirTime'[i] = BusyTime
    <3>1. TxEdge = now /\ now <= BusyTime + Leaves
      BY <2>2, EdgesMove DEF MasterDue
    <3>2. /\ BusyTime \in Int /\ Leaves \in Nat /\ Arrives \in Nat
          /\ Leaves = Arrives - MaxTransport - 8 * MaxForeign
      BY <2>2, NextTimeMoves, Margins
    <3>3. now + MaxTransport + 8 * MaxForeign <= AirTime'[i] + Arrives
      <4>1. PICK c \in Nat : c = 8 * MaxForeign
        BY <1>8
      <4>2. now + MaxTransport + c <= BusyTime + Arrives
        BY <1>4, <1>8, <3>1, <3>2, <4>1
      <4> QED BY <2>2, <4>1, <4>2
    <3>4. AirTime'[i] + Arrives \in Int
      BY <2>2, <3>2
    <3>5. i \in k + 1 .. Len(air') /\ i - k = 1
      BY <2>2
    <3>6. e \in Int
      BY <1>5, <3>5
    <3>7. CASE e <= now + MaxTransport + 8 * (i - k - 1)
      <4>1. e <= now + MaxTransport
        BY <1>4, <1>8, <2>2, <3>6, <3>7
      <4> QED BY <1>4, <1>8, <3>3, <3>4, <3>6, <4>1
    <3>8. CASE /\ Len(air) \in DOMAIN air
               /\ \E f \in Ends[Len(air)] : f \in Int /\ e <= f + 8 * (i - k)
      <4>1. PICK f \in Ends[Len(air)] : f \in Int /\ e <= f + 8 * (i - k)
        BY <3>8
      <4>2. f <= Backlog
        BY <1>9, <3>8, <4>1
      <4>3. e <= f + 8
        BY <3>5, <4>1
      <4>4. e <= now + MaxTransport + 8 * MaxForeign
        BY <1>4, <1>6, <1>8, <2>2, <3>6, <4>1, <4>2, <4>3
      <4> QED BY <1>4, <1>8, <3>3, <3>4, <3>6, <4>4
    <3> QED BY <1>5, <3>5, <3>7, <3>8
  <2> QED BY <1>2, <1>3, <2>1, <2>2, OwnMoves
<1> QED BY <1>11, <1>12 DEF AirDue

-----------------------------------------------------------------------------
(* The slave.  Which word of a block it gets. *)
LEMMA PositionMoves ==
  ASSUME TypeInv, BlocksInAir, NEW tx_dreq \in BOOLEAN, NEW slave \in BOOLEAN,
         NEW get \in BOOLEAN, Step(tx_dreq, slave, get)
  PROVE  /\ get => /\ RxSys /\ air # <<>> /\ Head(air) = air[1]
                   /\ 1 \in DOMAIN air /\ position \in 0 .. 3
                   /\ IsBlock(air[1].words)
         /\ position \in Nat
         /\ position' = IF ~get THEN position
                        ELSE IF position = 3 THEN 0 ELSE position + 1
         /\ Gone(get) = One(get /\ position = 3)
<1>1. /\ MayGet(get) /\ air \in Seq(KnownBlocks)
      /\ position' = IF ~get THEN position
                     ELSE IF WordsLeft = 1 THEN 0 ELSE position + 1
      /\ air = <<>> => position = 0
      /\ air # <<>> => position \in 0 .. Len(Head(air).words) - 1
  BY DEF Step, Channel, TypeInv, ChannelTyped
<1>2. air # <<>> => Head(air) = air[1] /\ 1 \in DOMAIN air
  BY <1>1
<1>3. air # <<>> => IsBlock(air[1].words) /\ Len(Head(air).words) = 4
  BY <1>2 DEF BlocksInAir, IsBlock
<1>4. air # <<>> => position \in 0 .. 3 /\ WordsLeft = 4 - position
  <2>1. \A n : n = 4 /\ position \in 0 .. n - 1 => position \in 0 .. 3
    OBVIOUS
  <2>2. air # <<>> => WordsLeft = 4 - position
    BY <1>3 DEF WordsLeft
  <2> QED BY <1>1, <1>3, <2>1, <2>2
<1>5. get => RxSys /\ air # <<>>
  BY <1>1 DEF MayGet
<1>6. get => (WordsLeft = 1 <=> position = 3)
  BY <1>4, <1>5
<1>7. position \in Nat
  BY <1>1, <1>4
<1>8. Gone(get) = One(get /\ position = 3)
  BY <1>6 DEF Gone, One, LastWord
<1> QED BY <1>1, <1>2, <1>3, <1>4, <1>5, <1>6, <1>7, <1>8

(* p_rx_fsm gets the tuning word of a block that is for the slave. *)
Accepts(get) ==
  RxSys /\ rx_state = "RX_TUNE" /\ get /\ position = 2 /\ 1 \in Own

LEMMA SampleComes ==
  ASSUME TypeInv, BlocksInAir, Switching, SwitchedOnce, Receiving, Settled,
         NEW tx_dreq \in BOOLEAN, NEW slave \in BOOLEAN,
         NEW get \in BOOLEAN, Step(tx_dreq, slave, get)
  PROVE  /\ rx_cnt' = IF Accepts(get) THEN Increment(rx_cnt) ELSE rx_cnt
         /\ Accepts(get) => ~new_sample_sys_rx
         /\ new_sample_sys_rx' <=> IF RxSys THEN Accepts(get) /\ ~fifo_full
                                   ELSE new_sample_sys_rx
         /\ new_sample_sys_rx' =>
              SysTime' = IF RxSys THEN AirTime[1] ELSE SysTime
<1>1. IF RxSys THEN RxSysEdge(slave, Got(get), position = 0)
      ELSE UNCHANGED rxSysVars
  BY DEF Step, Slave, Got
<1>2. /\ get => RxSys /\ air # <<>> /\ Head(air) = air[1]
                /\ 1 \in DOMAIN air
      /\ rx_state \in RxPathStates /\ new_sample_sys_rx \in BOOLEAN
      /\ cr_slave_o \in BOOLEAN /\ sample_sys \in KnownSamples
  BY PositionMoves DEF TypeInv, RxTyped
<1>3. new_sample_sys_rx \/ rx_state # "RX_WAIT_SAMPLE" => cr_slave_o
  BY DEF Settled, Switching
<1>4. new_sample_sys_rx => rx_state = "RX_WAIT_SAMPLE"
  BY DEF Receiving
<1>5. ~Accepts(get) \/ ~new_sample_sys_rx
  BY <1>4 DEF Accepts
<1>6. CASE ~RxSys \/ ~cr_slave_o
  <2>1. /\ rx_cnt' = rx_cnt /\ sample_sys' = sample_sys
        /\ new_sample_sys_rx' = new_sample_sys_rx
    BY <1>1, <1>6 DEF RxSysEdge, rxSysVars
  <2>2. ~Accepts(get) /\ (RxSys => ~new_sample_sys_rx)
    BY <1>3, <1>6 DEF Accepts
  <2>3. SysTime' = SysTime
    BY <2>1 DEF SysTime
  <2> QED BY <1>2, <2>1, <2>2, <2>3
<1>7. CASE RxSys /\ cr_slave_o
  <2>1. \/ RxWaitSample(Got(get), position = 0)
        \/ RxAcc(Got(get)) \/ RxTune(Got(get))
    BY <1>1, <1>7 DEF RxSysEdge
  <2>2. CASE RxWaitSample(Got(get), position = 0) \/ RxAcc(Got(get))
    <3>1. /\ rx_cnt' = rx_cnt /\ ~new_sample_sys_rx'
          /\ rx_state # "RX_TUNE"
      BY <1>4, <2>2 DEF RxWaitSample, RxAcc
    <3> QED BY <1>7, <3>1 DEF Accepts
  <2>3. CASE RxTune(Got(get))
    <3>1. /\ rx_state = "RX_TUNE" /\ position = 2 /\ ~new_sample_sys_rx
          /\ sample_sys.timestamp = Head(air).words[1]
      BY <1>4, <2>3 DEF RxTune, Receiving
    <3>2. CASE ~get
      <4>1. Got(get) = <<>>
        BY <3>2 DEF Got
      <4>2. rx_cnt' = rx_cnt /\ new_sample_sys_rx' = new_sample_sys_rx
        BY <2>3, <4>1 DEF RxTune
      <4> QED BY <1>7, <3>1, <3>2, <4>2 DEF Accepts
    <3>3. CASE get
      <4> DEFINE w == air[1].words[3]
      <4>1. Got(get) = <<w>>
        BY <1>2, <3>1, <3>3 DEF Got
      <4> HIDE DEF w
      <4>2. \A v : <<v>> # <<>> /\ <<v>>[1] = v
        OBVIOUS
      <4>3. Got(get) # <<>> /\ Got(get)[1] = w
        BY <4>1, <4>2
      <4>4. /\ sample_sys' = [sample_sys EXCEPT !.tune = w]
            /\ IF w.clk_id = SlaveId
                 THEN /\ rx_cnt' = Increment(rx_cnt)
                      /\ new_sample_sys_rx' = ~fifo_full
                 ELSE UNCHANGED <<rx_cnt, new_sample_sys_rx>>
        BY <2>3, <4>3 DEF RxTune
      <4>5. w.clk_id = SlaveId <=> Accepts(get)
        BY <1>2, <1>7, <3>1, <3>3 DEF Accepts, Own, w
      <4>6. SysTime' = AirTime[1]
        <5>1. sample_sys'.timestamp = sample_sys.timestamp
          BY <1>2, <4>4 DEF KnownSamples
        <5> QED BY <1>2, <3>1, <3>3, <5>1 DEF SysTime, AirTime
      <4> QED BY <1>7, <3>1, <4>4, <4>5, <4>6
    <3> QED BY <3>2, <3>3
  <2> QED BY <2>1, <2>2, <2>3
<1> QED BY <1>6, <1>7

(* What may still come is later, and after a sample that is taken over it  *)
(* is a period later. *)
LEMMA UpcomingMoves ==
  ASSUME TypeInv, Pacing, Paced, Deliverable, BlockUnderWay, BlocksInAir,
         MasterOrder, AirOrder, NEW tx_dreq \in BOOLEAN,
         NEW slave \in BOOLEAN, NEW get \in BOOLEAN, Step(tx_dreq, slave, get),
         NEW c \in Upcoming'
  PROVE  /\ c \in Int
         /\ \E d \in Upcoming : d \in Int /\ d <= c
         /\ Accepts(get) => AirTime[1] + Period <= c
<1>1. PICK p, q \in {0, 1} : Joins(get, p, q)
  BY AirGrows
<1>2. /\ Gone(get) \in {0, 1} /\ Gone(get) <= Len(air) /\ Len(air) \in Nat
  BY AirGrows
<1>3. PICK k \in Nat : k = Len(air) - Gone(get)
  BY <1>2
<1>4. /\ NextTime \in Int /\ NextTime' \in Int /\ NextTime <= NextTime'
      /\ TxSys /\ tx_valid /\ tx_last =>
           BusyTime = NextTime /\ BusyTime + Period <= NextTime'
  BY NextTimeMoves
<1>5. /\ position' = IF ~get THEN position
                     ELSE IF position = 3 THEN 0 ELSE position + 1
      /\ Gone(get) = One(get /\ position = 3)
      /\ position \in Nat
  BY PositionMoves
<1>6. Period \in Nat
  BY Assumed
<1>7. NextTime \in Upcoming
  BY DEF Upcoming
<1>8. Accepts(get) => /\ 1 \in Own /\ AirTime[1] \in Int /\ position = 2
                      /\ AirTime[1] + Period <= NextTime
                      /\ Gone(get) = 0 /\ position' = 3
  BY <1>5, OwnTimes DEF Accepts, AirOrder, One
<1>9. CASE c = NextTime'
  BY <1>4, <1>6, <1>7, <1>8, <1>9
<1>10. CASE c # NextTime'
  <2>1. PICK i \in Unread' : c = AirTime'[i]
    BY <1>10 DEF Upcoming
  <2>2. i \in Own' /\ (i > 1 \/ position' <= 2)
    BY <2>1 DEF Unread
  <2>3. /\ i \in Nat
        /\ \/ /\ i \in 1 .. k /\ i + Gone(get) \in Own
              /\ AirTime'[i] = AirTime[i + Gone(get)]
           \/ /\ i = k + 1 /\ TxSys /\ tx_valid /\ tx_last
              /\ AirTime'[i] = BusyTime
    BY <1>1, <1>3, <2>2, OwnMoves
  <2>4. CASE /\ TxSys /\ tx_valid /\ tx_last /\ AirTime'[i] = BusyTime
    <3>1. c = NextTime
      BY <1>4, <2>1, <2>4
    <3> QED BY <1>4, <1>7, <1>8, <3>1
  <2>5. CASE /\ i \in 1 .. k /\ i + Gone(get) \in Own
             /\ AirTime'[i] = AirTime[i + Gone(get)]
    <3>1. PICK m \in Own : m = i + Gone(get)
      BY <2>5
    <3>2. AirTime[m] \in Int /\ c = AirTime[m] /\ m \in Nat
      BY <2>1, <2>5, <3>1, OwnTimes
    <3>3. m > 1 \/ position <= 2
      <4>1. CASE Gone(get) = 1
        BY <2>3, <2>5, <3>1, <4>1
      <4>2. CASE Gone(get) = 0
        <5>1. m = i
          BY <2>3, <3>1, <4>2
        <5>2. position <= position'
          BY <1>5, <4>2 DEF One
        <5>3. position' \in Nat
          BY <1>5
        <5> QED BY <1>5, <2>2, <5>1, <5>2, <5>3
      <4> QED BY <1>2, <4>1, <4>2
    <3>4. c \in Upcoming
      BY <3>2, <3>3 DEF Upcoming, Unread
    <3>5. ASSUME Accepts(get) PROVE AirTime[1] + Period <= c
      <4>1. m = i /\ i > 1
        BY <1>8, <2>2, <2>3, <3>1, <3>5
      <4> QED BY <1>8, <3>2, <3>5, <4>1 DEF AirOrder
    <3> QED BY <3>2, <3>4, <3>5
  <2> QED BY <2>3, <2>4, <2>5
<1> QED BY <1>9, <1>10

(* How the times of what is in the FIFO move on. *)
LEMMA FifoTimesMove ==
  ASSUME TypeInv, NEW tx_dreq \in BOOLEAN, NEW slave \in BOOLEAN,
         NEW get \in BOOLEAN, Step(tx_dreq, slave, get)
  PROVE  /\ Len(fifo) \in Nat /\ DOMAIN fifo = 1 .. Len(fifo)
         /\ SysTime \in Nat /\ OutTime \in Nat
         /\ \A i \in DOMAIN fifo : FifoTime[i] \in Nat
         /\ Taken => Len(fifo) >= 1
         /\ OutTime' = IF Taken THEN FifoTime[1] ELSE OutTime
         /\ Len(fifo') = Len(fifo) - One(Taken) + One(Written)
         /\ DOMAIN fifo' = 1 .. Len(fifo')
         /\ \A i \in DOMAIN fifo' :
              \/ /\ i + One(Taken) \in DOMAIN fifo
                 /\ i <= Len(fifo) - One(Taken)
                 /\ FifoTime'[i] = FifoTime[i + One(Taken)]
                 /\ fifo'[i].wait = IF fifo[i + One(Taken)].wait > 0
                                    THEN fifo[i + One(Taken)].wait - 1 ELSE 0
              \/ /\ Written /\ i = Len(fifo) - One(Taken) + 1
                 /\ FifoTime'[i] = SysTime
                 /\ fifo'[i].wait \in 0 .. FifoLatency
<1> DEFINE n == Len(fifo)
           r == Len(Rest)
           t == One(Taken)
           w == One(Written)
<1>1. fifo \in Seq(Entries) /\ n \in Nat /\ r \in Nat /\ DOMAIN fifo = 1 .. n
  BY FifoMoves
<1>2. /\ Taken => n > 0 /\ r = n - 1 /\ fifo_out' = fifo[1].sample
      /\ ~Taken => r = n /\ Rest = fifo /\ fifo_out' = fifo_out
  BY FifoMoves
<1>3. Taken => \A i \in 1 .. r : Rest[i] = fifo[i + 1]
  BY FifoMoves
<1>4. Len(fifo') = r + w /\ DOMAIN fifo' = 1 .. Len(fifo')
  BY FifoMoves
<1>5. \A i \in 1 .. r : fifo'[i] = Aged(Rest[i])
  BY FifoMoves
<1>6. Written => /\ fifo'[r + 1].sample = sample_sys
                 /\ fifo'[r + 1].wait \in 0 .. FifoLatency
  BY FifoMoves
<1>7. /\ Taken => t = 1
      /\ ~Taken => t = 0
      /\ Written => w = 1
      /\ ~Written => w = 0
  BY DEF One
<1> HIDE DEF n, r, t, w
<1>8. /\ r = n - t /\ t \in Nat /\ w \in Nat
      /\ Len(fifo') = n - t + w
  BY <1>1, <1>2, <1>4, <1>7
<1>9. \A i \in DOMAIN fifo : fifo[i] \in Entries
  <2> DEFINE E == Entries
  <2>1. fifo \in Seq(E)
    BY <1>1
  <2> HIDE DEF E
  <2>2. \A i \in DOMAIN fifo : fifo[i] \in E
    BY <2>1
  <2> QED BY <2>2 DEF E
<1>10. ASSUME NEW s \in KnownSamples PROVE TimeOf(s.timestamp.stamp) \in Nat
  <2>1. s.timestamp \in Known
    BY DEF KnownSamples
  <2> QED BY <2>1, TimeIsNat DEF Known, Words
<1>11. SysTime \in Nat /\ OutTime \in Nat
  BY <1>10 DEF SysTime, OutTime, TypeInv, RxTyped, FifoTyped
<1>12. \A i \in DOMAIN fifo : FifoTime[i] \in Nat
  BY <1>9, <1>10 DEF FifoTime, Entries
<1>13. OutTime' = IF Taken THEN FifoTime[1] ELSE OutTime
  <2>1. Taken => 1 \in DOMAIN fifo
    BY <1>1, <1>2
  <2> QED BY <1>2, <2>1 DEF OutTime, FifoTime
<1>14. ASSUME NEW i \in 1 .. r
       PROVE  /\ i + t \in DOMAIN fifo /\ i <= r
              /\ FifoTime'[i] = FifoTime[i + t]
              /\ fifo'[i].wait = IF fifo[i + t].wait > 0
                                 THEN fifo[i + t].wait - 1 ELSE 0
  <2>1. i + t \in 1 .. n /\ i <= r /\ i + 0 = i
    BY <1>1, <1>8
  <2>2. Rest[i] = fifo[i + t]
    BY <1>2, <1>3, <1>7, <2>1
  <2>3. i \in DOMAIN fifo'
    BY <1>1, <1>4, <1>8
  <2> DEFINE e == fifo[i + t]
  <2>4. e \in Entries
    BY <1>1, <1>9, <2>1
  <2>5. fifo'[i] = Aged(e)
    BY <1>5, <2>2
  <2>6. /\ FifoTime'[i] = TimeOf(fifo'[i].sample.timestamp.stamp)
        /\ FifoTime[i + t] = TimeOf(e.sample.timestamp.stamp)
    BY <1>1, <2>1, <2>3 DEF FifoTime
  <2> HIDE DEF e
  <2>7. fifo'[i].sample = e.sample
        /\ fifo'[i].wait = IF e.wait > 0 THEN e.wait - 1 ELSE 0
    BY <2>4, <2>5 DEF Aged, Entries
  <2> QED BY <1>1, <2>1, <2>6, <2>7 DEF e
<1>15. ASSUME Written
       PROVE  /\ FifoTime'[r + 1] = SysTime
              /\ fifo'[r + 1].wait \in 0 .. FifoLatency
  <2>1. r + 1 \in DOMAIN fifo'
    <3>1. Len(fifo') = r + 1
      BY <1>4, <1>7, <1>15
    <3> QED BY <1>1, <1>4, <3>1
  <2> QED BY <1>6, <1>15, <2>1 DEF FifoTime, SysTime
<1>16. ASSUME NEW i \in DOMAIN fifo'
       PROVE  i \in 1 .. r \/ (Written /\ i = r + 1)
  <2>1. i \in 1 .. r + w
    BY <1>4
  <2> QED BY <1>1, <1>7, <2>1
<1>17. Taken => n >= 1
  BY <1>1, <1>2
<1>18. \A i \in DOMAIN fifo' :
         \/ /\ i + t \in DOMAIN fifo /\ i <= n - t
            /\ FifoTime'[i] = FifoTime[i + t]
            /\ fifo'[i].wait = IF fifo[i + t].wait > 0
                               THEN fifo[i + t].wait - 1 ELSE 0
         \/ /\ Written /\ i = n - t + 1
            /\ FifoTime'[i] = SysTime
            /\ fifo'[i].wait \in 0 .. FifoLatency
  BY <1>8, <1>14, <1>15, <1>16
<1> QED BY <1>1, <1>4, <1>8, <1>11, <1>12, <1>13, <1>17, <1>18 DEF n, t, w

LEMMA Multiples ==
  ASSUME NEW p \in Nat
  PROVE  \A a \in Nat : /\ a * p \in Nat /\ (a + 1) * p = a * p + p
                        /\ a >= 1 => p <= a * p
<1>1. \A a \in Nat : a * p \in Nat /\ (a + 1) * p = a * p + p
  OBVIOUS
<1>2. ASSUME NEW a \in Nat, a >= 1 PROVE p <= a * p
  <2>1. PICK b \in Nat : a = b + 1
    <3>1. a - 1 \in Nat /\ a = (a - 1) + 1
      BY <1>2
    <3> QED BY <3>1
  <2>2. b * p \in Nat /\ a * p = b * p + p
    BY <1>1, <2>1
  <2> QED BY <2>2
<1> QED BY <1>1, <1>2

(* The samples of the slave are a period apart, and from what may still    *)
(* come. *)
LEMMA SlaveOrderStep ==
  ASSUME TypeInv, Pacing, Paced, Deliverable, BlockUnderWay, BlocksInAir,
         MasterOrder, AirOrder, Switching, SwitchedOnce, Receiving, Reading,
         ComparesSample, NotSeenYet, Settled, SlaveOrder,
         NEW tx_dreq \in BOOLEAN, NEW slave \in BOOLEAN,
         NEW get \in BOOLEAN, Step(tx_dreq, slave, get)
  PROVE  SlaveOrder'
<1> DEFINE n == Len(fifo)
           t == One(Taken)
<1>1. Period \in Nat
  BY Assumed
<1>2. /\ n \in Nat /\ DOMAIN fifo = 1 .. n
      /\ SysTime \in Nat /\ OutTime \in Nat
      /\ \A i \in DOMAIN fifo : FifoTime[i] \in Nat
      /\ Taken => n >= 1
      /\ OutTime' = IF Taken THEN FifoTime[1] ELSE OutTime
  BY FifoTimesMove
<1>3. \A i \in DOMAIN fifo' :
        \/ /\ i + t \in DOMAIN fifo /\ i <= n - t
           /\ FifoTime'[i] = FifoTime[i + t]
        \/ Written /\ i = n - t + 1 /\ FifoTime'[i] = SysTime
  BY FifoTimesMove
<1>4. DOMAIN fifo' = 1 .. Len(fifo') /\ Len(fifo') = n - t + One(Written)
  BY FifoTimesMove
<1>5. t \in {0, 1} /\ t \in Nat /\ (t = 1 <=> Taken)
  BY DEF One
<1>6. \A i \in DOMAIN fifo' : i \in Nat /\ i >= 1
  BY <1>2, <1>4, <1>5 DEF One
<1>7. Written => new_sample_sys_rx /\ RxSys
  BY DEF Written
<1>8. AtOutput' => AtOutput \/ Taken
  <2>1. AtOutput' => AtOutput \/ drv_state = "DRV_READ_SAMPLE"
    BY OutputMoves
  <2> QED BY <2>1 DEF Reading, Taken
<1>9. Taken => ~AtOutput
  BY DEF Reading, Taken, AtOutput
<1> HIDE DEF n, t
<1>10. /\ new_sample_sys_rx' /\ RxSys => /\ Accepts(get)
                                         /\ ~new_sample_sys_rx
                                         /\ SysTime' = AirTime[1]
       /\ new_sample_sys_rx' /\ ~RxSys => /\ new_sample_sys_rx
                                          /\ SysTime' = SysTime
  BY SampleComes
<1>11. Accepts(get) => AirTime[1] \in Upcoming /\ AirTime[1] \in Nat
  BY OwnTimes DEF Accepts, Upcoming, Unread
<1>12. ASSUME NEW x \in Nat, \A d \in Upcoming : x + Period <= d,
              NEW c \in Upcoming'
       PROVE  x + Period <= c
  <2>1. PICK d \in Upcoming : d \in Int /\ d <= c
    BY UpcomingMoves
  <2>2. c \in Int
    BY UpcomingMoves
  <2> QED BY <1>1, <1>12, <2>1, <2>2
<1>13. ASSUME NEW x \in Nat, \A d \in Upcoming : x + Period <= d,
              new_sample_sys_rx' /\ RxSys
       PROVE  x + Period <= SysTime'
  BY <1>10, <1>11, <1>13
<1>14. ASSUME new_sample_sys_rx'
       PROVE  \A c \in Upcoming' : SysTime' + Period <= c
  <2>1. CASE RxSys
    BY <1>10, <1>14, <2>1, UpcomingMoves
  <2>2. CASE ~RxSys
    <3>1. \A d \in Upcoming : SysTime + Period <= d
      BY <1>10, <1>14, <2>2 DEF SlaveOrder
    <3> QED BY <1>2, <1>10, <1>12, <1>14, <2>2, <3>1
  <2> QED BY <2>1, <2>2
<1>15. ASSUME NEW i \in DOMAIN fifo'
       PROVE  /\ FifoTime'[i] \in Nat
              /\ \A d \in Upcoming : FifoTime'[i] + Period <= d
  BY <1>2, <1>3, <1>7 DEF SlaveOrder
<1>16. ASSUME NEW i \in DOMAIN fifo', new_sample_sys_rx'
       PROVE  FifoTime'[i] + Period <= SysTime'
  <2>1. CASE RxSys
    BY <1>13, <1>15, <1>16, <2>1
  <2>2. CASE ~RxSys
    <3>1. i + t \in DOMAIN fifo /\ FifoTime'[i] = FifoTime[i + t]
      BY <1>3, <1>7, <2>2
    <3> QED BY <1>10, <1>16, <2>2, <3>1 DEF SlaveOrder
  <2> QED BY <2>1, <2>2
<1>17. ASSUME NEW i \in DOMAIN fifo', NEW j \in DOMAIN fifo', i < j
       PROVE  FifoTime'[i] + (j - i) * Period <= FifoTime'[j]
  <2>1. i \in Nat /\ j \in Nat /\ i >= 1
    BY <1>6
  <2>2. i + t \in DOMAIN fifo /\ FifoTime'[i] = FifoTime[i + t]
        /\ i <= n - t
    BY <1>2, <1>3, <1>5, <1>17, <2>1
  <2>3. CASE /\ j + t \in DOMAIN fifo /\ FifoTime'[j] = FifoTime[j + t]
    <3>1. i + t < j + t /\ (j + t) - (i + t) = j - i
      BY <1>5, <1>17, <2>1
    <3>2. FifoTime[i + t] + ((j + t) - (i + t)) * Period <= FifoTime[j + t]
      BY <2>2, <2>3, <3>1 DEF SlaveOrder
    <3> QED BY <2>2, <2>3, <3>1, <3>2
  <2>4. CASE Written /\ j = n - t + 1 /\ FifoTime'[j] = SysTime
    <3>1. PICK a \in 1 .. n : a = i + t
      BY <1>2, <2>2
    <3>2. n \in DOMAIN fifo /\ FifoTime[n] \in Nat /\ FifoTime[a] \in Nat
      BY <1>2, <3>1
    <3>3. FifoTime[n] + Period <= SysTime
      BY <1>7, <2>4, <3>2 DEF SlaveOrder
    <3>4. (n - a) \in Nat /\ j - i = (n - a) + 1
      BY <1>2, <1>5, <2>1, <2>4, <3>1
    <3>5. FifoTime[a] + (n - a) * Period <= FifoTime[n]
      <4>1. CASE a = n
        <5>1. (n - a) * Period = 0
          BY <1>1, <1>2, <4>1
        <5> QED BY <3>2, <4>1, <5>1
      <4>2. CASE a < n
        BY <1>2, <3>1, <3>2, <4>2 DEF SlaveOrder
      <4> QED BY <1>2, <3>1, <4>1, <4>2
    <3>6. PICK b \in Nat : b = n - a
      BY <3>4
    <3>7. b * Period \in Nat /\ (b + 1) * Period = b * Period + Period
      BY <1>1, Multiples
    <3>8. FifoTime[a] + (b + 1) * Period <= SysTime
      <4>1. FifoTime[a] + b * Period <= FifoTime[n]
        BY <3>5, <3>6
      <4> QED BY <1>1, <1>2, <3>2, <3>3, <3>7, <4>1
    <3> QED BY <2>2, <2>4, <3>1, <3>4, <3>6, <3>8
  <2> QED BY <1>3, <2>3, <2>4
<1>18. ASSUME AtOutput'
       PROVE  /\ OutTime' \in Nat
              /\ \A d \in Upcoming : OutTime' + Period <= d
              /\ new_sample_sys_rx => OutTime' + Period <= SysTime
              /\ \A i \in DOMAIN fifo' : OutTime' + Period <= FifoTime'[i]
  <2>1. CASE Taken
    <3>1. OutTime' = FifoTime[1] /\ 1 \in DOMAIN fifo
      BY <1>2, <2>1
    <3>2. ASSUME NEW i \in DOMAIN fifo'
          PROVE  FifoTime[1] + Period <= FifoTime'[i]
      <4>1. CASE /\ i + t \in DOMAIN fifo /\ FifoTime'[i] = FifoTime[i + t]
        <5>1. i \in Nat /\ i >= 1 /\ i + t = i + 1 /\ 1 < i + t
          BY <1>5, <1>6, <2>1
        <5>2. PICK a \in DOMAIN fifo : a = i + 1 /\ FifoTime'[i] = FifoTime[a]
          BY <4>1, <5>1
        <5>3. FifoTime[1] + (a - 1) * Period <= FifoTime[a]
          BY <3>1, <5>1, <5>2 DEF SlaveOrder
        <5>4. a - 1 = i
          BY <5>1, <5>2
        <5>5. i * Period \in Nat /\ Period <= i * Period
          BY <1>1, <5>1, Multiples
        <5>6. FifoTime[1] + i * Period <= FifoTime[a]
          BY <5>3, <5>4
        <5>7. FifoTime[1] \in Nat /\ FifoTime[a] \in Nat
          BY <1>2, <3>1
        <5> QED BY <1>1, <5>2, <5>5, <5>6, <5>7
      <4>2. CASE Written /\ FifoTime'[i] = SysTime
        BY <1>7, <3>1, <4>2 DEF SlaveOrder
      <4> QED BY <1>3, <4>1, <4>2
    <3> QED BY <1>2, <3>1, <3>2 DEF SlaveOrder
  <2>2. CASE ~Taken
    <3>1. AtOutput /\ OutTime' = OutTime
      BY <1>2, <1>8, <1>18, <2>2
    <3>2. ASSUME NEW i \in DOMAIN fifo'
          PROVE  OutTime + Period <= FifoTime'[i]
      BY <1>3, <1>7, <3>1 DEF SlaveOrder
    <3> QED BY <1>2, <3>1, <3>2 DEF SlaveOrder
  <2> QED BY <2>1, <2>2
<1>19. ASSUME AtOutput', new_sample_sys_rx'
       PROVE  OutTime' + Period <= SysTime'
  BY <1>10, <1>13, <1>18, <1>19
<1> QED BY <1>12, <1>14, <1>15, <1>16, <1>17, <1>18, <1>19 DEF SlaveOrder

(* Slave mode is on when the first word of a block comes in. *)
LEMMA SettledStep ==
  ASSUME TypeInv, BlocksInAir, Switching, SwitchedOnce, Receiving, Bounded,
         Settled, NEW tx_dreq \in BOOLEAN, NEW slave \in BOOLEAN,
         NEW get \in BOOLEAN, Step(tx_dreq, slave, get),
         slave_phase' = slave_phase
  PROVE  Settled'
<1>1. /\ slave_sync'[1] = cr_slave_o /\ slave_sync'[2] = slave_sync[1]
      /\ cr_slave_o => cr_slave_o'
  BY SwitchingStep
<1>2. RxSys' <=> ~RxSys
  BY EdgesMove
<1>3. IF RxSys THEN RxSysEdge(slave, Got(get), position = 0)
      ELSE UNCHANGED rxSysVars
  BY DEF Step, Slave, Got
<1>4. cr_slave_o' /\ RxSys' => slave_sync'[1]
  <2>1. ~RxSys => cr_slave_o' = cr_slave_o
    BY <1>3 DEF rxSysVars
  <2> QED BY <1>1, <1>2, <2>1
<1>5. rx_state' # "RX_WAIT_SAMPLE" =>
        rx_state # "RX_WAIT_SAMPLE" \/ (RxSys /\ cr_slave_o)
  BY <1>3 DEF RxSysEdge, rxSysVars
<1>6. new_sample_sys_rx' => rx_state # "RX_WAIT_SAMPLE" \/ new_sample_sys_rx
  BY SampleComes DEF Accepts
<1>7. fifo' # <<>> => fifo # <<>> \/ new_sample_sys_rx
  <2>1. /\ Len(fifo) \in Nat /\ (Taken => Len(fifo) >= 1)
        /\ Len(fifo') = Len(fifo) - One(Taken) + One(Written)
    BY FifoTimesMove
  <2>2. Written => new_sample_sys_rx
    BY DEF Written
  <2>3. fifo = <<>> => Len(fifo) = 0
    OBVIOUS
  <2>4. fifo = <<>> /\ ~new_sample_sys_rx => Len(fifo') = 0
    BY <2>1, <2>2, <2>3 DEF One
  <2>5. Len(fifo') = 0 => fifo' = <<>>
    <3> DEFINE E == Entries'
    <3>1. fifo' \in Seq(E)
      BY FifoStep DEF FifoTyped, Entries
    <3> HIDE DEF E
    <3> QED BY <3>1
  <2> QED BY <2>4, <2>5
<1>8. slave_sync[2] => slave_sync[1]
  BY DEF Switching
<1>9. RxSys /\ cr_slave_o => slave_sync[1]
  BY DEF Settled
<1>10. rx_state # "RX_WAIT_SAMPLE" \/ new_sample_sys_rx \/ fifo # <<>>
         => slave_sync[1]
  BY <1>8 DEF Settled
<1> QED BY <1>1, <1>4, <1>5, <1>6, <1>7, <1>9, <1>10 DEF Settled

(* p_drive_fsm waits for a sample that is not there, and reads it when it  *)
(* is. *)
LEMMA DriveStatesMove ==
  ASSUME TypeInv, Switching, SwitchedOnce, Reading, ComparesSample,
         NotSeenYet, Settled, NEW tx_dreq \in BOOLEAN,
         NEW slave \in BOOLEAN, NEW get \in BOOLEAN, Step(tx_dreq, slave, get)
  PROVE  /\ drv_state' = "DRV_WAIT_SAMPLE" =>
              \/ drv_state = "DRV_WAIT_SAMPLE" /\ fifo_empty
              \/ AtOutput
         /\ drv_state' = "DRV_READ_SAMPLE" =>
              drv_state = "DRV_WAIT_SAMPLE" /\ ~fifo_empty
<1>1. /\ ~slave_mode_on => DrvOff
      /\ slave_mode_on => \/ DrvWaitSample \/ DrvReadSample
                          \/ DrvAdjust \/ DrvWaitTrigger
  BY DriveMoves
<1>2. drv_state \in DriveStates
  BY DEF TypeInv, DriveTyped
<1>3. CASE ~slave_mode_on
  <2>1. drv_state' = "DRV_WAIT_SAMPLE"
    BY <1>1, <1>3 DEF DrvOff
  <2>2. fifo_empty
    BY <1>3 DEF Settled, slave_mode_on, fifo_empty
  <2>3. drv_state = "DRV_WAIT_SAMPLE"
    BY <1>3 DEF Reading, slave_mode_on
  <2> QED BY <2>1, <2>2, <2>3
<1>4. CASE slave_mode_on
  <2>1. CASE DrvWaitSample
    BY <2>1 DEF DrvWaitSample
  <2>2. CASE DrvReadSample
    BY <2>2 DEF DrvReadSample
  <2>3. CASE DrvAdjust \/ DrvWaitTrigger
    <3>1. AtOutput /\ drv_state' # "DRV_READ_SAMPLE"
      BY <2>3 DEF DrvAdjust, DrvWaitTrigger, AtOutput
    <3> QED BY <3>1
  <2> QED BY <1>1, <1>4, <2>1, <2>2, <2>3
<1> QED BY <1>3, <1>4

LEMMA FirstEntry ==
  TypeInv => /\ fifo_empty <=> ~(1 \in DOMAIN fifo /\ fifo[1].wait = 0)
             /\ \A i \in DOMAIN fifo : fifo[i].wait \in 0 .. FifoLatency
<1> SUFFICES ASSUME TypeInv
             PROVE  /\ fifo_empty <=> ~(1 \in DOMAIN fifo /\ fifo[1].wait = 0)
                    /\ \A i \in DOMAIN fifo : fifo[i].wait \in 0 .. FifoLatency
  OBVIOUS
<1> DEFINE E == Entries
<1>1. fifo \in Seq(E)
  BY DEF TypeInv, FifoTyped, Entries
<1>2. \A e \in E : e.wait \in 0 .. FifoLatency
  BY DEF Entries
<1> HIDE DEF E
<1>3. \A i \in DOMAIN fifo : fifo[i] \in E
  BY <1>1
<1>4. /\ fifo # <<>> <=> 1 \in DOMAIN fifo
      /\ fifo # <<>> => Head(fifo) = fifo[1]
  BY <1>1
<1>5. \A i \in DOMAIN fifo : fifo[i].wait \in 0 .. FifoLatency
  BY <1>2, <1>3
<1>6. \A w \in 0 .. FifoLatency : w > 0 <=> w # 0
  BY Assumed
<1>7. fifo_empty <=> fifo = <<>> \/ fifo[1].wait > 0
  BY <1>4 DEF fifo_empty
<1> QED BY <1>4, <1>5, <1>6, <1>7

LEMMA FirstEntryNext ==
  TypeInv' => (fifo_empty <=> ~(1 \in DOMAIN fifo /\ fifo[1].wait = 0))'
<1>1. TypeInv => (fifo_empty <=> ~(1 \in DOMAIN fifo /\ fifo[1].wait = 0))
  BY FirstEntry
<1> QED BY <1>1, PTL

(* Each sample is taken over, written, visible and read in time.           *)
LEMMA SlaveDueStep ==
  ASSUME TypeInv, Pacing, Paced, Deliverable, BlocksInAir, Bounded, AirDue,
         Switching, SwitchedOnce, Receiving, Reading, ComparesSample,
         NotSeenYet, Settled, SlaveOrder, SlaveDue,
         NEW tx_dreq \in BOOLEAN, NEW slave \in BOOLEAN,
         NEW get \in BOOLEAN, Step(tx_dreq, slave, get),
         slave_phase' = slave_phase
  PROVE  SlaveDue'
<1> DEFINE n == Len(fifo)
           t == One(Taken)
<1>1. /\ n \in Nat /\ DOMAIN fifo = 1 .. n
      /\ SysTime \in Nat /\ OutTime \in Nat
      /\ \A i \in DOMAIN fifo : FifoTime[i] \in Nat
      /\ OutTime' = IF Taken THEN FifoTime[1] ELSE OutTime
  BY FifoTimesMove
<1>2. \A i \in DOMAIN fifo' :
        \/ /\ i + t \in DOMAIN fifo
           /\ FifoTime'[i] = FifoTime[i + t]
           /\ fifo'[i].wait = IF fifo[i + t].wait > 0
                              THEN fifo[i + t].wait - 1 ELSE 0
        \/ /\ Written /\ i = n - t + 1
           /\ FifoTime'[i] = SysTime
           /\ fifo'[i].wait \in 0 .. FifoLatency
  BY FifoTimesMove
<1>3. t \in {0, 1} /\ t \in Nat /\ (t = 1 <=> Taken)
  BY DEF One
<1>4. /\ Visible \in Nat /\ Arrives \in Nat /\ FifoLatency \in Nat
      /\ Arrives = Visible - FifoLatency - 1 /\ Visible = Delay - 5
      /\ Period \in Nat /\ Period >= 12 /\ Delay \in Nat
  BY Margins
<1>5. /\ now \in Nat /\ now' = now + 1
      /\ RxSys => RxEdge = now /\ RxEdge' = now + 2
      /\ ~RxSys => RxEdge = now + 1 /\ RxEdge' = now + 1
  BY EdgesMove
<1> HIDE DEF n, t
<1>6. ASSUME Written PROVE now + FifoLatency + 1 <= SysTime + Visible
  <2>1. new_sample_sys_rx /\ RxSys
    BY <1>6 DEF Written
  <2>2. now <= SysTime + Arrives
    BY <1>5, <2>1 DEF SlaveDue
  <2> QED BY <1>1, <1>4, <1>5, <2>2
<1>7. ASSUME new_sample_sys_rx' PROVE RxEdge' <= SysTime' + Arrives
  <2>1. CASE RxSys
    <3>1. Accepts(get) /\ SysTime' = AirTime[1]
      BY <1>7, <2>1, SampleComes
    <3>2. 1 \in Own /\ position = 2 /\ 1 \in DOMAIN air
      BY <3>1 DEF Accepts, Own
    <3>3. Last = now + 2
      <4>1. Last = now + 6 - 2 * 2
        BY <1>5, <2>1, <3>2 DEF Last
      <4> QED BY <1>5, <4>1
    <3>4. Last + 8 * (1 - 1) \in Ends[1]
      BY <3>2 DEF Ends
    <3>5. Last + 8 * (1 - 1) = now + 2
      BY <1>5, <3>3
    <3>6. now + 2 <= AirTime[1] + Arrives
      BY <3>2, <3>4, <3>5 DEF AirDue
    <3> QED BY <1>5, <2>1, <3>1, <3>6
  <2>2. CASE ~RxSys
    <3>1. new_sample_sys_rx /\ SysTime' = SysTime /\ RxEdge' = RxEdge
      BY <1>5, <1>7, <2>2, SampleComes
    <3> QED BY <3>1 DEF SlaveDue
  <2> QED BY <2>1, <2>2
<1>8. \A i \in DOMAIN fifo : fifo[i].wait \in 0 .. FifoLatency
  BY FirstEntry
<1>9. ASSUME NEW i \in DOMAIN fifo', fifo'[i].wait > 0
      PROVE  now' + fifo'[i].wait <= FifoTime'[i] + Visible
  <2>1. CASE /\ i + t \in DOMAIN fifo /\ FifoTime'[i] = FifoTime[i + t]
             /\ fifo'[i].wait = IF fifo[i + t].wait > 0
                                THEN fifo[i + t].wait - 1 ELSE 0
    <3>1. PICK m \in DOMAIN fifo : m = i + t
      BY <2>1
    <3>2. PICK w \in 0 .. FifoLatency : w = fifo[m].wait
      BY <1>8
    <3>3. w > 0 /\ fifo'[i].wait = w - 1
      BY <1>4, <1>9, <2>1, <3>1, <3>2
    <3>4. now + w <= FifoTime[m] + Visible
      BY <3>2, <3>3 DEF SlaveDue
    <3>5. now' + (w - 1) = now + w
      BY <1>4, <1>5, <3>2
    <3> QED BY <2>1, <3>1, <3>3, <3>4, <3>5
  <2>2. CASE /\ Written /\ FifoTime'[i] = SysTime
             /\ fifo'[i].wait \in 0 .. FifoLatency
    <3>1. PICK w \in 0 .. FifoLatency : w = fifo'[i].wait
      BY <2>2
    <3>2. now + FifoLatency + 1 <= SysTime + Visible
      BY <1>6, <2>2
    <3>3. now + 1 + w <= SysTime + Visible
      BY <1>1, <1>4, <1>5, <3>1, <3>2
    <3> QED BY <1>5, <2>2, <3>1, <3>3
  <2> QED BY <1>2, <2>1, <2>2
<1>10. fifo_empty' <=> ~(1 \in DOMAIN fifo' /\ fifo'[1].wait = 0)
  <2>1. TypeInv'
    BY StepKeepsTypes
  <2>2. TypeInv' =>
          (fifo_empty <=> ~(1 \in DOMAIN fifo /\ fifo[1].wait = 0))'
    BY FirstEntryNext
  <2> QED BY <2>1, <2>2
<1>11. Taken <=> drv_state = "DRV_READ_SAMPLE"
  BY DEF Reading, Taken
<1>12. ASSUME 1 \in DOMAIN fifo', fifo'[1].wait = 0, fifo_empty, ~Taken
       PROVE  now' <= FifoTime'[1] + Visible
  <2>1. CASE /\ 1 + t \in DOMAIN fifo /\ FifoTime'[1] = FifoTime[1 + t]
             /\ fifo'[1].wait = IF fifo[1 + t].wait > 0
                                THEN fifo[1 + t].wait - 1 ELSE 0
    <3>1. 1 + t = 1
      BY <1>3, <1>12
    <3>2. /\ 1 \in DOMAIN fifo /\ FifoTime'[1] = FifoTime[1]
          /\ fifo'[1].wait = IF fifo[1].wait > 0 THEN fifo[1].wait - 1 ELSE 0
      BY <2>1, <3>1
    <3>3. fifo[1].wait # 0
      BY <1>12, <3>2, FirstEntry
    <3>4. PICK w \in 0 .. FifoLatency : w = fifo[1].wait
      BY <1>8, <3>2
    <3>5. w = 1
      BY <1>4, <1>12, <3>2, <3>3, <3>4
    <3>6. now + 1 <= FifoTime[1] + Visible
      <4>1. fifo[1].wait = 1 /\ fifo[1].wait > 0
        BY <3>4, <3>5
      <4>2. now + fifo[1].wait <= FifoTime[1] + Visible
        BY <3>2, <4>1 DEF SlaveDue
      <4> QED BY <4>1, <4>2
    <3> QED BY <1>5, <3>2, <3>6
  <2>2. CASE Written /\ FifoTime'[1] = SysTime
    BY <1>1, <1>4, <1>5, <1>6, <2>2
  <2> QED BY <1>2, <1>12, <2>1, <2>2
<1>13. ASSUME drv_state' = "DRV_WAIT_SAMPLE", ~fifo_empty'
       PROVE  now' <= FifoTime'[1] + Visible
  <2>1. 1 \in DOMAIN fifo' /\ fifo'[1].wait = 0
    BY <1>10, <1>13
  <2>2. CASE drv_state = "DRV_WAIT_SAMPLE" /\ fifo_empty
    BY <1>11, <1>12, <2>1, <2>2
  <2>3. CASE AtOutput
    <3>1. ~AtOutput' /\ ~Taken
      BY <1>11, <1>13, <2>3 DEF AtOutput
    <3>2. Due = now - 3
      BY <2>3, <3>1, OutputMoves
    <3>3. OutTime + Delay = now - 3
      BY <3>2 DEF Due, OutTime
    <3>4. OutTime + Period <= FifoTime'[1] /\ FifoTime'[1] \in Nat
      BY <1>1, <1>2, <2>1, <2>3 DEF SlaveOrder, Written
    <3> QED BY <1>1, <1>4, <1>5, <3>3, <3>4
  <2> QED BY <1>13, <2>2, <2>3, DriveStatesMove
<1>14. ASSUME drv_state' = "DRV_READ_SAMPLE"
       PROVE  now' <= FifoTime'[1] + Visible + 1
  <2>1. drv_state = "DRV_WAIT_SAMPLE" /\ ~fifo_empty
    BY <1>14, DriveStatesMove
  <2>2. 1 \in DOMAIN fifo /\ now <= FifoTime[1] + Visible
    BY <2>1, FirstEntry DEF SlaveDue
  <2>3. t = 0 /\ 1 \in DOMAIN fifo'
    <3>1. t = 0
      BY <1>3, <1>11, <2>1
    <3>2. /\ DOMAIN fifo' = 1 .. Len(fifo')
          /\ Len(fifo') = n - t + One(Written)
      BY FifoTimesMove DEF n, t
    <3>3. One(Written) \in Nat
      BY DEF One
    <3> QED BY <1>1, <2>2, <3>1, <3>2, <3>3
  <2>4. FifoTime'[1] = FifoTime[1]
    BY <1>1, <1>2, <2>2, <2>3
  <2> QED BY <1>1, <1>4, <1>5, <2>2, <2>4
<1> QED BY <1>7, <1>9, <1>13, <1>14 DEF SlaveDue

(* The sample at the output is in the pipelines before its time, and       *)
(* leaves when the time has come. *)
LEMMA FilledStep ==
  ASSUME TypeInv, NoWrap, Paced, Deliverable, Switching, SwitchedOnce, Reading,
         AddersBehind, ComparesSample, NotSeenYet, Bounded, SlaveDue, Filled,
         NEW tx_dreq \in BOOLEAN, NEW slave \in BOOLEAN,
         NEW get \in BOOLEAN, Step(tx_dreq, slave, get)
  PROVE  Filled'
<1>1. now \in Nat /\ now' = now + 1
  BY DEF Step, TypeInv, TimeTyped
<1>2. /\ Due \in Nat
      /\ Adder[1] \in Nat /\ Adder[2] \in Nat
      /\ Adder[3] \in Nat /\ Adder[4] \in Nat
      /\ Adder'[1] = Due /\ Adder'[2] = Adder[1]
      /\ Adder'[3] = Adder[2] /\ Adder'[4] = Adder[3]
  BY StagesMove
<1>3. /\ cr_slave_o => (Equal(compare'.fields) <=> Adder[4] = now - 1)
      /\ compare'.equal <=> Equal(compare.fields)
      /\ compare'.stage1 <=> compare_enable
      /\ compare'.done <=> compare.stage1
  BY CompareMoves
<1>4. /\ ~slave_mode_on => DrvOff
      /\ slave_mode_on => \/ DrvWaitSample \/ DrvReadSample
                          \/ DrvAdjust \/ DrvWaitTrigger
  BY DriveMoves
<1>5. drv_state # "DRV_WAIT_SAMPLE" => slave_mode_on /\ cr_slave_o
  BY DEF Reading, Switching, slave_mode_on
<1>6. SUFFICES ASSUME AtOutput'
               PROVE  /\ \A stage \in Stages : \/ Adder'[stage] = Due'
                                               \/ now' <= Due' - 4 + stage
                      /\ now' <= Due' + 3
                      /\ now' = Due' + 2 => Equal(compare'.fields)
                      /\ now' = Due' + 3 => compare'.equal
                      /\ drv_state' = "DRV_ADJUST" =>
                           /\ now' <= Due' - 1
                           /\ ~compare'.done => now' <= Due' - 2
                           /\ ~compare'.done /\ ~compare'.stage1
                                => now' <= Due' - 3
  BY DEF Filled
<1>7. CASE AtOutput /\ Due' = Due
  <2>1. /\ Adder[1] = Due \/ now <= Due - 3
        /\ Adder[2] = Due \/ now <= Due - 2
        /\ Adder[3] = Due \/ now <= Due - 1
        /\ Adder[4] = Due \/ now <= Due
    <3>1. \A stage \in Stages : Adder[stage] = Due \/ now <= Due - 4 + stage
      BY <1>7 DEF Filled
    <3>2. 1 \in Stages /\ 2 \in Stages /\ 3 \in Stages /\ 4 \in Stages
      BY DEF Stages
    <3>3. /\ Adder[1] = Due \/ now <= Due - 4 + 1
          /\ Adder[2] = Due \/ now <= Due - 4 + 2
          /\ Adder[3] = Due \/ now <= Due - 4 + 3
          /\ Adder[4] = Due \/ now <= Due - 4 + 4
      BY <3>1, <3>2
    <3> QED BY <1>1, <1>2, <3>3
  <2>2. /\ now <= Due + 3
        /\ now = Due + 2 => Equal(compare.fields)
        /\ now = Due + 3 => compare.equal
        /\ drv_state = "DRV_ADJUST" =>
             /\ now <= Due - 1
             /\ ~compare.done => now <= Due - 2
             /\ ~compare.done /\ ~compare.stage1 => now <= Due - 3
    BY <1>7 DEF Filled
  <2>3. /\ drv_state = "DRV_WAIT_TRIGGER" => ~compare.equal
        /\ drv_state' = "DRV_ADJUST" => drv_state = "DRV_ADJUST"
                                        /\ ~compare.done
    <3>1. slave_mode_on /\ (DrvAdjust \/ DrvWaitTrigger)
      BY <1>4, <1>5, <1>7
      DEF AtOutput, DrvWaitSample, DrvReadSample
    <3> QED BY <1>6, <3>1 DEF DrvAdjust, DrvWaitTrigger, ts_hit, AtOutput
  <2>4. now # Due + 3
    BY <1>1, <1>2, <1>7, <2>2, <2>3 DEF AtOutput
  <2>5. now' <= Due + 3
    BY <1>1, <1>2, <2>2, <2>4
  <2>6. /\ Adder'[1] = Due
        /\ Adder'[2] = Due \/ now' <= Due - 2
        /\ Adder'[3] = Due \/ now' <= Due - 1
        /\ Adder'[4] = Due \/ now' <= Due
    BY <1>1, <1>2, <2>1
  <2>7. \A stage \in Stages : Adder'[stage] = Due \/ now' <= Due - 4 + stage
    <3> SUFFICES ASSUME NEW stage \in Stages
                 PROVE  Adder'[stage] = Due \/ now' <= Due - 4 + stage
      OBVIOUS
    <3>1. Due - 4 + 2 = Due - 2 /\ Due - 4 + 3 = Due - 1 /\ Due - 4 + 4 = Due
      BY <1>2
    <3>2. stage = 1 \/ stage = 2 \/ stage = 3 \/ stage = 4
      BY DEF Stages
    <3> QED BY <2>6, <3>1, <3>2
  <2>8. now' = Due + 2 => Equal(compare'.fields)
    <3>1. cr_slave_o
      BY <1>5, <1>7 DEF AtOutput
    <3>2. now' = Due + 2 => Adder[4] = now - 1
      BY <1>1, <1>2, <2>1
    <3> QED BY <1>3, <3>1, <3>2
  <2>9. now' = Due + 3 => compare'.equal
    <3>1. now' = Due + 3 => now = Due + 2
      BY <1>1, <1>2
    <3> QED BY <1>3, <2>2, <3>1
  <2>10. drv_state' = "DRV_ADJUST" =>
           /\ now' <= Due - 1
           /\ ~compare'.done => now' <= Due - 2
           /\ ~compare'.done /\ ~compare'.stage1 => now' <= Due - 3
    <3> SUFFICES ASSUME drv_state' = "DRV_ADJUST"
                 PROVE  /\ now' <= Due - 1
                        /\ ~compare'.done => now' <= Due - 2
                        /\ compare'.stage1
      OBVIOUS
    <3>1. compare'.stage1
      BY <1>3, <2>3 DEF NotSeenYet
    <3>2. now <= Due - 2 /\ (~compare'.done => now <= Due - 3)
      BY <1>3, <2>2, <2>3
    <3> QED BY <1>1, <1>2, <3>1, <3>2
  <2> QED BY <1>7, <2>5, <2>7, <2>8, <2>9, <2>10
<1>8. CASE ~AtOutput /\ drv_state = "DRV_READ_SAMPLE"
  <2>1. Taken
    BY <1>8 DEF Reading, Taken
  <2>2. OutTime' = FifoTime[1] /\ FifoTime[1] \in Nat
    <3>1. /\ Len(fifo) \in Nat /\ DOMAIN fifo = 1 .. Len(fifo)
          /\ Len(fifo) >= 1
      BY <2>1, FifoTimesMove
    <3>2. 1 \in DOMAIN fifo
      BY <3>1
    <3> QED BY <2>1, <3>2, FifoTimesMove
  <2>3. Due' = FifoTime[1] + Delay
    BY <2>2 DEF Due, OutTime
  <2>4. now <= FifoTime[1] + Visible + 1 /\ Visible = Delay - 5
        /\ Delay \in Nat
    BY <1>8, Margins DEF SlaveDue
  <2>5. PICK d \in Nat : d = Due'
    BY <2>2, <2>3, <2>4
  <2>6. now' <= d - 3
    BY <1>1, <2>2, <2>3, <2>4, <2>5
  <2>7. PICK x \in Nat : x = now'
    BY <1>1
  <2>8. \A stage \in Stages : x <= d - 4 + stage
    BY <2>6, <2>7 DEF Stages
  <2>9. x <= d + 3 /\ x # d + 2 /\ x # d + 3 /\ x <= d - 1 /\ x <= d - 2
        /\ x <= d - 3
    BY <2>6, <2>7
  <2> QED BY <2>5, <2>7, <2>8, <2>9
<1> QED BY <1>6, <1>7, <1>8, OutputMoves

-----------------------------------------------------------------------------
(* Counters that wrap count modulo their size. *)
LEMMA Division ==
  ASSUME NEW m \in Nat \ {0}, NEW n \in Nat
  PROVE  /\ n \div m \in Nat /\ n % m \in 0 .. m - 1
         /\ n = m * (n \div m) + (n % m)
OBVIOUS

LEMMA ModIs ==
  ASSUME NEW m \in Nat \ {0}, NEW q \in Nat, NEW r \in 0 .. m - 1
  PROVE  (m * q + r) % m = r
OBVIOUS

LEMMA ModAgain ==
  ASSUME NEW m \in Nat \ {0}, NEW n \in Nat
  PROVE  (n + m) % m = n % m
<1>1. PICK q \in Nat, r \in 0 .. m - 1 : n = m * q + r
  BY Division
<1>2. n % m = r
  BY <1>1, ModIs
<1>3. m * (q + 1) = m * q + m /\ q + 1 \in Nat
  OBVIOUS
<1>4. n + m = m * (q + 1) + r
  BY <1>1, <1>3
<1>5. (m * (q + 1) + r) % m = r
  BY <1>3, ModIs
<1> QED BY <1>2, <1>4, <1>5

LEMMA ModNext ==
  ASSUME NEW m \in Nat \ {0}, NEW n \in Nat
  PROVE  (n + 1) % m = ((n % m) + 1) % m
<1>1. PICK q \in Nat, r \in 0 .. m - 1 : n = m * q + r
  BY Division
<1>2. n % m = r
  BY <1>1, ModIs
<1>3. CASE r + 1 < m
  <2>1. n + 1 = m * q + (r + 1) /\ r + 1 \in 0 .. m - 1
    BY <1>1, <1>3
  <2>2. (m * q + (r + 1)) % m = r + 1
    BY <2>1, ModIs
  <2>3. (r + 1) % m = r + 1
    BY <1>3
  <2> QED BY <1>2, <2>1, <2>2, <2>3
<1>4. CASE r + 1 = m
  <2>1. m * (q + 1) = m * q + m /\ q + 1 \in Nat /\ 0 \in 0 .. m - 1
    OBVIOUS
  <2>2. n + 1 = m * (q + 1) + 0
    BY <1>1, <1>4, <2>1
  <2>3. (m * (q + 1) + 0) % m = 0
    BY <2>1, ModIs
  <2>4. m % m = 0
    OBVIOUS
  <2> QED BY <1>2, <1>4, <2>2, <2>3, <2>4
<1> QED BY <1>3, <1>4

LEMMA TimesTyped ==
  ASSUME TypeInv
  PROVE  /\ Len(fifo) \in Nat /\ DOMAIN fifo = 1 .. Len(fifo)
         /\ \A i \in DOMAIN fifo : FifoTime[i] \in Nat
         /\ OutTime \in Nat
         /\ SysTime \in Nat /\ SysTime < now
<1> DEFINE E == Entries
<1>1. fifo \in Seq(E)
  BY DEF TypeInv, FifoTyped, Entries
<1>2. ASSUME NEW s \in KnownSamples
      PROVE  /\ TimeOf(s.timestamp.stamp) \in Nat
             /\ TimeOf(s.timestamp.stamp) < now
  <2>1. s.timestamp \in Known
    BY DEF KnownSamples
  <2> QED BY <2>1, TimeIsNat DEF Known, Words
<1>3. \A e \in E : TimeOf(e.sample.timestamp.stamp) \in Nat
  BY <1>2 DEF Entries
<1> HIDE DEF E
<1>4. /\ Len(fifo) \in Nat /\ DOMAIN fifo = 1 .. Len(fifo)
      /\ \A i \in DOMAIN fifo : fifo[i] \in E
  BY <1>1
<1>5. \A i \in DOMAIN fifo : FifoTime[i] \in Nat
  BY <1>3, <1>4 DEF FifoTime
<1> QED BY <1>2, <1>4, <1>5 DEF OutTime, SysTime, TypeInv, RxTyped, FifoTyped

(* What is in the FIFO was taken less than the delay ago. *)
LEMMA FirstFresh ==
  ASSUME TypeInv, Paced, Deliverable, SlaveOrder, SlaveDue, Filled,
         1 \in DOMAIN fifo
  PROVE  now <= FifoTime[1] + Delay - 4
<1>1. /\ Visible = Delay - 5 /\ Delay \in Nat /\ Period \in Nat
      /\ Period >= 12
  BY Margins
<1>2. now \in Nat /\ FifoTime[1] \in Nat /\ OutTime \in Nat
  BY TimesTyped DEF TypeInv, TimeTyped
<1>3. fifo[1].wait \in 0 .. FifoLatency
  BY FirstEntry
<1>4. drv_state \in DriveStates
  BY DEF TypeInv, DriveTyped
<1>5. CASE fifo[1].wait > 0
  <2>1. now + fifo[1].wait <= FifoTime[1] + Visible
    BY <1>5 DEF SlaveDue
  <2>2. PICK w \in Nat : w = fifo[1].wait
    BY <1>3, Assumed
  <2>3. now + w <= FifoTime[1] + Visible
    BY <2>1, <2>2
  <2> QED BY <1>1, <1>2, <2>3
<1>6. CASE fifo[1].wait = 0
  <2>1. ~fifo_empty
    BY <1>6, FirstEntry
  <2>2. CASE drv_state = "DRV_WAIT_SAMPLE"
    <3>1. now <= FifoTime[1] + Visible
      BY <2>1, <2>2 DEF SlaveDue
    <3> QED BY <1>1, <1>2, <3>1
  <2>3. CASE drv_state = "DRV_READ_SAMPLE"
    <3>1. now <= FifoTime[1] + Visible + 1
      BY <2>3 DEF SlaveDue
    <3> QED BY <1>1, <1>2, <3>1
  <2>4. CASE AtOutput
    <3>1. now <= Due + 3 /\ OutTime + Period <= FifoTime[1]
      BY <2>4 DEF Filled, SlaveOrder
    <3>2. Due = OutTime + Delay
      BY DEF Due, OutTime
    <3> QED BY <1>1, <1>2, <3>1, <3>2
  <2> QED BY <1>4, <2>2, <2>3, <2>4 DEF DriveStates, AtOutput
<1>7. \A w \in 0 .. FifoLatency : w > 0 \/ w = 0
  BY Assumed
<1> QED BY <1>3, <1>5, <1>6, <1>7

(* So it has room for a sample that comes a period after them. *)
LEMMA HasRoom ==
  ASSUME TypeInv, Paced, Deliverable, Roomy, SlaveOrder, SlaveDue, Filled,
         NEW x \in Nat, x < now, \A i \in DOMAIN fifo : FifoTime[i] + Period <= x
  PROVE  ~fifo_full
<1> DEFINE n == Len(fifo)
<1>1. n \in Nat /\ DOMAIN fifo = 1 .. n
  BY TimesTyped
<1>2. /\ \A i \in DOMAIN fifo : FifoTime[i] \in Nat
      /\ now \in Nat
  BY TimesTyped DEF TypeInv, TimeTyped
<1>3. Period \in Nat /\ Delay \in Nat /\ FifoSize \in Nat \ {0}
  BY Assumed
<1> HIDE DEF n
<1>4. CASE n = 0
  BY <1>3, <1>4 DEF fifo_full, n
<1>5. CASE n >= 1
  <2>1. 1 \in DOMAIN fifo /\ n \in DOMAIN fifo
    BY <1>1, <1>5
  <2>2. now <= FifoTime[1] + Delay - 4
    BY <2>1, FirstFresh
  <2>3. PICK b \in Nat : n = b + 1
    <3>1. n - 1 \in Nat /\ n = (n - 1) + 1
      BY <1>1, <1>5
    <3> QED BY <3>1
  <2>4. b * Period \in Nat /\ (b + 1) * Period = b * Period + Period
    BY <1>3, Multiples
  <2>5. FifoTime[1] + b * Period <= FifoTime[n]
    <3>1. CASE b = 0
      <4>1. b * Period = 0 /\ n = 1
        BY <1>3, <2>3, <3>1
      <4> QED BY <1>2, <2>1, <4>1
    <3>2. CASE b # 0
      <4>1. 1 < n /\ n - 1 = b
        BY <2>3, <3>2
      <4> QED BY <2>1, <4>1 DEF SlaveOrder
    <3> QED BY <3>1, <3>2
  <2>6. FifoTime[n] + Period <= x
    BY <2>1
  <2>7. PICK first \in Nat, last \in Nat :
          first = FifoTime[1] /\ last = FifoTime[n]
    BY <1>2, <2>1
  <2>8. first + (b + 1) * Period <= x
    BY <1>3, <2>4, <2>5, <2>6, <2>7
  <2>9. (b + 1) * Period < Delay
    BY <1>2, <1>3, <2>2, <2>4, <2>7, <2>8
  <2>10. n < FifoSize
    <3> SUFFICES ASSUME n >= FifoSize PROVE FALSE
      BY <1>1, <1>3
    <3>1. PICK c \in Nat : n = FifoSize + c
      <4>1. n - FifoSize \in Nat /\ n = FifoSize + (n - FifoSize)
        BY <1>1, <1>3
      <4> QED BY <4>1
    <3>2. /\ (FifoSize + c) * Period = FifoSize * Period + c * Period
          /\ c * Period \in Nat /\ FifoSize * Period \in Nat
      BY <1>3
    <3>3. (FifoSize + c) * Period < Delay
      BY <2>3, <2>9, <3>1
    <3> QED BY <1>3, <3>2, <3>3 DEF Roomy
  <2> QED BY <1>1, <1>3, <2>10 DEF fifo_full, n
<1> QED BY <1>1, <1>4, <1>5

-----------------------------------------------------------------------------
(* What leaves the FIFO comes to its output, and what leaves the output is *)
(* a hit. *)
LEMMA HitsMove ==
  ASSUME TypeInv, Switching, SwitchedOnce, Reading, ComparesSample, NotSeenYet,
         Counted, NEW tx_dreq \in BOOLEAN, NEW slave \in BOOLEAN,
         NEW get \in BOOLEAN, Step(tx_dreq, slave, get)
  PROVE  /\ Taken <=> ~AtOutput /\ AtOutput'
         /\ AtOutput /\ ~AtOutput' => hit_cnt' = Increment(hit_cnt)
         /\ ~(AtOutput /\ ~AtOutput') => hit_cnt' = hit_cnt
<1>1. Taken <=> drv_state = "DRV_READ_SAMPLE"
  BY DEF Taken, Reading
<1>2. /\ ~slave_mode_on => DrvOff
      /\ slave_mode_on => \/ DrvWaitSample \/ DrvReadSample
                          \/ DrvAdjust \/ DrvWaitTrigger
  BY DriveMoves
<1>3. drv_state \in DriveStates
  BY DEF TypeInv, DriveTyped
<1>4. CASE ~slave_mode_on
  <2>1. drv_state = "DRV_WAIT_SAMPLE" /\ hit_cnt = 0
    BY <1>4 DEF slave_mode_on, Reading, Counted
  <2>2. drv_state' = "DRV_WAIT_SAMPLE" /\ hit_cnt' = 0
    BY <1>2, <1>4 DEF DrvOff
  <2> QED BY <1>1, <2>1, <2>2 DEF AtOutput
<1>5. CASE drv_state = "DRV_WAIT_SAMPLE" /\ slave_mode_on
  <2>1. DrvWaitSample
    BY <1>2, <1>5 DEF DrvReadSample, DrvAdjust, DrvWaitTrigger
  <2>2. /\ drv_state' \in {"DRV_WAIT_SAMPLE", "DRV_READ_SAMPLE"}
        /\ hit_cnt' = hit_cnt
    BY <1>5, <2>1 DEF DrvWaitSample
  <2> QED BY <1>1, <1>5, <2>2 DEF AtOutput
<1>6. CASE drv_state = "DRV_READ_SAMPLE" /\ slave_mode_on
  <2>1. DrvReadSample
    BY <1>2, <1>6 DEF DrvWaitSample, DrvAdjust, DrvWaitTrigger
  <2>2. drv_state' = "DRV_ADJUST" /\ hit_cnt' = hit_cnt
    BY <2>1 DEF DrvReadSample
  <2> QED BY <1>1, <1>6, <2>2 DEF AtOutput
<1>7. CASE drv_state = "DRV_ADJUST" /\ slave_mode_on
  <2>1. DrvAdjust
    BY <1>2, <1>7 DEF DrvWaitSample, DrvReadSample, DrvWaitTrigger
  <2>2. ~ts_miss
    BY <1>7 DEF NotSeenYet, ts_miss
  <2>3. /\ drv_state' \in {"DRV_ADJUST", "DRV_WAIT_TRIGGER"}
        /\ hit_cnt' = hit_cnt
    BY <1>7, <2>1, <2>2 DEF DrvAdjust
  <2> QED BY <1>1, <1>7, <2>3 DEF AtOutput
<1>8. CASE drv_state = "DRV_WAIT_TRIGGER" /\ slave_mode_on
  <2>1. DrvWaitTrigger
    BY <1>2, <1>8 DEF DrvWaitSample, DrvReadSample, DrvAdjust
  <2>2. IF ts_hit
          THEN drv_state' = "DRV_WAIT_SAMPLE" /\ hit_cnt' = Increment(hit_cnt)
          ELSE drv_state' = drv_state /\ hit_cnt' = hit_cnt
    BY <2>1 DEF DrvWaitTrigger
  <2> QED BY <1>1, <1>8, <2>2 DEF AtOutput
<1> QED BY <1>3, <1>4, <1>5, <1>6, <1>7, <1>8 DEF DriveStates

(* The FIFO has room whenever a sample comes or is written. *)
LEMMA NeverFull ==
  ASSUME TypeInv, Paced, Deliverable, Roomy, AirOrder, SlaveOrder, SlaveDue,
         Filled, NEW get \in BOOLEAN, new_sample_sys_rx \/ Accepts(get)
  PROVE  ~fifo_full
<1>1. CASE new_sample_sys_rx
  <2> DEFINE x == SysTime
  <2>1. x \in Nat /\ x < now
    <3>1. sample_sys \in KnownSamples
      BY DEF TypeInv, RxTyped
    <3>2. sample_sys.timestamp \in Known
      BY <3>1 DEF KnownSamples
    <3>3. sample_sys.timestamp.stamp \in Normal /\ x < now
      BY <3>2 DEF Known, Words, SysTime
    <3> QED BY <3>3, TimeIsNat DEF SysTime
  <2>2. \A i \in DOMAIN fifo : FifoTime[i] + Period <= x
    BY <1>1 DEF SlaveOrder
  <2> HIDE DEF x
  <2> QED BY <2>1, <2>2, HasRoom
<1>2. CASE Accepts(get)
  <2> DEFINE x == AirTime[1]
  <2>1. 1 \in Own /\ position = 2
    BY <1>2 DEF Accepts
  <2>2. x \in Nat
    BY <2>1, OwnTimes
  <2>3. x < now
    <3>1. 1 \in DOMAIN air /\ air \in Seq(KnownBlocks)
      BY <2>1 DEF Own, TypeInv, ChannelTyped
    <3>2. air[1] \in KnownBlocks
      BY <3>1
    <3> DEFINE ws == air[1].words
    <3>3. ws \in Seq(Known) /\ ws # <<>>
      BY <3>2 DEF KnownBlocks
    <3> HIDE DEF ws
    <3>4. ws[1] \in Known
      BY <3>3
    <3>5. x = TimeOf(ws[1].stamp)
      BY <3>1 DEF AirTime, ws
    <3> QED BY <3>4, <3>5 DEF Known
  <2>4. x \in Upcoming
    <3>1. 1 \in Unread
      BY <2>1 DEF Unread
    <3> QED BY <3>1 DEF Upcoming
  <2>5. \A i \in DOMAIN fifo : FifoTime[i] + Period <= x
    BY <2>4 DEF SlaveOrder
  <2> HIDE DEF x
  <2> QED BY <2>2, <2>3, <2>5, HasRoom
<1> QED BY <1>1, <1>2

LEMMA ModOnto ==
  ASSUME NEW m \in Nat \ {0}, NEW n \in 0 .. m, NEW r \in Nat
  PROVE  ((n % m) + r) % m = (n + r) % m
<1>1. CASE n < m
  <2>1. n % m = n
    BY <1>1
  <2> QED BY <2>1
<1>2. CASE n = m
  <2>1. n % m = 0
    BY <1>2
  <2>2. (r + m) % m = r % m
    BY ModAgain
  <2>3. n + r = r + m /\ 0 + r = r
    BY <1>2
  <2> QED BY <2>1, <2>2, <2>3
<1> QED BY <1>1, <1>2

LEMMA CountedStep ==
  ASSUME TypeInv, Paced, Deliverable, Roomy, BlocksInAir, Switching,
         SwitchedOnce, Receiving, Reading, ComparesSample, NotSeenYet,
         AirOrder, Settled, SlaveOrder, SlaveDue, Filled, Counted,
         NEW tx_dreq \in BOOLEAN, NEW slave \in BOOLEAN,
         NEW get \in BOOLEAN, Step(tx_dreq, slave, get)
  PROVE  Counted'
<1> DEFINE C == CounterSize
           t == One(Taken)
           w == One(new_sample_sys_rx)
           a == One(Accepts(get))
           o == One(AtOutput)
           x == One(AtOutput /\ ~AtOutput')
           n == Len(fifo)
<1>1. /\ rx_cnt' = IF Accepts(get) THEN Increment(rx_cnt) ELSE rx_cnt
      /\ new_sample_sys_rx' <=> IF RxSys THEN Accepts(get) /\ ~fifo_full
                                ELSE new_sample_sys_rx
  BY SampleComes
<1>2. new_sample_sys_rx \/ Accepts(get) => ~fifo_full
  BY NeverFull
<1>3. /\ n \in Nat /\ (Taken => n >= 1)
      /\ Len(fifo') = n - t + One(Written)
  BY FifoTimesMove
<1>4. Written <=> RxSys /\ new_sample_sys_rx
  BY <1>2 DEF Written
<1>5. Len(fifo') + One(new_sample_sys_rx') = ((n - t) + w) + a
  <2>1. CASE RxSys
    <3>1. One(new_sample_sys_rx') = a
      BY <1>1, <1>2, <2>1 DEF One
    <3>2. One(Written) = w
      BY <1>4, <2>1 DEF One
    <3>3. t \in {0, 1} /\ w \in {0, 1} /\ a \in {0, 1}
      BY DEF One
    <3> HIDE DEF t, w, a, n
    <3> QED BY <1>3, <3>1, <3>2, <3>3
  <2>2. CASE ~RxSys
    <3>1. a = 0
      BY <2>2 DEF Accepts, One
    <3>2. One(new_sample_sys_rx') = w
      BY <1>1, <2>2 DEF One
    <3>3. One(Written) = 0
      BY <1>4, <2>2 DEF One
    <3>4. t \in {0, 1} /\ w \in {0, 1}
      BY DEF One
    <3> HIDE DEF t, w, a, n
    <3> QED BY <1>3, <3>1, <3>2, <3>3, <3>4
  <2> QED BY <2>1, <2>2
<1>6. /\ Taken <=> ~AtOutput /\ AtOutput'
      /\ AtOutput /\ ~AtOutput' => hit_cnt' = Increment(hit_cnt)
      /\ ~(AtOutput /\ ~AtOutput') => hit_cnt' = hit_cnt
  BY HitsMove
<1>7. One(AtOutput') = (o + t) - x
  BY <1>6 DEF One
<1>8. hit_cnt' = IF x = 1 THEN (hit_cnt + 1) % C ELSE hit_cnt
  BY <1>6 DEF One, Increment
<1>9. rx_cnt' = IF a = 1 THEN (rx_cnt + 1) % C ELSE rx_cnt
  BY <1>1 DEF One, Increment
<1>10. /\ C \in Nat \ {0} /\ hit_cnt \in 0 .. C - 1 /\ rx_cnt \in 0 .. C - 1
  BY Assumed DEF TypeInv, DriveTyped, RxTyped
<1>11. /\ t \in {0, 1} /\ w \in {0, 1} /\ a \in {0, 1} /\ o \in {0, 1}
       /\ x \in {0, 1} /\ x <= o /\ (t = 1 => n >= 1)
  BY <1>3 DEF One
<1>12. (hit_cnt + n + o + w) % C = rx_cnt
  BY DEF Counted
<1>13. (hit_cnt' + Len(fifo') + One(AtOutput') + One(new_sample_sys_rx')) % C
         = rx_cnt'
  <2>1. PICK m \in Nat : m = (n + o) + w
    <3> HIDE DEF n, o, w
    <3> QED BY <1>3, <1>11
  <2>2. (hit_cnt + m) % C = rx_cnt
    <3> HIDE DEF n, o, w, C
    <3>1. hit_cnt + n + o + w = hit_cnt + m
      BY <1>3, <1>10, <1>11, <2>1
    <3> QED BY <1>12, <3>1
  <2>3. PICK N \in Nat, O \in Nat, W \in Nat :
          /\ N = Len(fifo') /\ O = One(AtOutput')
          /\ W = One(new_sample_sys_rx')
    <3>1. Len(fifo') \in Nat
      BY FifoTimesMove, <1>3, <1>11 DEF One
    <3>2. One(AtOutput') \in Nat /\ One(new_sample_sys_rx') \in Nat
      BY DEF One
    <3> QED BY <3>1, <3>2
  <2>4. N + O + W = (m + a) - x /\ m + a >= x
    <3>1. N + W = ((n - t) + w) + a /\ O = (o + t) - x
      BY <1>5, <1>7, <2>3
    <3> HIDE DEF n, o, w, t, a, x
    <3>2. /\ n \in Nat /\ o \in Nat /\ w \in Nat /\ t \in Nat /\ a \in Nat
          /\ x \in Nat /\ x <= o
      BY <1>3, <1>11
    <3>3. N \in Nat /\ O \in Nat /\ W \in Nat
      BY <2>3
    <3>4. N + O + W = (N + W) + O
      BY <3>3
    <3>5. (((n - t) + w) + a) + ((o + t) - x) = (((n + o) + w) + a) - x
      BY <3>2
    <3>6. m + a >= x
      BY <2>1, <3>2
    <3> QED BY <2>1, <3>1, <3>4, <3>5, <3>6
  <2>5. PICK r \in Nat : r = (m + a) - x
    <3> HIDE DEF a, x
    <3>1. (m + a) - x \in Nat
      BY <1>11, <2>1, <2>4
    <3> QED BY <3>1
  <2>6. (hit_cnt' + r) % C = rx_cnt'
    <3>1. PICK K, h, k, y, b, g, l :
            /\ K = C /\ h = hit_cnt /\ k = rx_cnt /\ y = x /\ b = a
            /\ g = hit_cnt' /\ l = rx_cnt'
      OBVIOUS
    <3>2. /\ K \in Nat \ {0} /\ h \in 0 .. K - 1 /\ k \in 0 .. K - 1
      BY <1>10, <3>1
    <3> HIDE DEF a, x, C
    <3>3. /\ y \in {0, 1} /\ b \in {0, 1} /\ m + b >= y /\ r = (m + b) - y
      BY <1>11, <2>4, <2>5, <3>1
    <3>4. (h + m) % K = k
      BY <2>2, <3>1
    <3>5. /\ (y = 1 => g = (h + 1) % K) /\ (y = 0 => g = h)
          /\ (b = 1 => l = (k + 1) % K) /\ (b = 0 => l = k)
      BY <1>8, <1>9, <3>1
    <3>6. PICK s \in Nat : s = (h + m) + b
      <4>1. (h + m) + b \in Nat
        BY <2>1, <3>2, <3>3
      <4> QED BY <4>1
    <3>7. s % K = l
      <4>1. CASE b = 0
        <5>1. s = h + m
          BY <2>1, <3>2, <3>6, <4>1
        <5> QED BY <3>4, <3>5, <4>1, <5>1
      <4>2. CASE b = 1
        <5>1. PICK e \in Nat : e = h + m
          BY <2>1, <3>2
        <5>2. (e + 1) % K = ((e % K) + 1) % K
          BY <3>2, <5>1, ModNext
        <5>3. s = e + 1
          BY <3>6, <4>2, <5>1
        <5> QED BY <3>4, <3>5, <4>2, <5>1, <5>2, <5>3
      <4> QED BY <3>3, <4>1, <4>2
    <3>8. (g + r) % K = s % K
      <4>1. CASE y = 0
        <5>1. g + r = s
          BY <2>1, <2>5, <3>2, <3>3, <3>5, <3>6, <4>1
        <5> QED BY <5>1
      <4>2. CASE y = 1
        <5>1. PICK e \in 0 .. K : e = h + 1
          BY <3>2
        <5>2. ((e % K) + r) % K = (e + r) % K
          BY <2>5, <3>2, <5>1, ModOnto
        <5>3. e + r = s
          <6>1. s = (h + m) + b /\ r = (m + b) - 1 /\ e = h + 1
            BY <3>3, <3>6, <4>2, <5>1
          <6>2. h \in Nat /\ m \in Nat /\ b \in Nat
            BY <2>1, <3>2, <3>3
          <6>3. (h + 1) + ((m + b) - 1) = (h + m) + b
            BY <6>2
          <6> QED BY <6>1, <6>3
        <5>4. g = e % K
          BY <3>5, <4>2, <5>1
        <5> QED BY <5>2, <5>3, <5>4
      <4> QED BY <3>3, <4>1, <4>2
    <3> QED BY <3>1, <3>7, <3>8
  <2>7. hit_cnt' \in Nat
    <3>1. \A i \in Nat : i % C \in Nat
      BY <1>10
    <3>2. hit_cnt + 1 \in Nat /\ hit_cnt \in Nat
      BY <1>10
    <3> HIDE DEF x, C
    <3> QED BY <1>8, <3>1, <3>2
  <2>8. hit_cnt' + N + O + W = hit_cnt' + r
    <3>1. N + O + W = r
      BY <2>4, <2>5
    <3>2. PICK h \in Nat : h = hit_cnt'
      BY <2>7
    <3>3. N \in Nat /\ O \in Nat /\ W \in Nat
      BY <2>3
    <3>4. h + N + O + W = h + (N + O + W)
      BY <3>2, <3>3
    <3> QED BY <3>1, <3>2, <3>4
  <2> HIDE DEF a, x, C
  <2> QED BY <2>3, <2>6, <2>8
<1>14. ~slave_sync'[2] => hit_cnt' = 0 /\ rx_cnt' = 0
  <2>1. slave_sync'[2] = slave_sync[1]
    BY SwitchingStep
  <2>2. slave_sync[2] => slave_sync[1]
    BY DEF Switching
  <2>3. Accepts(get) => slave_sync[2]
    BY DEF Accepts, Settled
  <2>4. AtOutput => slave_sync[2]
    BY DEF AtOutput, Reading
  <2>5. ~slave_sync[2] => hit_cnt = 0 /\ rx_cnt = 0
    BY DEF Counted
  <2> QED BY <1>1, <1>6, <2>1, <2>2, <2>3, <2>4, <2>5
<1> QED BY <1>13, <1>14 DEF Counted

-----------------------------------------------------------------------------
(* Together: every sample is applied when it is due, and each is counted.  *)
DeadlineInv ==
  /\ Bounded /\ MasterOrder /\ MasterDue /\ AirOrder /\ AirDue
  /\ Settled /\ SlaveOrder /\ SlaveDue /\ Filled /\ Counted

LEMMA DeadlineInit == Init => DeadlineInv
<1> SUFFICES ASSUME Init PROVE DeadlineInv
  OBVIOUS
<1>1. /\ tune_valid = FALSE /\ new_sample = FALSE /\ crossing = 0
      /\ new_sample_sys = FALSE /\ tx_valid = FALSE
      /\ tx_state = "WAIT_SAMPLE"
  BY DEF Init, TxPathInit
<1>2. /\ cr_slave_o = FALSE /\ rx_state = "RX_WAIT_SAMPLE"
      /\ new_sample_sys_rx = FALSE /\ rx_cnt = 0 /\ hit_cnt = 0
      /\ fifo = <<>> /\ drv_state = "DRV_WAIT_SAMPLE"
  BY DEF Init, RxPathInit
<1>3. /\ slave_phase \in {0, 1} /\ foreign = 0 /\ air = <<>>
      /\ MaxForeign \in Nat
  BY Assumed DEF Init
<1>4. DOMAIN air = {} /\ DOMAIN fifo = {} /\ Len(fifo) = 0
  BY <1>2, <1>3
<1>5. Bounded
  BY <1>3 DEF Bounded
<1>6. ~Crosses /\ ~Busy
  BY <1>1 DEF Crosses, Busy
<1>7. MasterOrder /\ MasterDue
  BY <1>1, <1>6 DEF MasterOrder, MasterDue, SnapUsed
<1>8. Own = {}
  BY <1>4 DEF Own
<1>9. AirOrder /\ AirDue
  BY <1>4, <1>8 DEF AirOrder, AirDue
<1>10. ~AtOutput /\ fifo_empty
  BY <1>2 DEF AtOutput, fifo_empty
<1>11. Settled /\ SlaveOrder /\ SlaveDue /\ Filled
  BY <1>2, <1>4, <1>10 DEF Settled, SlaveOrder, SlaveDue, Filled
<1>12. Counted
  <2>1. \A C \in Nat \ {0} : 0 % C = 0
    OBVIOUS
  <2>2. hit_cnt + Len(fifo) + One(AtOutput) + One(new_sample_sys_rx) = 0
    BY <1>2, <1>4, <1>10 DEF One
  <2> QED BY <1>2, <2>1, <2>2, Assumed DEF Counted
<1> QED BY <1>5, <1>7, <1>9, <1>11, <1>12 DEF DeadlineInv

LEMMA StoppedKeepsDeadlines == DeadlineInv /\ UNCHANGED vars => DeadlineInv'
<1> SUFFICES ASSUME DeadlineInv, UNCHANGED vars PROVE DeadlineInv'
  OBVIOUS
<1>1. UNCHANGED txPathVars /\ UNCHANGED rxPathVars /\ UNCHANGED linkVars
  BY DEF vars
<1>2. UNCHANGED <<tune_valid, new_sample, snap, crossing, new_sample_sys,
                  tx_state, tx_valid, tx_last, tx_data>>
  BY <1>1 DEF txPathVars, tagVars, txSysVars
<1>3. UNCHANGED <<now, slave_phase, next_ce, stalls, sending, air, position,
                  foreign>>
  BY <1>1 DEF linkVars
<1>4. UNCHANGED <<cr_slave_o, rx_state, sample_sys, new_sample_sys_rx, rx_cnt>>
  BY <1>1 DEF rxPathVars, rxSysVars
<1>5. UNCHANGED <<fifo, fifo_out, sums, tm_d0, compare, slave_sync, drv_state,
                  hit_cnt>>
  BY <1>1 DEF rxPathVars, pipeVars, driveVars
<1>6. /\ Sampled' = Sampled /\ Crosses' = Crosses /\ Pending' = Pending
      /\ Busy' = Busy /\ Sent' = Sent
  BY <1>2, <1>3 DEF Sampled, Crosses, Pending, Busy, Sent
<1>7. /\ BusyTime' = BusyTime /\ SnapUsed' = SnapUsed /\ TxEdge' = TxEdge
      /\ Stalling' = Stalling
  BY <1>2, <1>3, <1>6 DEF BusyTime, SnapUsed, TxEdge, Stalling
<1>8. NextTime' = NextTime
  BY <1>6, <1>7 DEF NextTime
<1>9. /\ Own' = Own /\ AirTime' = AirTime /\ RxEdge' = RxEdge
      /\ Passed' = Passed
  BY <1>2, <1>3 DEF Own, AirTime, RxEdge, Passed
<1>10. Last' = Last
  BY <1>3, <1>9 DEF Last
<1>11. Ends' = Ends /\ Backlog' = Backlog
  BY <1>3, <1>7, <1>9, <1>10 DEF Ends, Backlog
<1>12. Unread' = Unread
  BY <1>3, <1>9 DEF Unread
<1>13. /\ Upcoming' = Upcoming /\ SysTime' = SysTime
       /\ FifoTime' = FifoTime /\ OutTime' = OutTime
  BY <1>4, <1>5, <1>8, <1>9, <1>12 DEF Upcoming, SysTime, FifoTime, OutTime
<1>14. /\ AtOutput' = AtOutput /\ fifo_empty' = fifo_empty
       /\ RxSys' = RxSys /\ Due' = Due /\ Adder' = Adder
  BY <1>3, <1>5 DEF AtOutput, fifo_empty, RxSys, Due, Adder
<1> HIDE DEF Sampled, Crosses, Pending, Busy, BusyTime, SnapUsed, TxEdge,
             Stalling, NextTime, Own, AirTime, RxEdge, Ends, Backlog,
             Upcoming, SysTime, FifoTime, OutTime, AtOutput, fifo_empty,
             RxSys, Due, Adder
<1>15. Bounded' /\ MasterOrder'
  BY <1>2, <1>3, <1>6, <1>7 DEF DeadlineInv, Bounded, MasterOrder
<1>16. MasterDue'
  BY <1>2, <1>6, <1>7 DEF DeadlineInv, MasterDue
<1>17. AirOrder' /\ AirDue'
  BY <1>3, <1>8, <1>9, <1>11 DEF DeadlineInv, AirOrder, AirDue
<1>18. Settled'
  BY <1>4, <1>5, <1>14 DEF DeadlineInv, Settled
<1>19. SlaveOrder'
  BY <1>4, <1>5, <1>13, <1>14 DEF DeadlineInv, SlaveOrder
<1>20. SlaveDue'
  BY <1>3, <1>4, <1>5, <1>9, <1>13, <1>14 DEF DeadlineInv, SlaveDue
<1>21. Filled'
  BY <1>3, <1>5, <1>14 DEF DeadlineInv, Filled
<1>22. Counted'
  BY <1>4, <1>5, <1>14 DEF DeadlineInv, Counted
<1> QED BY <1>15, <1>16, <1>17, <1>18, <1>19, <1>20, <1>21, <1>22
        DEF DeadlineInv

LEMMA DeadlineStep ==
  ASSUME Paced, SwitchedOnce, NoWrap, Deliverable, Roomy,
         TypeInv, SampleInv, TriggerInv, DeadlineInv, [Next]_vars
  PROVE  DeadlineInv'
<1>1. CASE UNCHANGED vars
  BY <1>1, StoppedKeepsDeadlines
<1>2. ASSUME NEW tx_dreq \in BOOLEAN, NEW slave \in BOOLEAN,
             NEW get \in BOOLEAN, Step(tx_dreq, slave, get),
             slave_phase' = slave_phase
      PROVE  DeadlineInv'
  <2>1. /\ Pacing /\ BlockUnderWay /\ BlocksInAir
        /\ Switching /\ Receiving /\ Reading
        /\ AddersBehind /\ ComparesSample /\ NotSeenYet
    BY DEF SampleInv, TriggerInv
  <2>2. /\ Bounded /\ MasterOrder /\ MasterDue /\ AirOrder /\ AirDue
        /\ Settled /\ SlaveOrder /\ SlaveDue /\ Filled /\ Counted
    BY DEF DeadlineInv
  <2>3. Bounded' /\ MasterOrder' /\ MasterDue'
    BY <1>2, <2>1, <2>2, BoundedStep, MasterOrderStep, MasterDueStep
  <2>4. AirOrder' /\ AirDue'
    BY <1>2, <2>1, <2>2, AirOrderStep, AirDueStep
  <2>5. Settled' /\ SlaveOrder' /\ SlaveDue'
    BY <1>2, <2>1, <2>2, SettledStep, SlaveOrderStep, SlaveDueStep
  <2>6. Filled'
    BY <1>2, <2>1, <2>2, FilledStep
  <2>7. Counted'
    BY <1>2, <2>1, <2>2, CountedStep
  <2> QED BY <2>3, <2>4, <2>5, <2>6, <2>7 DEF DeadlineInv
<1> QED BY <1>1, <1>2, NextIsStep DEF Stopped

(* What the slave has is not late. *)
LEMMA DeadlinesAreMet ==
  ASSUME Paced, Deliverable, TypeInv, TriggerInv, DeadlineInv
  PROVE  InTime
<1>1. miss_cnt = 0
  BY DEF TriggerInv, NoMissYet
<1>2. ASSUME NEW s \in Held PROVE now <= TimeOf(s.timestamp.stamp) + Latency
  <2>1. /\ now \in Nat /\ Delay \in Nat /\ Period \in Nat
        /\ Latency = Delay + 3
    BY Assumed DEF TypeInv, TimeTyped, Latency
  <2>2. CASE AtOutput /\ s = fifo_out
    <3>1. now <= Due + 3
      BY <2>2 DEF DeadlineInv, Filled
    <3>2. OutTime \in Nat /\ Due = OutTime + Delay
      BY TimesTyped DEF OutTime, Due
    <3>3. TimeOf(s.timestamp.stamp) = OutTime
      BY <2>2 DEF OutTime
    <3> QED BY <2>1, <3>1, <3>2, <3>3
  <2>3. ASSUME NEW i \in DOMAIN fifo, s = fifo[i].sample
        PROVE  now <= TimeOf(s.timestamp.stamp) + Latency
    <3>1. SlaveOrder /\ SlaveDue /\ Filled
      BY DEF DeadlineInv
    <3>2. /\ DOMAIN fifo = 1 .. Len(fifo) /\ Len(fifo) \in Nat
          /\ i \in Nat /\ 1 \in DOMAIN fifo
          /\ FifoTime[i] \in Nat /\ FifoTime[1] \in Nat
      BY TimesTyped
    <3>3. now <= FifoTime[1] + Delay - 4
      BY <3>1, <3>2, FirstFresh
    <3>4. FifoTime[1] <= FifoTime[i]
      <4>1. CASE i = 1
        BY <3>2, <4>1
      <4>2. CASE i > 1
        <5>1. FifoTime[1] + (i - 1) * Period <= FifoTime[i]
          BY <3>1, <3>2, <4>2 DEF SlaveOrder
        <5>2. PICK b \in Nat : b = i - 1
          BY <3>2, <4>2
        <5>3. b * Period \in Nat
          BY <2>1
        <5> QED BY <3>2, <5>1, <5>2, <5>3
      <4> QED BY <3>2, <4>1, <4>2
    <3>5. TimeOf(s.timestamp.stamp) = FifoTime[i]
      BY <2>3 DEF FifoTime
    <3> QED BY <2>1, <3>2, <3>3, <3>4, <3>5
  <2> QED BY <2>2, <2>3 DEF Held
<1> QED BY <1>1, <1>2 DEF InTime

LEMMA CountedIsNotForgotten ==
  ASSUME TypeInv, TriggerInv, DeadlineInv
  PROVE  NoSampleForgotten
<1>1. miss_cnt = 0 /\ hit_cnt \in Nat
  BY Assumed DEF TriggerInv, NoMissYet, TypeInv, DriveTyped
<1>2. hit_cnt + miss_cnt = hit_cnt
  BY <1>1
<1> QED BY <1>2 DEF DeadlineInv, Counted, NoSampleForgotten

(* dds_tx_path.vhd, dds_rx_path.vhd: no sample is missed, and none is       *)
(* still in the FIFO or waited for when its time has passed, if the delay  *)
(* is programmed longer than a sample can take on its way.                 *)
THEOREM ArrivesInTime ==
  ASSUME Paced, SwitchedOnce, NoWrap, Deliverable, Roomy
  PROVE  Spec => []InTime
<1>1. TypeInv /\ SampleInv /\ [Next]_vars => SampleInv'
  BY SampleStep
<1>2. TypeInv /\ SampleInv /\ TriggerInv /\ [Next]_vars => TriggerInv'
  BY TriggerStep
<1>3. TypeInv /\ SampleInv /\ TriggerInv /\ DeadlineInv /\ [Next]_vars
        => DeadlineInv'
  BY DeadlineStep
<1>4. Init => TriggerInv
  BY PipesInit DEF TriggerInv
<1>5. TypeInv /\ TriggerInv /\ DeadlineInv => InTime
  BY DeadlinesAreMet
<1> QED BY <1>1, <1>2, <1>3, <1>4, <1>5, TypeInit, TypeStep, SampleInit,
           DeadlineInit, PTL DEF Spec

(* dds_rx_path.vhd:160-330: rx_cnt counts what is on its way into the      *)
(* FIFO, in it, at its output, applied or missed, modulo 2^24: nothing is  *)
(* dropped because the FIFO is full, read twice or skipped.                *)
THEOREM NoneForgotten ==
  ASSUME Paced, SwitchedOnce, NoWrap, Deliverable, Roomy
  PROVE  Spec => []NoSampleForgotten
<1>1. TypeInv /\ SampleInv /\ [Next]_vars => SampleInv'
  BY SampleStep
<1>2. TypeInv /\ SampleInv /\ TriggerInv /\ [Next]_vars => TriggerInv'
  BY TriggerStep
<1>3. TypeInv /\ SampleInv /\ TriggerInv /\ DeadlineInv /\ [Next]_vars
        => DeadlineInv'
  BY DeadlineStep
<1>4. Init => TriggerInv
  BY PipesInit DEF TriggerInv
<1>5. TypeInv /\ TriggerInv /\ DeadlineInv => NoSampleForgotten
  BY CountedIsNotForgotten
<1> QED BY <1>1, <1>2, <1>3, <1>4, <1>5, TypeInit, TypeStep, SampleInit,
           DeadlineInit, PTL DEF Spec
=============================================================================
