--------------------------- MODULE RegistersProofs ---------------------------
(***************************************************************************)
(* Theorems about Registers, for all registers, requests and lengths of the *)
(* window that satisfy its assumptions.                                     *)
(***************************************************************************)
EXTENDS Registers, TLAPS

(* Where the safe access stands: the time that went by since lasttime_sa is *)
(* the age of the grant, or, when it was read torn, that less one unit of    *)
(* the high word; and the last check found the window open.                 *)
GrantTimed ==
  safe => /\ \/ Since(time, last) = age
             \/ Since(time, last) = age - Low + Wide
          /\ age <= Window - 1 + loop

Pending == main \in {"Write", "Saving"}
Target == Span(job.at, job.count)

(* What was checked before the first write still holds. *)
StillWritable ==
  Pending => /\ Target \subseteq CONFIG \cup RWA \cup TEST
             /\ Target \cap RWA # {} => safe

(* The registers written so far hold their values, the others what they did. *)
PartlyWritten ==
  Pending => \A a \in Bank :
    regs[a] = IF a \in Span(job.at, job.done)
                THEN Settled(a, job.vals[a - job.at + 1]) ELSE before[a]

IInv ==
  /\ RegistersOK /\ ControlShowsAccess /\ GrantTimed
  /\ StillWritable /\ PartlyWritten /\ RequestIsAtomic

------------------------------------------------------------------------------

LEMMA SettledType ==
  ASSUME NEW a, NEW v \in Value PROVE Settled(a, v) \in Value
BY SegmentsAssumption DEF Settled, Value

LEMMA NoJobType == NoJob \in Jobs /\ NoJob.done = 0 /\ NoJob.count = 0
BY SegmentsAssumption DEF NoJob, Jobs, Value, Zero

LEMMA BlankType == Blank \in [Bank -> Value]
BY DEF Blank, Value, Zero

LEMMA ControlInBank ==
  /\ SAFE_ACCESS_CTRL \in Bank /\ SAFE_ACCESS_CTRL \in Int
  /\ SAFE_ACCESS_CTRL \notin RO /\ SAFE_ACCESS_CTRL \notin RWA
  /\ SAFE_ACCESS_CTRL # TEST_1 /\ SAFE_ACCESS_CTRL # TEST_2
  /\ OPT_CTRL \in Bank /\ OPT_CTRL \notin RWA
BY SegmentsAssumption DEF Bank

(* A request that reaches the control register reaches no protected one. *)
LEMMA Apart ==
  ASSUME NEW at \in Int, NEW n \in Int, Span(at, n) \subseteq Bank,
         SAFE_ACCESS_CTRL \in Span(at, n)
  PROVE  Span(at, n) \cap RWA = {}
<1> SUFFICES ASSUME NEW a \in Span(at, n), a \in RWA PROVE FALSE
  OBVIOUS
<1>1. PICK gap \in SAFE_ACCESS_CTRL..a : gap \notin Bank
  BY ApartAssumption
<1>2. gap \in Span(at, n)
  BY <1>1, ControlInBank DEF Span
<1> QED BY <1>1, <1>2

------------------------------------------------------------------------------
(* The clock                                                               *)

LEMMA LaterType ==
  ASSUME NEW t \in 0..(Wide - 1)
  PROVE  Later(t, 1) \in 0..(Wide - 1) /\ Later(t, Low) \in 0..(Wide - 1)
BY TimeAssumption DEF Later

LEMMA OlderType == ASSUME NEW a \in 0..Aged PROVE Older(a) \in 0..Aged
BY TimeAssumption DEF Older, Aged

(* A tick makes the difference to any earlier time one more, unless it had  *)
(* come all the way round.                                                  *)
LEMMA SinceTick ==
  ASSUME NEW t \in 0..(Wide - 1), NEW from \in 0..(Wide - 1),
         Since(t, from) + 1 < Wide
  PROVE  Since(Later(t, 1), from) = Since(t, from) + 1
BY TimeAssumption DEF Since, Later

(* A torn read adds Low. *)
LEMMA SinceTorn ==
  ASSUME NEW t \in 0..(Wide - 1), NEW from \in 0..(Wide - 1)
  PROVE  \/ Since(Later(t, Low), from) = Since(t, from) + Low
         \/ Since(Later(t, Low), from) = Since(t, from) + Low - Wide
BY TimeAssumption DEF Since, Later

LEMMA SinceType ==
  ASSUME NEW t \in 0..(Wide - 1), NEW from \in 0..(Wide - 1)
  PROVE  Since(t, from) \in 0..(Wide - 1)
BY TimeAssumption DEF Since

(* While it is granted, the age is below its cap, so that a tick adds one. *)
LEMMA TickKeepsTimed ==
  ASSUME RegistersOK, GrantTimed, safe, loop < LoopMax
  PROVE  /\ Older(age) = age + 1
         /\ \/ Since(Later(time, 1), last) = age + 1
            \/ Since(Later(time, 1), last) = age + 1 - Low + Wide
         /\ age + 1 <= Window - 1 + (loop + 1)
<1>1. age + 1 <= Window - 1 + (loop + 1) /\ age + 1 < Aged
  BY TimeAssumption DEF RegistersOK, GrantTimed, Aged
<1>2. Older(age) = age + 1
  BY <1>1, TimeAssumption DEF Older, RegistersOK, Aged
<1>3. Since(time, last) + 1 < Wide
  <2>1. age \in Int /\ age + 1 < Low
    BY <1>1, TimeAssumption DEF RegistersOK, Aged
  <2> QED BY <2>1, TimeAssumption DEF GrantTimed
<1>4. Since(Later(time, 1), last) = Since(time, last) + 1
  BY <1>3, SinceTick DEF RegistersOK
<1>5. age \in Int /\ Low \in Int /\ Wide \in Int
  BY TimeAssumption DEF RegistersOK, Aged
<1> QED BY <1>1, <1>2, <1>4, <1>5 DEF GrantTimed

------------------------------------------------------------------------------
(* IInv is an invariant: one lemma per action or group of actions.         *)

LEMMA InitInv == RInit => IInv
<1> SUFFICES ASSUME RInit PROVE IInv
  OBVIOUS
<1> USE DEF RInit
<1>1. RegistersOK
  <2>1. regs \in [Bank -> Value] /\ before \in [Bank -> Value]
    BY BlankType
  <2>2. job \in Jobs /\ job.done <= job.count
    BY NoJobType
  <2>3. last \in 0..(Wide - 1) /\ time \in 0..(Wide - 1) /\ age \in 0..Aged /\ loop \in 0..LoopMax
    BY TimeAssumption DEF Aged
  <2> QED BY <2>1, <2>2, <2>3 DEF RegistersOK
<1>2. ControlShowsAccess
  BY ControlInBank, SegmentsAssumption DEF ControlShowsAccess, Blank
<1> QED BY <1>1, <1>2
        DEF IInv, GrantTimed, StillWritable, PartlyWritten, RequestIsAtomic, Pending

LEMMA TickInv == IInv /\ SysTick_Handler => IInv'
<1> SUFFICES ASSUME IInv, SysTick_Handler PROVE IInv'
  OBVIOUS
<1> USE DEF IInv, SysTick_Handler, SysTick, request
<1>1. RegistersOK'
  <2>1. time' \in 0..(Wide - 1) /\ age' \in 0..Aged
    BY LaterType, OlderType DEF RegistersOK
  <2>2. loop' \in 0..LoopMax
    BY TimeAssumption DEF RegistersOK
  <2> QED BY <2>1, <2>2 DEF RegistersOK
<1>2. GrantTimed'
  <2> SUFFICES ASSUME safe
      PROVE  /\ Since(time', last) = age' \/ Since(time', last) = age' - Low + Wide
             /\ age' <= Window - 1 + loop'
    BY DEF GrantTimed
  <2>1. /\ Older(age) = age + 1
        /\ \/ Since(Later(time, 1), last) = age + 1
           \/ Since(Later(time, 1), last) = age + 1 - Low + Wide
        /\ age + 1 <= Window - 1 + (loop + 1)
    BY TickKeepsTimed
  <2>2. time' = Later(time, 1) /\ age' = age + 1 /\ loop' = loop + 1
    BY <2>1
  <2>3. age \in Int /\ loop \in Int /\ {Window, Low, Wide} \subseteq Int
    BY TimeAssumption DEF RegistersOK, Aged
  <2> QED BY <2>1, <2>2, <2>3
<1>3. ControlShowsAccess' /\ StillWritable' /\ PartlyWritten' /\ RequestIsAtomic'
  BY DEF ControlShowsAccess, StillWritable, PartlyWritten, RequestIsAtomic, Pending, Target
<1> QED BY <1>1, <1>2, <1>3

(* A look at the clock closes the window or leaves everything as it is. *)
LEMMA LookType ==
  ASSUME RegistersOK, ControlShowsAccess, NEW now, Look(now)
  PROVE  regs' \in [Bank -> Value] /\ safe' \in BOOLEAN /\ ControlShowsAccess'
<1> USE DEF Look, ControlShowsAccess
<1>1. CASE safe /\ Since(now, last) >= Window
  BY <1>1, ControlInBank, SegmentsAssumption DEF RegistersOK, Value, Zero
<1>2. CASE ~(safe /\ Since(now, last) >= Window)
  BY <1>2 DEF RegistersOK
<1> QED BY <1>1, <1>2

LEMMA ExpireInv == IInv /\ Expire => IInv'
<1> SUFFICES ASSUME IInv, Expire PROVE IInv'
  OBVIOUS
<1> USE DEF IInv
<1>1. main' = "Serve" /\ UNCHANGED <<last, job, answer, before>>
  BY DEF Expire, request
<1>2. regs' \in [Bank -> Value] /\ safe' \in BOOLEAN /\ ControlShowsAccess'
  BY LookType DEF Expire
<1>3. CASE Look(time) /\ loop' = 0 /\ UNCHANGED <<time, age>>
  <2>1. RegistersOK'
    BY <1>1, <1>2, <1>3, TimeAssumption DEF RegistersOK
  <2>2. GrantTimed'
    <3> SUFFICES ASSUME safe'
        PROVE  /\ Since(time, last) = age \/ Since(time, last) = age - Low + Wide
               /\ age <= Window - 1
      BY <1>1, <1>3, TimeAssumption DEF GrantTimed
    <3>0. Since(time, last) \in Int
      BY SinceType DEF RegistersOK
    <3>1. safe /\ Since(time, last) < Window
      <4>1. safe /\ ~(Since(time, last) >= Window)
        BY <1>3, Zenon DEF Look
      <4> QED BY <4>1, <3>0, TimeAssumption
    <3>2. Since(time, last) # age - Low + Wide
      BY <3>1, TimeAssumption DEF RegistersOK, Aged
    <3> QED BY <3>1, <3>2, TimeAssumption DEF GrantTimed, RegistersOK, Aged
  <2> QED BY <1>1, <1>2, <2>1, <2>2
          DEF StillWritable, PartlyWritten, RequestIsAtomic, Pending
<1>4. CASE /\ safe /\ Look(TornTime)
           /\ time' = Later(time, 1) /\ age' = Older(age) /\ loop' = 1
  <2>1. RegistersOK'
    BY <1>1, <1>2, <1>4, TimeAssumption, LaterType, OlderType DEF RegistersOK
  <2>2. GrantTimed'
    <3> SUFFICES ASSUME safe'
        PROVE  /\ Since(time', last) = age' \/ Since(time', last) = age' - Low + Wide
               /\ age' <= Window
      BY <1>1, <1>4, TimeAssumption DEF GrantTimed
    <3>0. Since(TornTime, last) \in Nat /\ Since(time, last) \in Nat
      BY SinceType, LaterType, TimeAssumption DEF RegistersOK, TornTime
    <3>1. Since(TornTime, last) < Window
      <4>1. ~(Since(TornTime, last) >= Window)
        BY <1>4, Zenon DEF Look
      <4> QED BY <4>1, <3>0, TimeAssumption
    <3>2. age \in Int /\ 0 <= age /\ age < Low
      BY <1>4, TimeAssumption DEF GrantTimed, RegistersOK, Aged
    <3>3. age < Window
      <4>1. \/ Since(TornTime, last) = Since(time, last) + Low
            \/ Since(TornTime, last) = Since(time, last) + Low - Wide
        BY SinceTorn DEF RegistersOK, TornTime
      <4>2. Since(time, last) = age \/ Since(time, last) = age - Low + Wide
        BY <1>4 DEF GrantTimed
      <4>3. Window <= Low /\ Low + Low <= Wide /\ Window \in Int /\ Low \in Int /\ Wide \in Int
        BY TimeAssumption
      <4> QED BY <3>0, <3>1, <3>2, <4>1, <4>2, <4>3
    <3>4. Older(age) = age + 1
      BY <3>2, <3>3, TimeAssumption DEF Older, Aged
    <3>5. Since(Later(time, 1), last) = Since(time, last) + 1
      <4>1. Since(time, last) + 1 < Wide
        BY <1>4, <3>2, <3>3, TimeAssumption DEF GrantTimed
      <4> QED BY <4>1, SinceTick DEF RegistersOK
    <3> QED BY <1>4, <3>2, <3>3, <3>4, <3>5, TimeAssumption DEF GrantTimed
  <2> QED BY <1>1, <1>2, <2>1, <2>2
          DEF StillWritable, PartlyWritten, RequestIsAtomic, Pending
<1> QED BY <1>3, <1>4 DEF Expire

(* What only the clock and the window are about. *)
LEMMA TimedKept ==
  ASSUME GrantTimed, UNCHANGED <<last, time, age, loop>>, safe' => safe
  PROVE  GrantTimed'
BY DEF GrantTimed

LEMMA AnsweredInv ==
  ASSUME IInv, NEW a \in {"ok", "refused"}, Answered(a),
         UNCHANGED <<regs, safe, last, clock>>
  PROVE  IInv'
<1> USE DEF IInv, Answered, clock
<1>1. RegistersOK'
  BY NoJobType DEF RegistersOK
<1>2. ControlShowsAccess' /\ GrantTimed' /\ StillWritable' /\ PartlyWritten'
  BY TimedKept DEF ControlShowsAccess, StillWritable, PartlyWritten, Pending
<1>3. RequestIsAtomic'
  <2>1. Span(job'.at, job'.count) = {}
    BY DEF NoJob, Span
  <2>2. regs = [b \in Bank |-> before'[b]]
    BY DEF RegistersOK
  <2> QED BY <2>1, <2>2 DEF RequestIsAtomic
<1> QED BY <1>1, <1>2, <1>3

LEMMA BeginInv ==
  ASSUME IInv, NEW at \in Asked, NEW n \in 1..MaxCount,
         NEW v \in [1..MaxCount -> Value], Span(at, n) \subseteq Writable,
         Begin(at, n, v), UNCHANGED <<regs, safe, last, clock>>
  PROVE  IInv'
<1> USE DEF IInv, Begin, clock
<1>1. RegistersOK'
  <2>1. job' \in Jobs /\ job'.done <= job'.count
    BY SegmentsAssumption DEF Jobs
  <2> QED BY <2>1 DEF RegistersOK
<1>2. ControlShowsAccess' /\ GrantTimed' /\ RequestIsAtomic'
  BY TimedKept DEF ControlShowsAccess, RequestIsAtomic
<1>3. StillWritable'
  <2>1. Span(job'.at, job'.count) = Span(at, n)
    OBVIOUS
  <2>2. Writable \subseteq CONFIG \cup RWA \cup TEST
    BY DEF Writable
  <2>3. Writable \cap RWA # {} => safe
    BY SegmentsAssumption DEF Writable
  <2> QED BY <2>1, <2>2, <2>3 DEF StillWritable, Target
<1>4. PartlyWritten'
  <2>1. Span(job'.at, job'.done) = {}
    BY SegmentsAssumption DEF Span
  <2> QED BY <2>1 DEF PartlyWritten
<1> QED BY <1>1, <1>2, <1>3, <1>4

LEMMA ServeInv == IInv /\ Serve => IInv'
<1> SUFFICES ASSUME IInv, Serve PROVE IInv'
  OBVIOUS
<1>1. CASE NoRequest
  <2> USE <1>1 DEF NoRequest, IInv, request, clock
  <2>1. RegistersOK'
    BY DEF RegistersOK
  <2> QED BY <2>1, TimedKept
          DEF ControlShowsAccess, StillWritable, PartlyWritten, RequestIsAtomic, Pending
<1>2. CASE ReadRegisters
  BY <1>2, AnsweredInv DEF ReadRegisters
<1>3. CASE WriteRegisters
  BY <1>3, AnsweredInv, BeginInv DEF WriteRegisters
<1>4. CASE MaskWriteRegister
  <2>1. PICK at \in Asked, and \in Value, or \in Value :
          IF at \in Bank /\ at \in Writable
            THEN Begin(at, 1, [NoJob.vals EXCEPT ![1] = MaskWrite(regs[at], and, or)])
            ELSE Answered("refused")
    BY <1>4 DEF MaskWriteRegister
  <2>2. CASE at \in Bank /\ at \in Writable
    <3>1. MaskWrite(regs[at], and, or) \in Value
      BY <2>2 DEF MaskWrite, Value, IInv, RegistersOK
    <3>2. [NoJob.vals EXCEPT ![1] = MaskWrite(regs[at], and, or)] \in [1..MaxCount -> Value]
      BY <3>1, NoJobType DEF Jobs
    <3>3. Span(at, 1) \subseteq Writable /\ 1 \in 1..MaxCount
      BY <2>2, SegmentsAssumption DEF Span
    <3> QED BY <1>4, <2>1, <2>2, <3>2, <3>3, BeginInv DEF MaskWriteRegister
  <2>3. CASE ~(at \in Bank /\ at \in Writable)
    BY <1>4, <2>1, <2>3, AnsweredInv DEF MaskWriteRegister
  <2> QED BY <2>2, <2>3
<1> QED BY <1>1, <1>2, <1>3, <1>4 DEF Serve

------------------------------------------------------------------------------
(* Writing *)

LEMMA JobType ==
  ASSUME RegistersOK
  PROVE  /\ job.at \in Int /\ job.count \in 0..MaxCount /\ job.done \in 0..MaxCount
         /\ job.vals \in [1..MaxCount -> Value] /\ job.done <= job.count
<1>1. /\ job.at \in Asked \cup {0} /\ job.count \in 0..MaxCount
      /\ job.done \in 0..MaxCount /\ job.vals \in [1..MaxCount -> Value]
  BY DEF RegistersOK, Jobs
<1>2. \A x \in Asked : x \in Int
  BY Zenon, SegmentsAssumption
<1>3. CASE job.at = 0
  BY <1>1, <1>3 DEF RegistersOK
<1>4. CASE job.at \in Asked
  <2>1. job.at \in Int
    BY Zenon, <1>2, <1>4
  <2> QED BY <1>1, <2>1 DEF RegistersOK
<1> QED BY <1>1, <1>3, <1>4

LEMMA WritingType ==
  ASSUME IInv, Writing
  PROVE  /\ Addr \in Int /\ Addr \in Target /\ Addr \in CONFIG \cup RWA \cup TEST
         /\ Addr \in Bank /\ Word \in Value
         /\ job.done + 1 \in 1..MaxCount /\ job.done + 1 <= job.count
         /\ Addr \in RWA => safe
         /\ Span(job.at, job.done + 1) = Span(job.at, job.done) \cup {Addr}
         /\ Addr \notin Span(job.at, job.done) /\ Addr - job.at + 1 = job.done + 1
<1> USE DEF IInv, Writing
<1>1. /\ job.at \in Int /\ job.count \in 0..MaxCount /\ job.done \in 0..MaxCount
      /\ job.vals \in [1..MaxCount -> Value] /\ MaxCount \in Nat
  BY JobType, SegmentsAssumption
<1>2. job.done + 1 \in 1..MaxCount /\ job.done + 1 <= job.count
  BY <1>1
<1>3. Addr \in Int /\ Addr \in Target
  BY <1>1, <1>2 DEF Addr, Target, Span
<1>4. Addr \in CONFIG \cup RWA \cup TEST /\ (Addr \in RWA => safe)
  BY <1>3 DEF StillWritable, Pending
<1>5. Word \in Value
  BY <1>1, <1>2 DEF Word
<1>6. /\ Span(job.at, job.done + 1) = Span(job.at, job.done) \cup {Addr}
      /\ Addr \notin Span(job.at, job.done) /\ Addr - job.at + 1 = job.done + 1
  BY <1>1 DEF Span, Addr
<1> QED BY <1>2, <1>3, <1>4, <1>5, <1>6 DEF Bank

(* A register is stored and the others stay what they are. *)
LEMMA StoreKeeps ==
  ASSUME IInv, Writing, Store, main' \in {"Write", "Saving"}
  PROVE  /\ regs' \in [Bank -> Value] /\ job' \in Jobs /\ job'.done <= job'.count
         /\ job'.at = job.at /\ job'.count = job.count
         /\ PartlyWritten' /\ RequestIsAtomic'
<1> USE DEF IInv, Store
<1>1. Settled(Addr, Word) \in Value
  BY WritingType, SettledType
<1>2. regs' \in [Bank -> Value]
  BY <1>1 DEF RegistersOK
<1>3. /\ job'.at = job.at /\ job'.count = job.count /\ job'.vals = job.vals
      /\ job'.done = job.done + 1
  BY DEF RegistersOK, Jobs
<1>4. job' \in Jobs /\ job'.done <= job'.count
  <2>1. job.done + 1 \in 0..MaxCount
    BY WritingType, SegmentsAssumption
  <2> QED BY <2>1, WritingType DEF RegistersOK, Jobs
<1>5. PartlyWritten'
  <2> SUFFICES ASSUME NEW a \in Bank
      PROVE  regs'[a] = IF a \in Span(job.at, job.done + 1)
                          THEN Settled(a, job.vals[a - job.at + 1]) ELSE before[a]
    BY <1>3 DEF PartlyWritten
  <2>1. CASE a = Addr
    BY <2>1, WritingType DEF RegistersOK, Word
  <2>2. CASE a # Addr
    BY <2>2, WritingType DEF RegistersOK, PartlyWritten, Pending, Writing
  <2> QED BY <2>1, <2>2
<1>6. RequestIsAtomic'
  BY DEF RequestIsAtomic
<1> QED BY <1>2, <1>3, <1>4, <1>5, <1>6

LEMMA PlainInv == IInv /\ WritePlain => IInv'
<1> SUFFICES ASSUME IInv, WritePlain PROVE IInv'
  OBVIOUS
<1> USE DEF IInv, WritePlain, clock
<1>0. main' = "Write" /\ Writing /\ Store
  BY DEF Writing
<1>1. RegistersOK'
  BY <1>0, StoreKeeps DEF RegistersOK, Store
<1>2. ControlShowsAccess'
  <2>1. CASE Addr = SAFE_ACCESS_CTRL
    <3>1. regs'[SAFE_ACCESS_CTRL] = Word
      BY <2>1, ControlInBank DEF Store, Settled, RegistersOK
    <3>2. Word \notin {Zero, Key}
      BY <2>1, SegmentsAssumption
    <3> QED BY <3>1, <3>2 DEF ControlShowsAccess
  <2>2. CASE Addr # SAFE_ACCESS_CTRL
    BY <2>2 DEF ControlShowsAccess, Store, RegistersOK
  <2> QED BY <2>1, <2>2
<1>3. StillWritable'
  BY <1>0, StoreKeeps DEF StillWritable, Pending, Target, Writing
<1> QED BY <1>0, <1>1, <1>2, <1>3, StoreKeeps, TimedKept

LEMMA GrantInv == IInv /\ GrantAccess => IInv'
<1> SUFFICES ASSUME IInv, GrantAccess PROVE IInv'
  OBVIOUS
<1> USE DEF IInv, GrantAccess
<1>0. main' = "Write" /\ Writing /\ Store
  BY DEF Writing
<1>1. ControlShowsAccess'
  <2>1. regs'[SAFE_ACCESS_CTRL] = Key
    BY ControlInBank DEF Store, Settled, RegistersOK
  <2> QED BY <2>1, SegmentsAssumption DEF ControlShowsAccess
<1>2. StillWritable'
  BY <1>0, StoreKeeps DEF StillWritable, Pending, Target, Writing
<1>3. RegistersOK' /\ GrantTimed'
  <2>1. CASE last' = time /\ age' = 0 /\ UNCHANGED <<time, loop>>
    <3>1. RegistersOK'
      BY <1>0, <2>1, StoreKeeps, TimeAssumption DEF RegistersOK, Store, Aged
    <3>2. GrantTimed'
      <4>1. Since(time, time) = 0
        BY DEF Since, RegistersOK
      <4>2. 0 <= Window - 1 + loop
        BY TimeAssumption DEF RegistersOK
      <4> QED BY <2>1, <4>1, <4>2 DEF GrantTimed
    <3> QED BY <3>1, <3>2
  <2>2. CASE /\ loop < LoopMax /\ last' = TornTime /\ age' = 1
             /\ time' = Later(time, 1) /\ loop' = loop + 1
    <3>1. RegistersOK'
      <4>1. last' \in 0..(Wide - 1) /\ time' \in 0..(Wide - 1)
        BY <2>2, LaterType DEF RegistersOK, TornTime
      <4>2. age' \in 0..Aged /\ loop' \in 0..LoopMax
        BY <2>2, TimeAssumption DEF RegistersOK, Aged
      <4> QED BY <1>0, <4>1, <4>2, StoreKeeps DEF RegistersOK, Store
    <3>2. GrantTimed'
      <4>1. Since(Later(time, 1), TornTime) = 1 - Low + Wide
        <5>1. Low \in Nat /\ Wide \in Nat /\ 1 < Low /\ Low + Low <= Wide
          BY TimeAssumption
        <5>2. time \in Nat /\ time < Wide
          BY TimeAssumption DEF RegistersOK
        <5> QED BY <5>1, <5>2 DEF Since, Later, TornTime
      <4>2. 1 <= Window - 1 + (loop + 1)
        BY TimeAssumption DEF RegistersOK
      <4> QED BY <2>2, <4>1, <4>2 DEF GrantTimed
    <3> QED BY <3>1, <3>2
  <2> QED BY <2>1, <2>2
<1> QED BY <1>0, <1>1, <1>2, <1>3, StoreKeeps

LEMMA EndInv == IInv /\ EndAccess => IInv'
<1> SUFFICES ASSUME IInv, EndAccess PROVE IInv'
  OBVIOUS
<1> USE DEF IInv, EndAccess, clock
<1>0. main' = "Write" /\ Writing /\ Store
  BY DEF Writing
<1>1. RegistersOK'
  BY <1>0, StoreKeeps DEF RegistersOK, Store
<1>2. ControlShowsAccess'
  <2>1. regs'[SAFE_ACCESS_CTRL] = Zero
    BY ControlInBank DEF Store, Settled, RegistersOK
  <2> QED BY <2>1, SegmentsAssumption DEF ControlShowsAccess
<1>3. StillWritable'
  <2>1. Target \cap RWA = {}
    <3>1. Target \subseteq Bank /\ SAFE_ACCESS_CTRL \in Target
      BY <1>0, WritingType DEF StillWritable, Pending, Writing, Bank
    <3>2. job.at \in Int /\ job.count \in Int
      BY JobType, SegmentsAssumption
    <3> QED BY <3>1, <3>2, Apart DEF Target
  <2>2. Target' = Target
    BY <1>0, StoreKeeps DEF Target
  <2> QED BY <1>0, <2>1, <2>2 DEF StillWritable, Pending, Writing
<1> QED BY <1>0, <1>1, <1>2, <1>3, StoreKeeps, TimedKept

LEMMA ReloadInv == IInv /\ Reload => IInv'
<1> SUFFICES ASSUME IInv, Reload PROVE IInv'
  OBVIOUS
<1> USE DEF IInv, Reload, clock
<1>1. RegistersOK'
  BY StoreKeeps DEF RegistersOK, Store
<1>2. ControlShowsAccess'
  BY SegmentsAssumption DEF ControlShowsAccess, Store, RegistersOK
<1>3. StillWritable'
  BY StoreKeeps DEF StillWritable, Pending, Target, Writing
<1> QED BY <1>1, <1>2, <1>3, StoreKeeps, TimedKept

LEMMA SaveReturnsInv == IInv /\ SaveReturns => IInv'
<1> SUFFICES ASSUME IInv, SaveReturns PROVE IInv'
  OBVIOUS
<1> USE DEF IInv, SaveReturns, request, clock
<1>1. RegistersOK'
  BY DEF RegistersOK
<1> QED BY <1>1, TimedKept
        DEF ControlShowsAccess, StillWritable, PartlyWritten, RequestIsAtomic, Pending, Target

(* When all is written, what was partly written is the whole of the request. *)
LEMMA WriteEndsInv == IInv /\ WriteEnds => IInv'
<1> SUFFICES ASSUME IInv, WriteEnds PROVE IInv'
  OBVIOUS
<1> USE DEF IInv, WriteEnds, clock
<1>1. RegistersOK'
  BY DEF RegistersOK
<1>2. ControlShowsAccess' /\ GrantTimed' /\ StillWritable' /\ PartlyWritten'
  BY TimedKept DEF ControlShowsAccess, StillWritable, PartlyWritten, Pending
<1>3. RequestIsAtomic'
  <2>1. Target \subseteq Bank \ RO
    BY SegmentsAssumption DEF StillWritable, Pending, Bank
  <2>2. \A a \in Bank : regs[a] = IF a \in Target THEN Settled(a, job.vals[a - job.at + 1])
                                                  ELSE before[a]
    BY DEF PartlyWritten, Pending, Target
  <2>3. regs = [a \in Bank |-> IF a \in Target THEN Settled(a, job.vals[a - job.at + 1])
                                               ELSE before[a]]
    BY <2>2 DEF RegistersOK
  <2> QED BY <2>1, <2>3 DEF RequestIsAtomic, Target
<1> QED BY <1>1, <1>2, <1>3

LEMMA TransmitInv == IInv /\ Transmit => IInv'
<1> SUFFICES ASSUME IInv, Transmit PROVE IInv'
  OBVIOUS
<1> USE DEF IInv, Transmit, clock
<1>1. RegistersOK'
  BY NoJobType, BlankType DEF RegistersOK
<1> QED BY <1>1, TimedKept
        DEF ControlShowsAccess, StillWritable, PartlyWritten, RequestIsAtomic, Pending

LEMMA ShowUptimeInv == IInv /\ ShowUptime => IInv'
<1> SUFFICES ASSUME IInv, ShowUptime PROVE IInv'
  OBVIOUS
<1> USE DEF IInv, ShowUptime, request, clock
<1>1. PICK shown \in [WORKTIME -> Value] :
        regs' = [a \in Bank |-> IF a \in WORKTIME THEN shown[a] ELSE regs[a]]
  OBVIOUS
<1>2. regs' \in [Bank -> Value]
  BY <1>1 DEF RegistersOK
<1>3. RegistersOK'
  BY <1>2 DEF RegistersOK
<1>4. regs'[SAFE_ACCESS_CTRL] = regs[SAFE_ACCESS_CTRL]
  BY <1>1, ControlInBank, SegmentsAssumption
<1> QED BY <1>3, <1>4, TimedKept
        DEF ControlShowsAccess, StillWritable, PartlyWritten, RequestIsAtomic, Pending

LEMMA SetupInv == IInv /\ Setup => IInv'
<1> SUFFICES ASSUME IInv, Setup PROVE IInv'
  OBVIOUS
<1> USE DEF IInv, Setup, request
<1>1. regs' \in [Bank -> Value]
  BY SegmentsAssumption DEF Value, Zero
<1>2. RegistersOK'
  <2>1. /\ before' = before /\ job' = job /\ answer' = answer
        /\ time' = time /\ age' = age /\ Aged' = Aged
    BY DEF Aged
  <2>2. last' \in 0..(Wide - 1) /\ loop' \in 0..LoopMax
    BY TimeAssumption
  <2>3. safe' = FALSE /\ main' = "Expire"
    OBVIOUS
  <2> QED BY <1>1, <2>1, <2>2, <2>3 DEF RegistersOK
<1>3. regs'[SAFE_ACCESS_CTRL] = Zero
  BY ControlInBank
<1>4. ControlShowsAccess'
  BY <1>3, SegmentsAssumption DEF ControlShowsAccess
<1> QED BY <1>2, <1>4
        DEF GrantTimed, StillWritable, PartlyWritten, RequestIsAtomic, Pending

LEMMA RestartedInv == Restarted => IInv'
<1> SUFFICES ASSUME Restarted PROVE IInv'
  OBVIOUS
<1> USE DEF Restarted
<1>1. RegistersOK'
  <2>1. regs' \in [Bank -> Value] /\ before' \in [Bank -> Value]
    BY BlankType
  <2>2. job' \in Jobs /\ job'.done <= job'.count
    BY NoJobType
  <2>3. /\ last' \in 0..(Wide - 1) /\ time' \in 0..(Wide - 1)
        /\ age' \in 0..Aged /\ loop' \in 0..LoopMax
    BY TimeAssumption DEF Aged
  <2> QED BY <2>1, <2>2, <2>3 DEF RegistersOK
<1>2. ControlShowsAccess'
  BY ControlInBank, SegmentsAssumption DEF ControlShowsAccess, Blank
<1> QED BY <1>1, <1>2
        DEF IInv, GrantTimed, StillWritable, PartlyWritten, RequestIsAtomic, Pending

LEMMA NextInv == IInv /\ [RNext]_rvars => IInv'
<1> SUFFICES ASSUME IInv, [RNext]_rvars PROVE IInv'
  OBVIOUS
<1>1. CASE Expire
  BY <1>1, ExpireInv
<1>2. CASE Serve
  BY <1>2, ServeInv
<1>3. CASE Write
  BY <1>3, PlainInv, GrantInv, EndInv, WriteEndsInv DEF Write
<1>4. CASE Transmit
  BY <1>4, TransmitInv
<1>5. CASE ShowUptime
  BY <1>5, ShowUptimeInv
<1>6. CASE Setup
  BY <1>6, SetupInv
<1>7. CASE Reload
  BY <1>7, ReloadInv
<1>8. CASE SaveReturns
  BY <1>8, SaveReturnsInv
<1>9. CASE Reset \/ PowerLoss
  BY <1>9, RestartedInv DEF Reset, PowerLoss
<1>10. CASE SysTick_Handler
  BY <1>10, TickInv
<1>11. CASE UNCHANGED rvars
  <2> USE <1>11 DEF rvars, request, clock, IInv
  <2>1. RegistersOK'
    BY DEF RegistersOK
  <2> QED BY <2>1, TimedKept
          DEF ControlShowsAccess, StillWritable, PartlyWritten, RequestIsAtomic,
              Pending, Target
<1> QED BY <1>1, <1>2, <1>3, <1>4, <1>5, <1>6, <1>7, <1>8, <1>9, <1>10, <1>11
        DEF RNext, Run

------------------------------------------------------------------------------
(* Theorems                                                                *)

THEOREM Invariance == RSpec => []IInv
BY InitInv, NextInv, PTL DEF RSpec

(* Every register keeps its width, and the clock and the job their bounds. *)
THEOREM TypeCorrect == RSpec => []RegistersOK
<1>1. IInv => RegistersOK
  BY DEF IInv
<1> QED BY <1>1, Invariance, PTL

(* The control register shows whether access is granted, whatever was       *)
(* written to it and however the window closed.                             *)
THEOREM ControlIsTrue == RSpec => []ControlShowsAccess
<1>1. IInv => ControlShowsAccess
  BY DEF IInv
<1> QED BY <1>1, Invariance, PTL

(* A request has all of its effect or none, for any number of registers,   *)
(* although they are written one by one and access may end on the way.      *)
THEOREM Atomicity == RSpec => []RequestIsAtomic
<1>1. IInv => RequestIsAtomic
  BY DEF IInv
<1> QED BY <1>1, Invariance, PTL

------------------------------------------------------------------------------
(* The registers implement SafeAccess.                                     *)

Prot == [a \in RWA |-> regs[a]]

LEMMA ProtKept ==
  ASSUME RegistersOK, NEW a, a \notin RWA, NEW v,
         regs' = [regs EXCEPT ![a] = v]
  PROVE  Prot' = Prot
BY DEF Prot, RegistersOK, Bank

(* Each step is a step of SafeAccess or changes nothing it knows of. *)
LEMMA StepSimulates == IInv /\ [RNext]_rvars => [SA!SANext]_<<Prot, safe, age>>
<1> SUFFICES ASSUME IInv, [RNext]_rvars PROVE [SA!SANext]_<<Prot, safe, age>>
  OBVIOUS
<1> USE DEF SA!SANext, SA!Grant, SA!Close, SA!Elapse, SA!Change, SA!Forget
<1>0. RegistersOK /\ GrantTimed /\ StillWritable
  BY DEF IInv
<1>1. CASE UNCHANGED <<regs, safe, age>>
  BY <1>1 DEF Prot
<1>2. ASSUME Restarted PROVE SA!Forget
  <2>1. Prot' = [a \in DOMAIN Prot |-> {}]
    BY <1>2 DEF Restarted, Prot, Blank, Bank, Zero
  <2> QED BY <1>2, <2>1 DEF Restarted, Prot
<1>3. CASE Expire
  <2>1. Prot' = Prot
    <3>1. ASSUME NEW now, Look(now) PROVE Prot' = Prot
      <4>1. CASE UNCHANGED regs
        BY <4>1 DEF Prot
      <4>2. CASE regs' = [regs EXCEPT ![SAFE_ACCESS_CTRL] = Zero]
        BY <1>0, <4>2, ProtKept, ControlInBank
      <4> QED BY <3>1, <4>1, <4>2 DEF Look
    <3> QED BY <1>3, <3>1 DEF Expire
  <2>2. age' >= age
    BY <1>3, <1>0, TimeAssumption DEF Expire, Older, RegistersOK, Aged
  <2>3. safe' = FALSE \/ safe' = safe
    BY <1>3, Zenon DEF Expire, Look
  <2> QED BY <2>1, <2>2, <2>3 DEF Prot
<1>4. CASE WritePlain
  <2>1. UNCHANGED <<safe, age>>
    BY <1>4 DEF WritePlain, clock
  <2>2. CASE Addr \in RWA
    <3>1. safe
      BY <1>4, <2>2, WritingType DEF WritePlain
    <3>2. age < Aged
      BY <1>0, <3>1, TimeAssumption DEF GrantTimed, RegistersOK, Aged
    <3> QED BY <2>1, <3>1, <3>2 DEF Prot
  <2>3. CASE Addr \notin RWA
    BY <1>0, <1>4, <2>1, <2>3, ProtKept DEF WritePlain, Store, Prot
  <2> QED BY <2>2, <2>3
<1>5. CASE GrantAccess
  <2>1. Prot' = Prot
    BY <1>0, <1>5, ProtKept, ControlInBank DEF GrantAccess, Store
  <2>2. safe' = TRUE /\ age' \in 0..1
    BY <1>5 DEF GrantAccess
  <2> QED BY <2>1, <2>2 DEF Prot
<1>6. CASE EndAccess
  <2>1. Prot' = Prot
    BY <1>0, <1>6, ProtKept, ControlInBank DEF EndAccess, Store
  <2> QED BY <1>6, <2>1 DEF EndAccess, Prot
<1>7. CASE Reload
  <2>1. Prot' = Prot
    BY <1>0, <1>7, ProtKept, ControlInBank DEF Reload, Store
  <2> QED BY <1>7, <2>1 DEF Reload, clock, Prot
<1>8. CASE ShowUptime
  <2>1. Prot' = Prot
    BY <1>0, <1>8, SegmentsAssumption DEF ShowUptime, Prot, Bank
  <2> QED BY <1>8, <2>1 DEF ShowUptime, clock, Prot
<1>9. CASE Setup
  <2>1. Prot' = [a \in DOMAIN Prot |-> {}]
    BY <1>9, SegmentsAssumption DEF Setup, Prot, Bank, Zero
  <2> QED BY <1>9, <2>1 DEF Setup, Prot
<1>10. CASE SysTick_Handler
  <2>1. age' >= age
    BY <1>10, <1>0, TimeAssumption DEF SysTick_Handler, SysTick, Older, RegistersOK, Aged
  <2> QED BY <1>10, <2>1 DEF SysTick_Handler, Prot
<1>11. CASE Serve \/ WriteEnds \/ Transmit \/ SaveReturns \/ UNCHANGED rvars
  BY <1>1, <1>11 DEF Serve, NoRequest, ReadRegisters, WriteRegisters, MaskWriteRegister,
     WriteEnds, Transmit, SaveReturns, clock, rvars
<1>12. CASE Reset \/ PowerLoss
  BY <1>2, <1>12 DEF Reset, PowerLoss, Prot
<1> QED BY <1>3, <1>4, <1>5, <1>6, <1>7, <1>8, <1>9, <1>10, <1>11, <1>12
        DEF RNext, Run, Write

(* The protected registers only change while access is granted, and less    *)
(* than a window and an iteration after the key was written, for any length *)
(* of either and any width of the clock, although its reads may be torn.    *)
THEOREM WindowKept == RSpec => ChangesOnlyWithinWindow
<1>1. RInit => ~safe
  BY DEF RInit
<1> QED BY <1>1, Invariance, StepSimulates, PTL
        DEF RSpec, ChangesOnlyWithinWindow, SA!SASpec, Prot

=============================================================================
