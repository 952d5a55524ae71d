----------------------------- MODULE ModbusProofs -----------------------------
(* Theorems about the receiver, for every size of the buffer, every width  *)
(* of mb_timer_ref and whatever frames the master sends.                   *)
EXTENDS Modbus, TLAPS

(* Each status but CTRL_AND_WAITING is free of errors, and bounds the ticks *)
(* counted in it: the count that reaches a threshold leaves the status.     *)
ErrorWaits == status # "WAIT" => ~err
TicksBounded ==
  /\ status = "RECV" => tcnt < WAITING
  /\ status \in {"INIT", "WAIT"} => tcnt < FINISHED

(* Before the first byte of a frame is stored the buffer is empty. *)
EmptyBefore == status \in {"INIT", "IDLE"} => req = <<>>

(* The main loop owns the buffer until it sets the receiver idle: in        *)
(* RECV_FINISH neither handler changes what it works on.                    *)
MainOwns ==
  /\ main # "Poll" => status = "FINISH"
  /\ main = "SetIdle" => req = <<>>

RegistersOK ==
  /\ status \in Statuses /\ tcnt \in 0..7 /\ err \in BOOLEAN
  /\ ref \in -(RefMax + 1)..RefMax /\ running \in BOOLEAN /\ tick \in BOOLEAN
BufferOK == req \in Seq(Byte) /\ Len(req) <= BufSize
MainOK ==
  /\ main \in {"Poll", "Parse", "Send", "ClearErr", "ClearCnt", "ClearLen", "SetIdle"}
  /\ result \in Results /\ response \in 0..MaxFrames
  /\ sent \in [frame : 0..MaxFrames, after : Results]
LineOK ==
  /\ rx \in Byte
  /\ frames \in Seq([kind : Kinds, len : Nat]) /\ Len(frames) <= MaxFrames
  /\ bytes \in Nat /\ silence \in 0..LongSilence

TypeParts == RegistersOK /\ BufferOK /\ MainOK /\ LineOK
Receiving == TimerRunsWhileReceiving /\ ErrorWaits /\ TicksBounded /\ EmptyBefore /\ MainOwns
IInv == TypeParts /\ Receiving

LEMMA PartsOfType == TypeParts <=> TypeOK
BY DEF TypeParts, RegistersOK, BufferOK, MainOK, LineOK, TypeOK

LEMMA WrappedType ==
  ASSUME NEW n \in -(RefMax + 2)..(RefMax + 1)
  PROVE  Wrapped(n) \in -(RefMax + 1)..RefMax
BY FramesAssumption DEF Wrapped

(* The timer's count changes by one at most, and stays an int8_t. *)
LEMMA RefSteps ==
  ASSUME RegistersOK
  PROVE  /\ Wrapped(ref - 1) \in -(RefMax + 1)..RefMax
         /\ Wrapped(ref + 1) \in -(RefMax + 1)..RefMax
<1>1. ref - 1 \in -(RefMax + 2)..(RefMax + 1) /\ ref + 1 \in -(RefMax + 2)..(RefMax + 1)
  BY FramesAssumption DEF RegistersOK
<1>. QED
  BY <1>1, WrappedType

LEMMA AppendByte ==
  ASSUME BufferOK, LineOK
  PROVE  /\ Append(req, rx) \in Seq(Byte)
         /\ Len(Append(req, rx)) = Len(req) + 1
BY DEF BufferOK, LineOK

LEMMA EmptyBuffer == ASSUME req' = <<>> PROVE BufferOK'
<1>1. req' \in Seq(Byte) /\ Len(req') = 0
  OBVIOUS
<1>. QED
  BY <1>1, FramesAssumption DEF BufferOK

(* The length of what StartFrame and StoreByte leave. *)
LEMMA StartSize ==
  ASSUME BufferOK, LineOK, req = <<>>
  PROVE  Len(req) = 0 /\ Append(req, rx) \in Seq(Byte) /\ Len(Append(req, rx)) <= BufSize
BY AppendByte, FramesAssumption

LEMMA RestartType ==
  ASSUME RegistersOK, NEW n, Restart(n)
  PROVE  /\ ref' \in -(RefMax + 1)..RefMax /\ running' \in BOOLEAN
         /\ running => running' /\ (n = 1 => running')
BY RefSteps DEF Restart, RegistersOK

LEMMA InitInv == Init => IInv
<1>1. Init => RegistersOK
  <2>1. 0 \in -(RefMax + 1)..RefMax
    BY FramesAssumption
  <2>2. 0 \in 0..7
    OBVIOUS
  <2>3. Init => ref \in -(RefMax + 1)..RefMax
    BY <2>1, Zenon DEF Init
  <2>4. Init => status \in Statuses /\ tcnt \in 0..7
    BY <2>2 DEF Init, Statuses
  <2>5. Init => err \in BOOLEAN /\ running \in BOOLEAN /\ tick \in BOOLEAN
    BY Zenon DEF Init
  <2>. QED
    BY <2>3, <2>4, <2>5, Zenon DEF RegistersOK
<1>2. Init => BufferOK
  BY FramesAssumption DEF Init, BufferOK
<1>3. Init => MainOK
  BY FramesAssumption DEF Init, MainOK, Results, NoAnswer
<1>4. Init => LineOK
  BY FramesAssumption DEF Init, LineOK, NoByte, Byte, LongSilence
<1>5. Init => Receiving
  BY DEF Init, Receiving, TimerRunsWhileReceiving, ErrorWaits, TicksBounded,
       EmptyBefore, MainOwns, WAITING, FINISHED
<1>. QED
  BY <1>1, <1>2, <1>3, <1>4, <1>5 DEF IInv, TypeParts

------------------------------------------------------------------------------
(* The handlers. *)

LEMMA CountKeeps ==
  ASSUME IInv, CountTick, tick' \in BOOLEAN, ~(status = "WAIT" /\ tcnt + 1 >= FINISHED),
         UNCHANGED <<rx, mainloop, line>>
  PROVE  IInv'
<1>. USE DEF IInv, TypeParts
<1>1. RegistersOK'
  BY DEF CountTick, RegistersOK, Receiving, TicksBounded, Statuses, WAITING, FINISHED
<1>2. BufferOK' /\ MainOK' /\ LineOK'
  BY DEF CountTick, BufferOK, MainOK, LineOK, mainloop, line
<1>3. Receiving'
  BY DEF CountTick, RegistersOK, Receiving, TimerRunsWhileReceiving, ErrorWaits,
       TicksBounded, EmptyBefore, MainOwns, Statuses, WAITING, FINISHED, mainloop
<1>. QED
  BY <1>1, <1>2, <1>3

LEMMA EndKeeps ==
  ASSUME IInv, EndFrame, tick' \in BOOLEAN, status = "WAIT",
         UNCHANGED <<rx, mainloop, line>>
  PROVE  IInv'
<1>. USE DEF IInv, TypeParts
<1>1. ref' \in -(RefMax + 1)..RefMax /\ running' \in BOOLEAN
  BY RefSteps DEF EndFrame, modbus_timer_disable, RegistersOK
<1>2. RegistersOK'
  <2>1. tcnt' \in 0..7
    BY DEF EndFrame, RegistersOK, Receiving, TicksBounded, FINISHED
  <2>2. status' \in Statuses /\ err' \in BOOLEAN
    BY DEF EndFrame, RegistersOK, Statuses
  <2>. QED
    BY <1>1, <2>1, <2>2 DEF RegistersOK
<1>3. BufferOK'
  BY EmptyBuffer DEF EndFrame, BufferOK
<1>4. MainOK' /\ LineOK'
  BY DEF MainOK, LineOK, mainloop, line
<1>5. Receiving'
  BY DEF EndFrame, RegistersOK, Receiving, TimerRunsWhileReceiving, ErrorWaits,
       TicksBounded, EmptyBefore, MainOwns, mainloop
<1>. QED
  BY <1>2, <1>3, <1>4, <1>5

LEMMA TimerKeeps == ASSUME IInv, TMR0_IRQHandler PROVE IInv'
<1>1. CASE status = "WAIT" /\ tcnt + 1 >= FINISHED
  BY <1>1, EndKeeps DEF TMR0_IRQHandler
<1>2. CASE ~(status = "WAIT" /\ tcnt + 1 >= FINISHED)
  BY <1>2, CountKeeps DEF TMR0_IRQHandler
<1>. QED
  BY <1>1, <1>2

LEMMA UartKeeps == ASSUME IInv, UART3_IRQHandler PROVE IInv'
<1>. USE DEF IInv, TypeParts
<1>1. MainOK' /\ LineOK' /\ tick' = tick /\ main' = main
  BY FramesAssumption DEF UART3_IRQHandler, MainOK, LineOK, mainloop, Byte, NoByte, LongSilence
<1>2. CASE StartFrame
  <2>1. req = <<>> /\ Len(req) = 0
    BY <1>2, StartSize DEF StartFrame, Receiving, EmptyBefore
  <2>2. Restart(1)
    BY <1>2, <2>1 DEF StartFrame
  <2>3. BufferOK'
    BY <1>2, <2>1, StartSize DEF StartFrame, BufferOK
  <2>4. RegistersOK'
    BY <1>1, <1>2, <2>2, RestartType DEF StartFrame, RegistersOK, Statuses
  <2>5. running' /\ status' = "RECV" /\ tcnt' = 0 /\ ~err' /\ main = "Poll"
    <3>1. running'
      BY <2>2 DEF Restart
    <3>. QED
      BY <1>2, <3>1 DEF StartFrame, Receiving, ErrorWaits, MainOwns
  <2>6. Receiving'
    BY <1>1, <2>5 DEF Receiving, TimerRunsWhileReceiving, ErrorWaits, TicksBounded,
         EmptyBefore, MainOwns, WAITING, FINISHED
  <2>. QED
    BY <1>1, <2>3, <2>4, <2>6
<1>3. CASE StoreByte
  <2>1. BufferOK'
    BY <1>3, AppendByte, FramesAssumption DEF StoreByte, BufferOK
  <2>2. PICK n : n = Len(req') /\ Restart(n)
    BY <1>3 DEF StoreByte
  <2>3. RegistersOK'
    BY <1>1, <1>3, <2>2, RestartType DEF StoreByte, RegistersOK
  <2>4. Receiving'
    BY <1>1, <1>3, <2>2, RestartType DEF StoreByte, Receiving, TimerRunsWhileReceiving,
         ErrorWaits, TicksBounded, EmptyBefore, MainOwns, WAITING, FINISHED
  <2>. QED
    BY <1>1, <2>1, <2>3, <2>4
<1>4. CASE LateByte
  <2>1. BufferOK'
    BY <1>4 DEF LateByte, BufferOK
  <2>2. RegistersOK'
    BY <1>1, <1>4, RestartType DEF LateByte, RegistersOK
  <2>3. Receiving'
    BY <1>1, <1>4, RestartType DEF LateByte, Receiving, TimerRunsWhileReceiving,
         ErrorWaits, TicksBounded, EmptyBefore, MainOwns, WAITING, FINISHED
  <2>. QED
    BY <1>1, <2>1, <2>2, <2>3
<1>5. CASE IgnoredByte
  <2>1. BufferOK'
    BY <1>5 DEF IgnoredByte, BufferOK
  <2>2. RegistersOK'
    BY <1>1, <1>5, RestartType DEF IgnoredByte, RegistersOK
  <2>3. Receiving'
    BY <1>1, <1>5, RestartType DEF IgnoredByte, Receiving, TimerRunsWhileReceiving,
         ErrorWaits, TicksBounded, EmptyBefore, MainOwns, WAITING, FINISHED
  <2>. QED
    BY <1>1, <2>1, <2>2, <2>3
<1>. QED
  BY <1>2, <1>3, <1>4, <1>5 DEF UART3_IRQHandler

------------------------------------------------------------------------------
(* The main loop and the line. *)

LEMMA AnswerType == ASSUME MainOK, LineOK, ParseRequest
                    PROVE  result' \in Results /\ response' \in 0..MaxFrames
<1>1. \A n \in DOMAIN frames : n \in 0..MaxFrames
  BY FramesAssumption DEF LineOK
<1>. QED
  BY <1>1, FramesAssumption DEF ParseRequest, IsRequest, MainOK, Results

LEMMA MainKeeps == ASSUME IInv, Main PROVE IInv'
<1>. USE DEF IInv, TypeParts
<1>1. LineOK' /\ UNCHANGED <<tick, ref, running>>
  BY DEF Main, Poll, Parse, Send, ClearErr, ClearCnt, ClearLen, SetIdle, At, line,
       receiver, LineOK
<1>2. RegistersOK'
  <2>1. status' \in Statuses /\ tcnt' \in 0..7
    BY DEF Main, Poll, Parse, Send, ClearErr, ClearCnt, ClearLen, SetIdle,
         receiver, RegistersOK, Statuses
  <2>2. err' = err \/ err' = FALSE
    BY Zenon DEF Main, Poll, Parse, Send, ClearErr, ClearCnt, ClearLen, SetIdle, receiver
  <2>3. err' \in BOOLEAN
    BY <2>2, Zenon DEF RegistersOK
  <2>. QED
    BY <1>1, <2>1, <2>3 DEF RegistersOK
<1>3. BufferOK'
  <2>1. CASE ClearLen
    BY <2>1, EmptyBuffer DEF ClearLen
  <2>2. CASE ~ClearLen
    BY <2>2 DEF Main, Poll, Parse, Send, ClearErr, ClearCnt, SetIdle, receiver, BufferOK
  <2>. QED
    BY <2>1, <2>2
<1>4. MainOK'
  <2>1. CASE Parse
    BY <2>1, AnswerType DEF Parse, At, MainOK
  <2>2. CASE Send
    BY <2>2 DEF Send, At, MainOK
  <2>. QED
    BY <2>1, <2>2 DEF Main, Poll, ClearErr, ClearCnt, ClearLen, SetIdle, At, MainOK
<1>5. Receiving'
  BY <1>1 DEF Main, Poll, Parse, Send, ClearErr, ClearCnt, ClearLen, SetIdle, At,
       receiver, RegistersOK, MainOK, Receiving, TimerRunsWhileReceiving, ErrorWaits,
       TicksBounded, EmptyBefore, MainOwns, WAITING, FINISHED
<1>. QED
  BY <1>1, <1>2, <1>3, <1>4, <1>5

LEMMA ReceiverKeeps ==
  ASSUME IInv, UNCHANGED <<receiver, mainloop>>
  PROVE  BufferOK' /\ MainOK' /\ Receiving' /\ (tick' \in BOOLEAN => RegistersOK')
BY DEF IInv, TypeParts, receiver, mainloop, BufferOK, MainOK, RegistersOK, Receiving,
     TimerRunsWhileReceiving, ErrorWaits, TicksBounded, EmptyBefore, MainOwns

LEMMA LineKeeps == ASSUME IInv, HalfCharacter \/ Line PROVE IInv'
<1>. USE DEF IInv, TypeParts
<1>1. CASE HalfCharacter
  <2>1. LineOK'
    BY <1>1 DEF HalfCharacter, LineOK, LongSilence
  <2>. QED
    BY <1>1, <2>1, ReceiverKeeps DEF HalfCharacter, mainloop, receiver, RegistersOK
<1>2. CASE NextByte
  <2>1. LineOK'
    BY <1>2, FramesAssumption DEF NextByte, Arrives, Byte, LineOK
  <2>. QED
    BY <1>2, <2>1, ReceiverKeeps DEF NextByte, mainloop, receiver, RegistersOK
<1>3. ASSUME NEW kind \in FrameKinds, NEW len \in FrameLens, NewFrame(kind, len)
      PROVE  IInv'
  <2>1. [kind |-> kind, len |-> len] \in [kind : Kinds, len : Nat]
    BY FramesAssumption
  <2>2. frames' \in Seq([kind : Kinds, len : Nat]) /\ Len(frames') = Len(frames) + 1
    BY <1>3, <2>1 DEF NewFrame, LineOK
  <2>3. LineOK'
    BY <1>3, <2>2, FramesAssumption DEF NewFrame, Arrives, Byte, LineOK
  <2>. QED
    BY <1>3, <2>3, ReceiverKeeps DEF NewFrame, mainloop, receiver, RegistersOK
<1>. QED
  BY <1>1, <1>2, <1>3 DEF Line

LEMMA NextInv == ASSUME IInv, [Next]_vars PROVE IInv'
<1>1. CASE UNCHANGED vars
  <2>1. UNCHANGED <<receiver, mainloop, line, tick, rx>>
    BY <1>1 DEF vars
  <2>2. LineOK'
    BY <2>1 DEF IInv, TypeParts, LineOK, line
  <2>. QED
    BY <2>1, <2>2, ReceiverKeeps DEF IInv, TypeParts, RegistersOK
<1>. QED
  BY <1>1, TimerKeeps, UartKeeps, MainKeeps, LineKeeps DEF Next

------------------------------------------------------------------------------

(* The inductive invariant holds in every run of the receiver. *)
THEOREM Invariance == Spec => []IInv
BY InitInv, NextInv, PTL DEF Spec

(* Every variable keeps its type; in particular req_len never passes the    *)
(* size of req_buf, however long the frame (modbus.c:119).                  *)
THEOREM TypeCorrect == Spec => []TypeOK
<1>1. IInv => TypeOK
  BY PartsOfType DEF IInv
<1>. QED
  BY <1>1, Invariance, PTL

(* The timer runs while a frame is being received, so that something ends   *)
(* it: however the handlers fall between the stores of                      *)
(* modbus_slave_set_idle, and whatever mb_timer_ref has leaked to.          *)
THEOREM NeverDeaf == Spec => []TimerRunsWhileReceiving
<1>1. IInv => TimerRunsWhileReceiving
  BY DEF IInv, Receiving
<1>. QED
  BY <1>1, Invariance, PTL

(* When the receiver is idle its buffer is empty and no error is flagged:   *)
(* a frame never begins in what another one left (modbus.c:38-43).          *)
THEOREM StartsClean == Spec => []CleanStart
<1>1. IInv => CleanStart
  BY DEF IInv, Receiving, ErrorWaits, EmptyBefore, CleanStart
<1>. QED
  BY <1>1, Invariance, PTL

(* No step changes the frame between its parse and the reset of the         *)
(* receiver: bytes that come meanwhile are ignored (modbus.c:112-125).      *)
THEOREM ParserUndisturbed == Spec => ParsedUndisturbed
<1>1. ASSUME IInv, [Next]_vars, main \in {"Parse", "Send", "ClearErr", "ClearCnt"}
      PROVE  req' = req
  <2>1. status = "FINISH"
    BY <1>1 DEF IInv, Receiving, MainOwns
  <2>2. CASE TMR0_IRQHandler
    BY <2>1, <2>2 DEF TMR0_IRQHandler, CountTick
  <2>3. CASE UART3_IRQHandler
    BY <2>1, <2>3 DEF UART3_IRQHandler, StartFrame, StoreByte, LateByte, IgnoredByte
  <2>4. CASE Main
    BY <1>1, <2>4 DEF Main, Poll, Parse, Send, ClearErr, ClearCnt, ClearLen, SetIdle, receiver
  <2>5. CASE HalfCharacter \/ Line
    BY <2>5 DEF HalfCharacter, Line, NextByte, NewFrame, receiver
  <2>6. CASE UNCHANGED vars
    BY <2>6 DEF vars, receiver
  <2>. QED
    BY <1>1, <2>2, <2>3, <2>4, <2>5, <2>6 DEF Next
<1>2. IInv /\ [Next]_vars =>
        [(main \in {"Parse", "Send", "ClearErr", "ClearCnt"}) => req' = req]_vars
  BY <1>1
<1>. QED
  BY <1>2, Invariance, PTL DEF Spec, ParsedUndisturbed

------------------------------------------------------------------------------
(* Frames and the silence between them. *)

Pending == IF tick THEN 1 ELSE 0

(* The ticks counted are those of the silence since the last byte, but for  *)
(* the one that was pending when it came.                                   *)
Clocked ==
  /\ status \in {"RECV", "WAIT"} => tcnt + Pending <= silence + 1
  /\ status = "RECV" => silence <= tcnt + Pending

EndsWith(n) == req[Len(req)].frame = Len(frames) /\ req[Len(req)].at = n

(* A buffer with room ends with the last byte of the line, or with the one  *)
(* before the byte that waits in the UART.  A master that waits for the     *)
(* gap between two frames cannot begin one in RECV.                         *)
UpToDate ==
  /\ rx # NoByte => rx = [frame |-> Len(frames), at |-> bytes]
  /\ status = "RECV" /\ Len(req) < BufSize =>
       EndsWith(IF rx = NoByte THEN bytes ELSE bytes - 1)
  /\ status = "WAIT" /\ ~err /\ Len(req) < BufSize /\ rx = NoByte => EndsWith(bytes)

Unmixed(q) ==
  \A i, j \in DOMAIN q : q[i].frame = q[j].frame /\ q[j].at - q[i].at = j - i
OneFrame ==
  /\ status \in {"RECV", "WAIT"} => req # <<>>
  /\ status \in {"RECV", "WAIT", "FINISH"} => Unmixed(req)

Framing == Clocked /\ UpToDate /\ OneFrame

LEMMA PendingIs ==
  /\ tick => Pending = 1
  /\ ~tick => Pending = 0
  /\ Pending \in {0, 1}
BY DEF Pending

LEMMA PendingThen ==
  /\ tick' => Pending' = 1
  /\ ~tick' => Pending' = 0
  /\ Pending' \in {0, 1}
BY DEF Pending

LEMMA FramingInit == Init => Framing
BY FramesAssumption DEF Init, Framing, Clocked, UpToDate, OneFrame, Unmixed, NoByte

(* The ticks and the silence. *)
LEMMA ClockedTimer ==
  ASSUME IInv, Framing, TMR0_IRQHandler
  PROVE  Clocked'
<1>1. Pending = 1 /\ Pending' = 0 /\ silence' = silence
  BY PendingIs, PendingThen, Zenon DEF TMR0_IRQHandler, line
<1>2. tcnt \in 0..7 /\ silence \in 0..LongSilence
  BY DEF IInv, TypeParts, RegistersOK, LineOK
<1>3. CASE status = "WAIT" /\ tcnt + 1 >= FINISHED
  <2>1. status' \in {"IDLE", "FINISH"}
    BY <1>3 DEF TMR0_IRQHandler, EndFrame
  <2>. QED
    BY <2>1 DEF Clocked
<1>4. CASE ~(status = "WAIT" /\ tcnt + 1 >= FINISHED)
  <2>1. CountTick
    BY <1>4, Zenon DEF TMR0_IRQHandler
  <2>2. /\ status' = "WAIT" => status \in {"RECV", "WAIT"} /\ tcnt' = tcnt + 1
        /\ status' = "RECV" => status = "RECV" /\ tcnt' = tcnt + 1
    BY <2>1 DEF CountTick
  <2>. QED
    BY <1>1, <1>2, <2>2 DEF Framing, Clocked, LongSilence
<1>. QED
  BY <1>3, <1>4

LEMMA ClockedUart ==
  ASSUME IInv, UART3_IRQHandler
  PROVE  Clocked'
<1>1. silence' = 0 /\ (status' \in {"RECV", "WAIT"} => tcnt' = 0)
  BY DEF UART3_IRQHandler, StartFrame, StoreByte, LateByte, IgnoredByte
<1>. QED
  BY <1>1, PendingThen DEF Clocked

LEMMA ClockedMain ==
  ASSUME IInv, Framing, Main
  PROVE  Clocked'
<1>1. status' = status \/ status' = "IDLE"
  BY DEF Main, Poll, Parse, Send, ClearErr, ClearCnt, ClearLen, SetIdle, receiver
<1>2. status # "FINISH" => ~Main
  BY DEF IInv, Receiving, MainOwns, Main, Poll, Parse, Send, ClearErr, ClearCnt, ClearLen, SetIdle
<1>. QED
  BY <1>1, <1>2 DEF Clocked

LEMMA ClockedTime ==
  ASSUME IInv, Framing, HalfCharacter
  PROVE  Clocked'
<1>1. status' = status /\ tcnt' = tcnt
  BY DEF HalfCharacter, receiver
<1>2. status \in {"RECV", "WAIT"} => running
  BY DEF IInv, Receiving, TimerRunsWhileReceiving
<1>3. Pending = 0 /\ (status \in {"RECV", "WAIT"} => Pending' = 1)
  BY <1>2, PendingIs, PendingThen, Zenon DEF HalfCharacter
<1>4. tcnt \in 0..7 /\ silence \in 0..LongSilence
      /\ (status = "RECV" => tcnt < WAITING) /\ (status = "WAIT" => tcnt < FINISHED)
  BY DEF IInv, TypeParts, RegistersOK, LineOK, Receiving, TicksBounded
<1>5. silence' = IF silence < LongSilence THEN silence + 1 ELSE silence
  BY Zenon DEF HalfCharacter
<1>. QED
  BY <1>1, <1>3, <1>4, <1>5 DEF Framing, Clocked, LongSilence, WAITING, FINISHED

LEMMA ClockedStill ==
  ASSUME Framing, UNCHANGED <<status, tcnt, tick, silence>>
  PROVE  Clocked'
BY DEF Framing, Clocked, Pending

LEMMA ClockedKept == ASSUME IInv, Framing, [Next]_vars PROVE Clocked'
<1>1. CASE Line
  BY <1>1, ClockedStill DEF Line, NextByte, NewFrame, receiver
<1>2. CASE UNCHANGED vars
  BY <1>2, ClockedStill DEF vars, receiver, line
<1>. QED
  BY <1>1, <1>2, ClockedTimer, ClockedUart, ClockedMain, ClockedTime DEF Next

(* The bytes in the buffer and those on the line. *)
LEMMA Appended ==
  ASSUME BufferOK, LineOK, NEW q, q = Append(req, rx)
  PROVE  /\ Len(req) \in Nat /\ Len(q) = Len(req) + 1 /\ DOMAIN q = 1..(Len(req) + 1)
         /\ DOMAIN req = 1..Len(req)
         /\ q[Len(req) + 1] = rx /\ q # <<>>
         /\ \A i \in 1..Len(req) : q[i] = req[i]
BY DEF BufferOK, LineOK

LEMMA Heard ==
  ASSUME IInv
  PROVE  /\ Len(req) \in 0..BufSize /\ Len(frames) \in Nat /\ bytes \in Nat
         /\ \A i \in DOMAIN req : req[i].frame \in Int /\ req[i].at \in Int
<1>1. Len(req) \in 0..BufSize /\ Len(frames) \in Nat /\ bytes \in Nat
  BY FramesAssumption DEF IInv, TypeParts, BufferOK, LineOK
<1>2. \A i \in DOMAIN req : req[i] \in Byte
  BY DEF IInv, TypeParts, BufferOK
<1>3. \A b \in Byte : b.frame \in Int /\ b.at \in Int
  BY FramesAssumption DEF Byte
<1>. QED
  BY <1>1, <1>2, <1>3, Zenon

LEMMA TimerSteps ==
  ASSUME TMR0_IRQHandler
  PROVE  /\ UNCHANGED <<rx, frames, bytes>>
         /\ status' = "RECV" => status = "RECV" /\ UNCHANGED <<req, err>>
         /\ status' = "WAIT" => status \in {"RECV", "WAIT"} /\ UNCHANGED <<req, err>>
         /\ status' = "FINISH" => status \in {"WAIT", "FINISH"} /\ UNCHANGED <<req, err>>
<1>1. UNCHANGED <<rx, frames, bytes>>
  BY DEF TMR0_IRQHandler, line
<1>2. CASE status = "WAIT" /\ tcnt + 1 >= FINISHED
  <2>1. EndFrame
    BY <1>2, Zenon DEF TMR0_IRQHandler
  <2>. QED
    BY <1>1, <1>2, <2>1 DEF EndFrame
<1>3. CASE ~(status = "WAIT" /\ tcnt + 1 >= FINISHED)
  <2>1. CountTick
    BY <1>3, Zenon DEF TMR0_IRQHandler
  <2>. QED
    BY <1>1, <1>3, <2>1 DEF CountTick
<1>. QED
  BY <1>2, <1>3

LEMMA MainSteps ==
  ASSUME IInv, Main
  PROVE  /\ status = "FINISH" /\ status' \in {"FINISH", "IDLE"}
         /\ UNCHANGED <<rx, frames, bytes>>
         /\ req' = req \/ req' = <<>>
<1>1. status = "FINISH"
  BY DEF IInv, Receiving, MainOwns, Main, Poll, Parse, Send, ClearErr, ClearCnt, ClearLen, SetIdle
<1>2. status' = status \/ status' = "IDLE"
  BY DEF Main, Poll, Parse, Send, ClearErr, ClearCnt, ClearLen, SetIdle, receiver
<1>3. UNCHANGED <<rx, frames, bytes>>
  BY DEF Main, Poll, Parse, Send, ClearErr, ClearCnt, ClearLen, SetIdle, At, line
<1>4. req' = req \/ req' = <<>>
  BY DEF Main, Poll, Parse, Send, ClearErr, ClearCnt, ClearLen, SetIdle, receiver
<1>. QED
  BY <1>1, <1>2, <1>3, <1>4

LEMMA FirstByte ==
  ASSUME IInv, StartFrame
  PROVE  Len(req') = 1 /\ DOMAIN req' = {1} /\ req'[1] = rx /\ req' # <<>>
<1>1. req = <<>> /\ req' = Append(req, rx)
  BY DEF StartFrame, IInv, Receiving, EmptyBefore
<1>2. Len(req) = 0
  BY <1>1
<1>. QED
  BY <1>1, <1>2, Appended DEF IInv, TypeParts

LEMMA StoredByte ==
  ASSUME IInv, StoreByte
  PROVE  \/ Len(req) < BufSize /\ req' = Append(req, rx)
         \/ Len(req) = BufSize /\ req' = req
<1>1. Len(req) < BufSize \/ Len(req) = BufSize
  BY Heard, FramesAssumption
<1>. QED
  BY <1>1, FramesAssumption DEF StoreByte

LEMMA UpToDateUart ==
  ASSUME IInv, Framing, UART3_IRQHandler
  PROVE  UpToDate'
<1>1. rx' = NoByte /\ rx # NoByte /\ UNCHANGED <<frames, bytes>>
  BY DEF UART3_IRQHandler
<1>2. rx = [frame |-> Len(frames), at |-> bytes]
  BY <1>1 DEF Framing, UpToDate
<1>3. CASE StartFrame
  <2>1. status' = "RECV"
    BY <1>3 DEF StartFrame
  <2>. QED
    <3>1. req'[Len(req')] = rx
      BY <1>3, FirstByte
    <3>. QED
      BY <1>1, <1>2, <2>1, <3>1 DEF UpToDate, EndsWith
<1>4. CASE StoreByte
  <2>1. status' = "RECV"
    BY <1>4 DEF StoreByte
  <2>2. CASE Len(req) < BufSize /\ req' = Append(req, rx)
    <3>1. Len(req') = Len(req) + 1 /\ req'[Len(req) + 1] = rx
      BY <2>2, Appended DEF IInv, TypeParts
    <3>. QED
      BY <1>1, <1>2, <2>1, <3>1 DEF UpToDate, EndsWith
  <2>3. CASE Len(req) = BufSize /\ req' = req
    BY <1>1, <2>1, <2>3, FramesAssumption DEF UpToDate
  <2>. QED
    BY <1>4, <2>2, <2>3, StoredByte
<1>5. CASE LateByte
  BY <1>1, <1>5 DEF LateByte, UpToDate
<1>6. CASE IgnoredByte
  BY <1>1, <1>6 DEF IgnoredByte, UpToDate
<1>. QED
  BY <1>3, <1>4, <1>5, <1>6 DEF UART3_IRQHandler

(* In RECV the silence is shorter than the gap a new frame waits for. *)
LEMMA NoGap == ASSUME IInv, Framing, status = "RECV" PROVE silence < FrameGap
<1>1. tcnt \in 0..7 /\ tcnt < WAITING /\ silence \in Nat
  BY DEF IInv, TypeParts, RegistersOK, LineOK, Receiving, TicksBounded, LongSilence
<1>. QED
  BY <1>1, PendingIs DEF Framing, Clocked, WAITING, FrameGap

LEMMA UpToDateLine ==
  ASSUME IInv, Framing, Line
  PROVE  UpToDate'
<1>1. UNCHANGED <<status, err, req>> /\ rx = NoByte
  BY DEF Line, NextByte, NewFrame, Arrives, receiver
<1>2. CASE NextByte
  <2>1. rx' = [frame |-> Len(frames), at |-> bytes + 1] /\ bytes' = bytes + 1 /\ frames' = frames
    BY <1>2 DEF NextByte, Arrives
  <2>2. Len(frames) > 0
    BY <1>2 DEF NextByte, IInv, TypeParts, LineOK
  <2>3. rx' # NoByte
    BY <2>1, <2>2 DEF NoByte
  <2>4. bytes' - 1 = bytes
    BY <2>1, Heard
  <2>. QED
    BY <1>1, <2>1, <2>3, <2>4 DEF Framing, UpToDate, EndsWith
<1>3. ASSUME NEW kind \in FrameKinds, NEW len \in FrameLens, NewFrame(kind, len)
      PROVE  UpToDate'
  <2>1. status # "RECV"
    BY <1>3, NoGap DEF NewFrame, IInv, TypeParts, LineOK, LongSilence, FrameGap
  <2>2. rx' = [frame |-> Len(frames) + 1, at |-> 1] /\ bytes' = 1 /\ Len(frames') = Len(frames) + 1
    BY <1>3 DEF NewFrame, Arrives, IInv, TypeParts, LineOK
  <2>3. rx' # NoByte
    BY <2>2, Heard DEF NoByte
  <2>. QED
    BY <1>1, <2>1, <2>2, <2>3 DEF UpToDate
<1>. QED
  BY <1>2, <1>3 DEF Line

LEMMA UpToDateKept == ASSUME IInv, Framing, [Next]_vars PROVE UpToDate'
<1>1. CASE TMR0_IRQHandler
  BY <1>1, TimerSteps DEF Framing, UpToDate, EndsWith, IInv, Receiving, ErrorWaits
<1>2. CASE Main
  BY <1>2, MainSteps DEF Framing, UpToDate
<1>3. CASE HalfCharacter
  BY <1>3 DEF HalfCharacter, receiver, Framing, UpToDate, EndsWith
<1>4. CASE UNCHANGED vars
  BY <1>4 DEF vars, receiver, line, Framing, UpToDate, EndsWith
<1>. QED
  BY <1>1, <1>2, <1>3, <1>4, UpToDateUart, UpToDateLine DEF Next

LEMMA OneFrameUart ==
  ASSUME IInv, Framing, UART3_IRQHandler
  PROVE  OneFrame'
<1>1. CASE StartFrame
  <2>1. \A i, j \in DOMAIN req' : i = 1 /\ j = 1
    BY <1>1, FirstByte
  <2>2. rx.at \in Nat
    BY DEF IInv, TypeParts, LineOK, Byte
  <2>3. Unmixed(req')
    BY <1>1, <2>1, <2>2, FirstByte DEF Unmixed
  <2>. QED
    BY <1>1, <2>3, FirstByte DEF OneFrame, Unmixed
<1>2. CASE StoreByte
  <2>1. Unmixed(req) /\ req # <<>> /\ status = "RECV" /\ status' = "RECV"
    BY <1>2 DEF StoreByte, Framing, OneFrame
  <2>2. CASE Len(req) < BufSize /\ req' = Append(req, rx)
    <3>. DEFINE n == Len(req)
    <3>1. /\ n \in Nat /\ DOMAIN req = 1..n /\ DOMAIN req' = 1..(n + 1) /\ req'[n + 1] = rx
          /\ req' # <<>> /\ \A i \in 1..n : req'[i] = req[i]
      BY <2>2, Appended DEF IInv, TypeParts
    <3>2. n > 0
      BY <2>1, <3>1 DEF IInv, TypeParts, BufferOK
    <3>3. rx # NoByte
      BY Zenon DEF UART3_IRQHandler
    <3>4. rx.frame = Len(frames) /\ rx.at = bytes
      BY <3>3 DEF Framing, UpToDate
    <3>5. req[n].frame = Len(frames) /\ req[n].at = bytes - 1
      BY <2>1, <2>2, <3>3 DEF Framing, UpToDate, EndsWith
    <3>6. \A i \in 1..n : req[i].frame = rx.frame /\ rx.at - req[i].at = n + 1 - i
      <4>1. \A i \in 1..n : req[i].frame = req[n].frame /\ req[n].at - req[i].at = n - i
        BY <2>1, <3>1, <3>2 DEF Unmixed
      <4>2. \A i \in 1..n : req[i].at \in Int
        BY <3>1, Heard
      <4>. QED
        BY <3>1, <3>4, <3>5, <4>1, <4>2, Heard
    <3>7. ASSUME NEW i \in 1..(n + 1), NEW j \in 1..(n + 1)
          PROVE  req'[i].frame = req'[j].frame /\ req'[j].at - req'[i].at = j - i
      <4>1. \A k \in 1..n : req[k].at \in Int
        BY <3>1, Heard
      <4>2. bytes \in Nat
        BY Heard
      <4>3. CASE i \in 1..n /\ j \in 1..n
        BY <2>1, <3>1, <4>3 DEF Unmixed
      <4>4. CASE i = n + 1 /\ j \in 1..n
        <5>1. req'[i] = rx /\ req'[j] = req[j]
          BY <3>1, <4>4
        <5>2. req[j].frame = rx.frame /\ rx.at - req[j].at = n + 1 - j
          BY <3>6, <4>4
        <5>3. rx.at \in Int /\ req[j].at \in Int
          BY <3>4, <4>1, <4>2, <4>4
        <5>. QED
          BY <3>1, <4>4, <5>1, <5>2, <5>3
      <4>5. CASE i \in 1..n /\ j = n + 1
        BY <3>1, <3>6, <4>5
      <4>6. CASE i = n + 1 /\ j = n + 1
        BY <3>1, <3>4, <4>2, <4>6
      <4>. QED
        BY <3>1, <4>3, <4>4, <4>5, <4>6
    <3>8. Unmixed(req')
      BY <3>1, <3>7 DEF Unmixed
    <3>. QED
      BY <3>1, <3>8 DEF OneFrame, Unmixed
  <2>3. CASE Len(req) = BufSize /\ req' = req
    BY <2>1, <2>3 DEF OneFrame, Unmixed
  <2>. QED
    BY <1>2, <2>2, <2>3, StoredByte
<1>3. CASE LateByte \/ IgnoredByte
  BY <1>3 DEF LateByte, IgnoredByte, Framing, OneFrame, Unmixed
<1>. QED
  BY <1>1, <1>2, <1>3 DEF UART3_IRQHandler

LEMMA OneFrameKept == ASSUME IInv, Framing, [Next]_vars PROVE OneFrame'
<1>1. CASE TMR0_IRQHandler
  BY <1>1, TimerSteps DEF Framing, OneFrame, Unmixed, IInv, Receiving, ErrorWaits
<1>2. CASE Main
  BY <1>2, MainSteps DEF Framing, OneFrame, Unmixed
<1>3. CASE HalfCharacter \/ Line \/ UNCHANGED vars
  <2>1. UNCHANGED <<status, req>>
    BY <1>3 DEF HalfCharacter, Line, NextByte, NewFrame, vars, receiver
  <2>. QED
    BY <2>1 DEF Framing, OneFrame, Unmixed
<1>. QED
  BY <1>1, <1>2, <1>3, OneFrameUart DEF Next

(* And so the bytes, frames and silence agree in every run. *)
LEMMA FramingHolds == Spec => [](IInv /\ Framing)
<1>1. Init => IInv /\ Framing
  BY InitInv, FramingInit
<1>2. IInv /\ Framing /\ [Next]_vars => (IInv /\ Framing)'
  BY NextInv, ClockedKept, UpToDateKept, OneFrameKept DEF Framing
<1>. QED
  BY <1>1, <1>2, PTL DEF Spec

(* The bytes handed over to the main loop follow each other in one frame of *)
(* the master, however long its frames and pauses, and whatever is left of  *)
(* the frame before when they come (slave_recv, modbus.c:100-141).          *)
THEOREM Frames == Spec => []FramesNotMixed
<1>1. Framing => FramesNotMixed
  BY DEF Framing, OneFrame, Unmixed, FramesNotMixed
<1>. QED
  BY <1>1, FramingHolds, PTL

LEMMA LeavesWaiting ==
  ASSUME IInv, [Next]_vars, status = "WAIT", status' # "WAIT"
  PROVE  tick /\ tcnt + 1 >= FINISHED /\ EndFrame
<1>1. CASE TMR0_IRQHandler
  BY <1>1 DEF TMR0_IRQHandler, CountTick
<1>2. CASE UART3_IRQHandler
  BY <1>2 DEF UART3_IRQHandler, StartFrame, StoreByte, LateByte, IgnoredByte
<1>3. CASE Main
  BY <1>3, MainSteps
<1>4. CASE HalfCharacter \/ Line \/ UNCHANGED vars
  BY <1>4 DEF HalfCharacter, Line, NextByte, NewFrame, vars, receiver
<1>. QED
  BY <1>1, <1>2, <1>3, <1>4 DEF Next

(* A frame is only taken for ended after three characters of silence,       *)
(* although ticks may be pending from before its last byte                  *)
(* (TMR0_IRQHandler and slave_recv, modbus.c:60, 105).                      *)
THEOREM SilenceEnds == Spec => EndsAfterSilence
<1>1. ASSUME IInv, Framing, [Next]_vars, status = "WAIT", status' # "WAIT"
      PROVE  silence >= FrameGap - 1
  <2>1. tick /\ tcnt + 1 >= FINISHED
    BY <1>1, LeavesWaiting
  <2>2. Pending = 1
    BY <2>1, PendingIs
  <2>3. tcnt \in Nat /\ silence \in Nat
    BY <1>1 DEF IInv, TypeParts, RegistersOK, LineOK, LongSilence
  <2>. QED
    BY <1>1, <2>1, <2>2, <2>3 DEF Framing, Clocked, FINISHED, FrameGap
<1>2. IInv /\ Framing /\ [Next]_vars =>
        [status = "WAIT" /\ status' # "WAIT" => silence >= FrameGap - 1]_vars
  BY <1>1
<1>. QED
  BY <1>2, FramingHolds, PTL DEF Spec, EndsAfterSilence

(* What is handed over ends with the last byte of the line, unless the      *)
(* buffer is full or a byte comes at that moment: a frame of which a byte   *)
(* came late is dropped as a whole (modbus.c:77-86, 124-127).               *)
THEOREM DropsWhole == Spec => NothingDropped
<1>. DEFINE Handed == \/ Len(req) = BufSize \/ rx # NoByte
                      \/ req[Len(req)] = [frame |-> Len(frames), at |-> bytes]
<1>1. ASSUME IInv, Framing, [Next]_vars, status = "WAIT", status' = "FINISH"
      PROVE  Handed
  <2>1. ~err
    BY <1>1, LeavesWaiting DEF EndFrame
  <2>2. CASE Len(req) < BufSize /\ rx = NoByte
    <3>1. req[Len(req)].frame = Len(frames) /\ req[Len(req)].at = bytes
      BY <1>1, <2>1, <2>2 DEF Framing, UpToDate, EndsWith
    <3>2. req # <<>> /\ req \in Seq(Byte)
      BY <1>1 DEF Framing, OneFrame, IInv, TypeParts, BufferOK
    <3>3. req[Len(req)] \in [frame : 0..MaxFrames, at : Nat]
      <4>1. req[Len(req)] \in Byte
        BY <3>2
      <4>. QED
        BY <4>1, Zenon DEF Byte
    <3>. QED
      BY <3>1, <3>3
  <2>3. CASE Len(req) >= BufSize
    BY <1>1, <2>3, Heard, FramesAssumption
  <2>. QED
    BY <1>1, <2>2, <2>3, Heard, FramesAssumption
<1>2. IInv /\ Framing /\ [Next]_vars =>
        [status = "WAIT" /\ status' = "FINISH" => Handed]_vars
  BY <1>1
<1>. QED
  BY <1>2, FramingHolds, PTL DEF Spec, NothingDropped
=============================================================================
