-------------------------------- MODULE Modbus --------------------------------
(***************************************************************************)
(* The Modbus RTU receiver of src/src/modbus.c and the serial line it      *)
(* listens to.                                                             *)
(*                                                                         *)
(* Three activities share mb_slave_ctx without a lock: the UART3 handler,  *)
(* which stores received bytes; the TMR0 handler, which counts half        *)
(* characters of silence and decides that a frame has ended; and the main  *)
(* loop, which parses a finished frame and answers it.  The handlers do    *)
(* not preempt each other, and each is one action; the main loop is        *)
(* preempted anywhere, so that modbus_slave_set_idle is one action per     *)
(* store, in the order of the stores.                                      *)
(*                                                                         *)
(* Time passes in half characters, the period of the timer.  A definition  *)
(* with a suffix is the one that follows it with a bug in it (README.md).  *)
(***************************************************************************)
EXTENDS Integers, Sequences

CONSTANTS
  FrameKinds, \* the kinds of frames the master sends: see Kinds
  FrameLens,  \* their lengths, in bytes
  MaxFrames,  \* bound on the number of frames the master sends
  BufSize,    \* the size of req_buf
  RefMax      \* the largest mb_timer_ref: 127 for an int8_t

(* A request for this slave, one to every slave, one for another slave, or *)
(* one damaged on the line. *)
Kinds == {"mine", "broadcast", "other", "damaged"}

ASSUME FramesAssumption ==
  /\ FrameKinds \subseteq Kinds /\ FrameLens \subseteq Nat \ {0}
  /\ MaxFrames \in Nat /\ BufSize \in Nat \ {0} /\ RefMax \in Nat \ {0}

VARIABLES
  status,   \* mb_slave_ctx.status
  tcnt,     \* mb_slave_ctx.tcnt
  err,      \* mb_slave_ctx.flag_frame_err
  req,      \* the first req_len bytes of req_buf
  ref,      \* mb_timer_ref
  running,  \* TMR0 counts
  tick,     \* the interrupt of TMR0 is pending
  rx,       \* the byte in the receiver of UART3, or NoByte
  main,     \* what the main loop does next
  result,   \* the error code of the last parse
  response, \* the frame that slave.response answers, 0 when it is empty
  sent,     \* history: the last answer sent, and what it was sent after
  frames,   \* the frames the master has begun to send, with their kinds
  bytes,    \* the number of bytes sent of the last one
  silence   \* the half characters since the last byte was stored or ignored

receiver == <<status, tcnt, err, req, ref, running>>
mainloop == <<main, result, response, sent>>
line == <<frames, bytes, silence>>
vars == <<receiver, tick, rx, mainloop, line>>

LongSilence == 8
FrameGap == 7    \* the three and a half characters between two frames
CharTime == 2

NoByte == [frame |-> 0, at |-> 0]
Byte == [frame : 0..MaxFrames, at : Nat]
NoAnswer == [frame |-> 0, after |-> "none"]
Results == {"none", "ok", "request", "address"}

(* MODBUS_S_INIT, _IDLE, _RECV, _CTRL_AND_WAITING and _RECV_FINISH *)
Statuses == {"INIT", "IDLE", "RECV", "WAIT", "FINISH"}

TypeOK ==
  /\ status \in Statuses /\ tcnt \in 0..7 /\ err \in BOOLEAN
  /\ req \in Seq(Byte) /\ Len(req) <= BufSize
  /\ ref \in -(RefMax + 1)..RefMax
  /\ running \in BOOLEAN /\ tick \in BOOLEAN /\ rx \in Byte
  /\ main \in {"Poll", "Parse", "Send", "ClearErr", "ClearCnt", "ClearLen", "SetIdle"}
  /\ result \in Results /\ response \in 0..MaxFrames
  /\ sent \in [frame : 0..MaxFrames, after : Results]
  /\ frames \in Seq([kind : Kinds, len : Nat]) /\ Len(frames) <= MaxFrames
  /\ bytes \in Nat /\ silence \in 0..LongSilence

------------------------------------------------------------------------------
(* The timer.  The interrupt it raised stays pending when it is stopped.   *)

(* An int8_t that goes up or down by one wraps around. *)
Wrapped(n) ==
  IF n > RefMax THEN -(RefMax + 1) ELSE IF n < -(RefMax + 1) THEN RefMax ELSE n

(* modbus_timer_disable *)
modbus_timer_disable ==
  /\ ref' = Wrapped(ref - 1)
  /\ running' = (running /\ Wrapped(ref - 1) > 0)

WAITING == 3   \* tcnt at which the frame has ended: one and a half characters
FINISHED == 7  \* tcnt at which the next may begin: three and a half

CountTick ==
  /\ LET begun == status = "INIT" /\ tcnt + 1 >= FINISHED
     IN /\ tcnt' = IF begun \/ status \in {"IDLE", "FINISH"} THEN 0 ELSE tcnt + 1
        /\ status' = IF begun THEN "IDLE"
                     ELSE IF status = "RECV" /\ tcnt + 1 >= WAITING THEN "WAIT"
                     ELSE status
  /\ UNCHANGED <<err, req, ref, running>>

EndFrame_StaysSpoilt ==
  /\ IF err
       THEN status' = "IDLE" /\ tcnt' = 0 /\ req' = <<>> /\ UNCHANGED err
       ELSE status' = "FINISH" /\ tcnt' = tcnt + 1 /\ UNCHANGED <<err, req>>
  /\ modbus_timer_disable
EndFrame_Waits ==
  /\ IF err
       THEN tcnt' = 0 /\ err' = FALSE /\ req' = <<>> /\ UNCHANGED status
       ELSE status' = "FINISH" /\ tcnt' = tcnt + 1 /\ UNCHANGED <<err, req>>
  /\ modbus_timer_disable
EndFrame ==
  /\ IF err
       THEN status' = "IDLE" /\ tcnt' = 0 /\ err' = FALSE /\ req' = <<>>
       ELSE status' = "FINISH" /\ tcnt' = tcnt + 1 /\ UNCHANGED <<err, req>>
  /\ modbus_timer_disable

TMR0_IRQHandler ==
  /\ tick /\ tick' = FALSE
  /\ IF status = "WAIT" /\ tcnt + 1 >= FINISHED THEN EndFrame ELSE CountTick
  /\ UNCHANGED <<rx, mainloop, line>>

------------------------------------------------------------------------------
(* slave_recv, called by the UART3 handler for the byte received.          *)

(* A byte stored: the timer is stopped and, if it was running, restarted;  *)
(* it is enabled as well while req_len is one. *)
Restart(len) ==
  /\ running' = (running \/ len = 1)
  /\ ref' = IF len = 1 THEN Wrapped(ref + 1) ELSE ref

StartFrame ==
  /\ status \in {"INIT", "IDLE"}
  /\ status' = "RECV" /\ tcnt' = 0 /\ req' = Append(req, rx)
  /\ Restart(Len(req) + 1) /\ UNCHANGED err

StoreByte_Unreset ==
  /\ status = "RECV"
  /\ req' = IF Len(req) < BufSize THEN Append(req, rx) ELSE req
  /\ Restart(Len(req')) /\ UNCHANGED <<status, tcnt, err>>

StoreByte_Unbounded ==
  /\ status = "RECV"
  /\ tcnt' = 0 /\ req' = Append(req, rx)
  /\ Restart(Len(req')) /\ UNCHANGED <<status, err>>

StoreByte ==
  /\ status = "RECV"
  /\ tcnt' = 0 /\ req' = IF Len(req) < BufSize THEN Append(req, rx) ELSE req
  /\ Restart(Len(req')) /\ UNCHANGED <<status, err>>

LateByte_Accepted ==
  /\ status = "WAIT"
  /\ tcnt' = 0
  /\ Restart(Len(req)) /\ UNCHANGED <<status, req, err>>

(* A byte after one and a half characters of silence spoils the frame.     *)
LateByte ==
  /\ status = "WAIT"
  /\ tcnt' = 0 /\ err' = TRUE
  /\ Restart(Len(req)) /\ UNCHANGED <<status, req>>

IgnoredByte_Stored ==
  /\ status = "FINISH"
  /\ req' = IF Len(req) < BufSize THEN Append(req, rx) ELSE req
  /\ Restart(Len(req)) /\ UNCHANGED <<status, tcnt, err>>

(* A byte received before the main loop has dealt with the frame is lost.  *)
IgnoredByte ==
  /\ status = "FINISH"
  /\ Restart(Len(req)) /\ UNCHANGED <<status, tcnt, err, req>>

UART3_IRQHandler ==
  /\ rx # NoByte /\ rx' = NoByte /\ silence' = 0
  /\ StartFrame \/ StoreByte \/ LateByte \/ IgnoredByte
  /\ UNCHANGED <<tick, mainloop, frames, bytes>>

------------------------------------------------------------------------------
(* modbus_frame_check, in the main loop.                                   *)

At(label) == main' = label /\ UNCHANGED <<tick, rx, line>>

Poll ==
  /\ main = "Poll" /\ status = "FINISH"
  /\ At(IF err THEN "ClearErr" ELSE "Parse")
  /\ UNCHANGED <<receiver, result, response, sent>>

Whole(n) == req = [i \in 1..frames[n].len |-> [frame |-> n, at |-> i]]
IsRequest(n, kind) == n \in DOMAIN frames /\ Whole(n) /\ frames[n].kind = kind
Addressed == \E n \in DOMAIN frames : IsRequest(n, "mine")
Broadcast == \E n \in DOMAIN frames : IsRequest(n, "broadcast")
Foreign == \E n \in DOMAIN frames : IsRequest(n, "other")

(* modbusParseRequestRTU: anything but a whole frame fails its CRC, which  *)
(* is checked before the address.  A request for the slave leaves its      *)
(* response, a broadcast an empty one, and an error the one before.        *)
ParseRequest ==
  \/ /\ Addressed /\ result' = "ok"
     /\ \E n \in DOMAIN frames : IsRequest(n, "mine") /\ response' = n
  \/ Broadcast /\ result' = "ok" /\ response' = 0
  \/ Foreign /\ result' = "address" /\ UNCHANGED response
  \/ /\ ~Addressed /\ ~Broadcast /\ ~Foreign
     /\ result' = "request" /\ UNCHANGED response

Parse ==
  /\ main = "Parse"
  /\ ParseRequest
  /\ At("Send") /\ UNCHANGED <<receiver, sent>>

Answers == result # "address" /\ response > 0

Send ==
  /\ main = "Send"
  /\ sent' = IF Answers THEN [frame |-> response, after |-> result] ELSE sent
  /\ At("ClearErr") /\ UNCHANGED <<receiver, result, response>>

(* modbus_slave_set_idle, a store at a time. *)
ClearErr ==
  /\ main = "ClearErr" /\ err' = FALSE
  /\ At("ClearCnt") /\ UNCHANGED <<status, tcnt, req, ref, running, result, response, sent>>

ClearCnt ==
  /\ main = "ClearCnt" /\ tcnt' = 0
  /\ At("ClearLen") /\ UNCHANGED <<status, err, req, ref, running, result, response, sent>>

ClearLen_TooLate ==
  /\ main = "ClearLen" /\ status' = "IDLE"
  /\ At("SetIdle") /\ UNCHANGED <<tcnt, err, req, ref, running, result, response, sent>>

ClearLen_Skipped == main = "ClearLen" /\ At("SetIdle") /\ UNCHANGED <<receiver, result, response, sent>>

ClearLen ==
  /\ main = "ClearLen" /\ req' = <<>>
  /\ At("SetIdle") /\ UNCHANGED <<status, tcnt, err, ref, running, result, response, sent>>

SetIdle ==
  /\ main = "SetIdle" /\ status' = "IDLE"
  /\ At("Poll") /\ UNCHANGED <<tcnt, err, req, ref, running, result, response, sent>>

Main == Poll \/ Parse \/ Send \/ ClearErr \/ ClearCnt \/ ClearLen \/ SetIdle

------------------------------------------------------------------------------
(* The line.  Interrupts are served within a half character.               *)

HalfCharacter ==
  /\ ~tick /\ rx = NoByte
  /\ silence < LongSilence \/ running
  /\ silence' = IF silence < LongSilence THEN silence + 1 ELSE silence
  /\ tick' = running
  /\ UNCHANGED <<receiver, rx, mainloop, frames, bytes>>

Arrives(b) == rx = NoByte /\ rx' = b

(* The master leaves the gap the protocol asks for before it begins a      *)
(* frame, even after one it has given up in the middle.                    *)
NewFrame(kind, len) ==
  /\ Len(frames) < MaxFrames /\ silence >= FrameGap
  /\ frames' = Append(frames, [kind |-> kind, len |-> len]) /\ bytes' = 1
  /\ Arrives([frame |-> Len(frames) + 1, at |-> 1])
  /\ UNCHANGED <<receiver, tick, mainloop, silence>>

(* The bytes of a frame may come without a gap, or after any pause.        *)
NextByte ==
  /\ frames # <<>> /\ bytes < frames[Len(frames)].len /\ silence >= CharTime
  /\ bytes' = bytes + 1
  /\ Arrives([frame |-> Len(frames), at |-> bytes + 1])
  /\ UNCHANGED <<receiver, tick, mainloop, frames, silence>>

Line == NextByte \/ \E kind \in FrameKinds, len \in FrameLens : NewFrame(kind, len)

------------------------------------------------------------------------------

Init ==
  /\ status = "INIT" /\ tcnt = 0 /\ err = FALSE /\ req = <<>>
  /\ ref = 0 /\ running = FALSE /\ tick = FALSE /\ rx = NoByte
  /\ main = "Poll" /\ result = "none" /\ response = 0 /\ sent = NoAnswer
  /\ frames = <<>> /\ bytes = 0 /\ silence = LongSilence

Next == TMR0_IRQHandler \/ UART3_IRQHandler \/ Main \/ HalfCharacter \/ Line

Spec == Init /\ [][Next]_vars

(* Interrupts are served, the main loop goes on and time passes; the       *)
(* master need not send anything.                                          *)
FairSpec ==
  /\ Spec
  /\ WF_vars(TMR0_IRQHandler) /\ WF_vars(UART3_IRQHandler)
  /\ WF_vars(Main) /\ WF_vars(HalfCharacter)

------------------------------------------------------------------------------
(* Properties. *)

(* While a frame is being received the timer runs: nothing else ever ends  *)
(* a frame (modbus.c:72-86).                                               *)
TimerRunsWhileReceiving == status \in {"RECV", "WAIT"} => running

(* A frame begins in an empty buffer, with no error left from the frame    *)
(* before (modbus.c:38-43, written by the main loop a store at a time).    *)
CleanStart == status = "IDLE" => req = <<>> /\ ~err

(* A frame is never taken for ended before three characters of silence,    *)
(* half a character short of the protocol's three and a half: the tick     *)
(* pending when a byte comes is counted after it (modbus.c:60, 105).       *)
EndsAfterSilence ==
  [][status = "WAIT" /\ status' # "WAIT" => silence >= FrameGap - 1]_vars

(* What is handed over to the main loop ends with the last byte that was   *)
(* on the line, unless the buffer was full or a byte comes as it is handed *)
(* over: a frame of which a byte was dropped on the way is dropped as a    *)
(* whole (modbus.c:118-121).                                               *)
NothingDropped ==
  [][status = "WAIT" /\ status' = "FINISH" =>
       \/ Len(req) = BufSize \/ rx # NoByte
       \/ req[Len(req)] = [frame |-> Len(frames), at |-> bytes]]_vars

(* The bytes handed over follow each other in one frame of the master.     *)
FramesNotMixed ==
  status = "FINISH" =>
    \A i, j \in DOMAIN req : /\ req[i].frame = req[j].frame
                             /\ req[j].at - req[i].at = j - i

(* The frame does not change under the parser (modbus.c:323, 112-125).     *)
ParsedUndisturbed ==
  [][(main \in {"Parse", "Send", "ClearErr", "ClearCnt"}) => req' = req]_vars

(* "The response frame can only be accessed if modbusIsOk() called on the  *)
(* return value of this function evaluates to true", slave.impl.h:296, of  *)
(* modbusParseRequestRTU.                                                  *)
RespondsOnlyWhenOk == sent # NoAnswer => sent.after = "ok"

(* The receiver always comes back to where it takes a new frame, whatever  *)
(* the bytes and pauses it was given.                                      *)
ReceiverRecovers == status \in {"RECV", "WAIT", "FINISH"} ~> status = "IDLE"

=============================================================================
