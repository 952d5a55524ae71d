------------------------------ MODULE Registers ------------------------------
(***************************************************************************)
(* The holding registers (src/src/modbus/regs.c) under the requests that    *)
(* lightmodbus serves, the callback the sensor runs after a write           *)
(* (src/src/sensor.c), the safe-access window (src/src/modbus.c) and the    *)
(* uptime it is measured with (src/src/worktime.c).                         *)
(*                                                                         *)
(* A value is a set of bits.  The uptime is a counter of two words that the *)
(* main loop reads low word first, so that a SysTick between the two reads  *)
(* adds Low, one unit of the high word, when the low word wraps around.     *)
(* A definition with a suffix is the one that follows it with a bug in it   *)
(* (README.md).                                                            *)
(***************************************************************************)
EXTENDS Integers

CONSTANTS
  Bits,                     \* the bits of a register
  RO, CONFIG, RWA, TEST,    \* the addresses of the four segments
  OPT_CTRL, SAFE_ACCESS_CTRL, TEST_1, TEST_2,
  WORKTIME,                 \* the registers that show the uptime
  Identity,                 \* what mb_init puts in the read-only registers
  RELOAD,                   \* MB_OPT_RELOAD, written to OPT_CTRL
  Key,                      \* 0x3736, written to SAFE_ACCESS_CTRL
  Pattern,                  \* 0x5AA5, held by TEST_1
  Asked,                    \* the addresses the master asks for
  MaxCount,                 \* the number of registers of a request
  Window,                   \* 3000 ms of safe access
  LoopMax,                  \* bound on the ms an iteration of the main loop takes
  Low, Wide                 \* the values of the low word, and of both

Value == SUBSET Bits
Zero == {}
Bank == RO \cup CONFIG \cup RWA \cup TEST

ASSUME SegmentsAssumption ==
  /\ Bank \subseteq Int /\ Asked \subseteq Int
  /\ RO \cap (CONFIG \cup RWA \cup TEST) = {} /\ RWA \cap (CONFIG \cup TEST) = {}
  /\ {OPT_CTRL, SAFE_ACCESS_CTRL} \subseteq CONFIG /\ OPT_CTRL # SAFE_ACCESS_CTRL
  /\ {TEST_1, TEST_2} \cap (RO \cup CONFIG \cup RWA) = {} /\ TEST_1 # TEST_2
  /\ WORKTIME \subseteq RO /\ Identity \in [RO -> Value]
  /\ {RELOAD, Key, Pattern} \subseteq Value /\ Key # Zero /\ RELOAD # Zero
  /\ MaxCount \in Nat \ {0}

(* No request reaches both the control register and a protected one: there  *)
(* are addresses without a register between them.                           *)
ASSUME ApartAssumption ==
  \A a \in RWA : \E gap \in SAFE_ACCESS_CTRL..a : gap \notin Bank

ASSUME TimeAssumption ==
  /\ {Window, LoopMax} \subseteq Nat \ {0} /\ {Low, Wide} \subseteq Nat
  /\ Window + LoopMax <= Low /\ Low + Low <= Wide

VARIABLES
  regs,    \* the registers
  safe,    \* mb_slave_ctx.flag_safe_access
  last,    \* mb_slave_ctx.lasttime_sa
  time,    \* worktime
  main,    \* what the main loop does next
  job,     \* the registers being written, and how many are
  answer,  \* the answer to the request
  before,  \* history: the registers when the request came
  age,     \* history: the ms since the key was last written, up to Aged
  loop     \* the ms of this iteration of the main loop

clock == <<time, age, loop>>
request == <<job, answer, before>>
rvars == <<regs, safe, last, main, request, clock>>

Aged == Window + LoopMax
Blank == [a \in Bank |-> Zero]
NoJob == [at |-> 0, count |-> 0, done |-> 0, vals |-> [i \in 1..MaxCount |-> Zero]]
Jobs == [at : Asked \cup {0}, count : 0..MaxCount, done : 0..MaxCount,
         vals : [1..MaxCount -> Value]]

RegistersOK ==
  /\ regs \in [Bank -> Value] /\ before \in [Bank -> Value]
  /\ safe \in BOOLEAN /\ last \in 0..(Wide - 1) /\ time \in 0..(Wide - 1)
  /\ main \in {"Boot", "Expire", "Serve", "Write", "Saving", "Answer", "Uptime"}
  /\ job \in Jobs /\ job.done <= job.count
  /\ answer \in {"none", "ok", "refused"}
  /\ age \in 0..Aged /\ loop \in 0..LoopMax

------------------------------------------------------------------------------
(* The uptime and worktime_since, modulo its width.                        *)

Later_Unbounded(t, n) == t + n
Later(t, n) == IF t + n >= Wide THEN t + n - Wide ELSE t + n
Since(now, from) == IF now >= from THEN now - from ELSE now - from + Wide
Older(a) == IF a < Aged THEN a + 1 ELSE a

(* SysTick_Handler.  An iteration of the main loop, which feeds the         *)
(* watchdog, is far shorter than the low word's 49 days.                    *)
SysTick ==
  /\ loop < LoopMax
  /\ time' = Later(time, 1) /\ age' = Older(age) /\ loop' = loop + 1

SysTick_Handler == SysTick /\ UNCHANGED <<regs, safe, last, main, request>>

(* A read of the uptime is torn by the tick that carries into the high word. *)
Tearable == time % Low = Low - 1
TornTime == Later(time, Low)

------------------------------------------------------------------------------
(* modbus_run ends the safe access once its time is over.                  *)

Look_Late(now) ==
  IF safe /\ Since(now, last) > Window
    THEN safe' = FALSE /\ regs' = [regs EXCEPT ![SAFE_ACCESS_CTRL] = Zero]
    ELSE UNCHANGED <<safe, regs>>
Look_KeepsRegister(now) ==
  /\ safe' = (safe /\ Since(now, last) < Window)
  /\ UNCHANGED regs
Look_KeepsFlag(now) ==
  /\ regs' = IF safe /\ Since(now, last) >= Window
               THEN [regs EXCEPT ![SAFE_ACCESS_CTRL] = Zero] ELSE regs
  /\ UNCHANGED safe
Look(now) ==
  IF safe /\ Since(now, last) >= Window
    THEN safe' = FALSE /\ regs' = [regs EXCEPT ![SAFE_ACCESS_CTRL] = Zero]
    ELSE UNCHANGED <<safe, regs>>

Expire ==
  /\ main = "Expire" /\ main' = "Serve"
  /\ \/ Look(time) /\ loop' = 0 /\ UNCHANGED <<time, age>>
     \/ /\ safe /\ Tearable /\ Look(TornTime)
        /\ time' = Later(time, 1) /\ age' = Older(age) /\ loop' = 1
  /\ UNCHANGED <<last, request>>

------------------------------------------------------------------------------
(* Requests: every register is checked before the first is written.        *)

Span(at, n) == at..(at + n - 1)

(* modbus_reg_w_check *)
Writable == CONFIG \cup TEST \cup (IF safe THEN RWA ELSE {})

MaskWrite(old, and, or) == (old \cap and) \cup (or \ and)

NoRequest ==
  /\ main = "Serve" /\ main' = "Uptime"
  /\ UNCHANGED <<regs, safe, last, request, clock>>

Answered(a) == main' = "Answer" /\ answer' = a /\ before' = regs /\ job' = NoJob

Begin(at, n, v) ==
  /\ main' = "Write" /\ before' = regs /\ UNCHANGED answer
  /\ job' = [at |-> at, count |-> n, done |-> 0, vals |-> v]

(* function 03 *)
ReadRegisters ==
  /\ main = "Serve"
  /\ \E at \in Asked, n \in 1..MaxCount :
       Answered(IF Span(at, n) \subseteq Bank THEN "ok" ELSE "refused")
  /\ UNCHANGED <<regs, safe, last, clock>>

(* functions 06 and 16 *)
WriteRegisters_FirstChecked ==
  /\ main = "Serve"
  /\ \E at \in Asked, n \in 1..MaxCount, v \in [1..MaxCount -> Value] :
       /\ \A i \in 1..MaxCount : i > n => v[i] = Zero
       /\ IF at \in Writable THEN Begin(at, n, v) ELSE Answered("refused")
  /\ UNCHANGED <<regs, safe, last, clock>>
WriteRegisters ==
  /\ main = "Serve"
  /\ \E at \in Asked, n \in 1..MaxCount, v \in [1..MaxCount -> Value] :
       /\ \A i \in 1..MaxCount : i > n => v[i] = Zero
       /\ IF Span(at, n) \subseteq Writable THEN Begin(at, n, v) ELSE Answered("refused")
  /\ UNCHANGED <<regs, safe, last, clock>>

(* function 22 *)
MaskWriteRegister ==
  /\ main = "Serve"
  /\ \E at \in Asked, and, or \in Value :
       IF at \in Bank /\ at \in Writable
         THEN Begin(at, 1, [NoJob.vals EXCEPT ![1] = MaskWrite(regs[at], and, or)])
         ELSE Answered("refused")
  /\ UNCHANGED <<regs, safe, last, clock>>

------------------------------------------------------------------------------
(* modbus_reg_write and mb_reg_after_write, one register at a time.        *)

Addr == job.at + job.done
Word == job.vals[job.done + 1]
Writing == main = "Write" /\ job.done < job.count

(* The test registers: one holds a pattern, one what was not written. *)
Settled(a, v) ==
  CASE a = TEST_1 -> Pattern [] a = TEST_2 -> Bits \ v [] OTHER -> v

Store ==
  /\ regs' = [regs EXCEPT ![Addr] = Settled(Addr, Word)]
  /\ job' = [job EXCEPT !.done = @ + 1]
  /\ UNCHANGED <<answer, before>>

WritePlain ==
  /\ Writing /\ Store
  /\ \/ Addr \notin {OPT_CTRL, SAFE_ACCESS_CTRL}
     \/ Addr = OPT_CTRL /\ Word \notin {Zero, RELOAD}
     \/ Addr = SAFE_ACCESS_CTRL /\ Word \notin {Zero, Key}
  /\ UNCHANGED <<safe, last, main, clock>>

(* modbus_sa_ctrl(1) *)
GrantAccess ==
  /\ Writing /\ Addr = SAFE_ACCESS_CTRL /\ Word = Key /\ Store
  /\ safe' = TRUE
  /\ \/ last' = time /\ age' = 0 /\ UNCHANGED <<time, loop>>
     \/ /\ Tearable /\ loop < LoopMax
        /\ last' = TornTime /\ age' = 1 /\ time' = Later(time, 1) /\ loop' = loop + 1
  /\ UNCHANGED main

(* modbus_sa_ctrl(0) *)
EndAccess ==
  /\ Writing /\ Addr = SAFE_ACCESS_CTRL /\ Word = Zero /\ Store
  /\ safe' = FALSE
  /\ UNCHANGED <<last, main, clock>>

(* sensor_save_config, which may write to the store *)
Reload_Again ==
  /\ Writing /\ Addr = OPT_CTRL /\ Word = RELOAD
  /\ regs' = [regs EXCEPT ![Addr] = Word] /\ main' = "Saving"
  /\ UNCHANGED <<safe, last, request, clock>>
Reload ==
  /\ Writing /\ Addr = OPT_CTRL /\ Word = RELOAD /\ Store
  /\ main' = "Saving"
  /\ UNCHANGED <<safe, last, clock>>

SaveReturns ==
  /\ main = "Saving" /\ main' = "Write"
  /\ UNCHANGED <<regs, safe, last, request, clock>>

WriteEnds ==
  /\ main = "Write" /\ job.done = job.count
  /\ main' = "Answer" /\ answer' = "ok"
  /\ UNCHANGED <<regs, safe, last, job, before, clock>>

Transmit ==
  /\ main = "Answer" /\ main' = "Uptime"
  /\ answer' = "none" /\ job' = NoJob /\ before' = Blank
  /\ UNCHANGED <<regs, safe, last, clock>>

------------------------------------------------------------------------------
(* The rest of the main loop, boot and resets.                             *)

(* sensor_run: the registers show some quotient of the uptime *)
ShowUptime ==
  /\ main = "Uptime" /\ main' = "Expire"
  /\ \E shown \in [WORKTIME -> Value] :
       regs' = [a \in Bank |-> IF a \in WORKTIME THEN shown[a] ELSE regs[a]]
  /\ UNCHANGED <<safe, last, request, clock>>

(* modbus_init, mb_init *)
Setup ==
  /\ main = "Boot" /\ main' = "Expire"
  /\ regs' = [a \in Bank |-> IF a \in RO THEN Identity[a]
                             ELSE IF a = TEST_1 THEN Pattern ELSE Zero]
  /\ safe' = FALSE /\ last' = 0 /\ loop' = 0
  /\ UNCHANGED <<time, age, request>>

Restarted ==
  /\ main' = "Boot" /\ regs' = Blank /\ safe' = FALSE /\ last' = 0
  /\ time' = 0 /\ age' = Aged /\ loop' = 0
  /\ job' = NoJob /\ answer' = "none" /\ before' = Blank

(* SYS_ResetExecute, inside the write that asks for it *)
Reset == Writing /\ Addr = OPT_CTRL /\ Word = Zero /\ Restarted

PowerLoss == Restarted

RInit ==
  /\ main = "Boot" /\ regs = Blank /\ safe = FALSE /\ last = 0
  /\ time = 0 /\ age = Aged /\ loop = 0
  /\ job = NoJob /\ answer = "none" /\ before = Blank

Serve == NoRequest \/ ReadRegisters \/ WriteRegisters \/ MaskWriteRegister
Write == WritePlain \/ GrantAccess \/ EndAccess \/ WriteEnds

(* The steps of the main loop that stay within these registers. *)
Run == Expire \/ Serve \/ Write \/ Transmit \/ ShowUptime

RNext ==
  \/ Run \/ Setup \/ Reload \/ SaveReturns \/ Reset
  \/ SysTick_Handler \/ PowerLoss

RSpec ==
  /\ RInit /\ [][RNext]_rvars
  /\ WF_rvars(Run \/ Setup \/ Reload \/ SaveReturns \/ Reset)

------------------------------------------------------------------------------
(* Properties                                                              *)

(* The registers behind safe access only change while it is granted, less  *)
(* than the window and one iteration of the main loop after the key was     *)
(* written, although the uptime may be read torn when the key is written and *)
(* when the time is checked.                                                *)
SA == INSTANCE SafeAccess WITH
  Limit <- Aged, prot <- [a \in RWA |-> regs[a]], open <- safe
ChangesOnlyWithinWindow == SA!SASpec

(* The control register tells the master no lie: while it shows the key,   *)
(* access is granted, and while it shows zero it is not, even after the     *)
(* window closed by itself.                                                 *)
ControlShowsAccess ==
  /\ regs[SAFE_ACCESS_CTRL] = Key => safe
  /\ regs[SAFE_ACCESS_CTRL] = Zero => ~safe

(* A request has all of its effect or none.  A refused one changed nothing; *)
(* after one that is answered, its registers hold what it wrote and no      *)
(* other changed, and none of them is read-only.                            *)
RequestIsAtomic ==
  main = "Answer" =>
    LET mine == Span(job.at, job.count)
    IN IF answer = "ok"
         THEN /\ mine \subseteq Bank \ RO
              /\ regs = [a \in Bank |-> IF a \in mine
                                          THEN Settled(a, job.vals[a - job.at + 1])
                                          ELSE before[a]]
         ELSE regs = before

(* Safe access does not outlive its window: once the time is over it ends, *)
(* unless the master wrote the key again.                                   *)
WindowEnds == (safe /\ age >= Window) ~> (~safe \/ age < Window)

(* Every request that is accepted is answered, or the device restarts.     *)
RequestEnds == (main = "Write") ~> (main \in {"Answer", "Boot"})

=============================================================================
