-------------------------------- MODULE Device --------------------------------
(***************************************************************************)
(* The sensor (src/src/sensor.c): the registers and the configuration       *)
(* together.  The configuration is loaded before the registers are set up   *)
(* (src/src/Main.c); RELOAD saves the baud rate the registers hold, and the *)
(* write of the register waits for the store; the next boot uses the rate   *)
(* saved.                                                                  *)
(***************************************************************************)
EXTENDS Registers, Config

CONSTANTS
  MB_UART,    \* the item of the serial line
  BAUDRATE    \* the registers of the baud rate

ASSUME BaudrateAssumption ==
  MB_UART \in KeySet /\ BAUDRATE \subseteq RWA /\ [BAUDRATE -> Value] \subseteq Settings

VARIABLE
  baudrate  \* mb_slave_ctx.baudrate

vars == <<rvars, cvars, baudrate>>

(* The rate the registers hold.  The other fields stay what they are. *)
Rate == [a \in BAUDRATE |-> regs[a]]

Within(A) == A /\ UNCHANGED <<cvars, baudrate>>

(* sensor_save_config *)
SaveConfig == Reload /\ Update(MB_UART, Rate) /\ UNCHANGED baudrate

ConfigSaved == SaveReturns /\ cfg = "Idle" /\ UNCHANGED <<cvars, baudrate>>

(* modbus_slave_init *)
StartSlave ==
  /\ Setup /\ cfg = "Idle"
  /\ baudrate' = cache[MB_UART] /\ UNCHANGED cvars

Configure == (ConfigStep \/ StoreStep) /\ UNCHANGED <<rvars, baudrate>>

Unconfigured == Unpowered /\ baudrate' = Factory[MB_UART]

ResetByRegister == Reset /\ Unconfigured

Blackout == PowerLoss /\ Unconfigured

DInit == RInit /\ CInit /\ baudrate = Factory[MB_UART]

DStep ==
  \/ Within(Run) \/ SaveConfig \/ ConfigSaved \/ StartSlave \/ Configure
  \/ ResetByRegister

DNext == DStep \/ Within(SysTick_Handler) \/ Blackout

DSpec == DInit /\ [][DNext]_vars /\ WF_vars(DStep)

=============================================================================
