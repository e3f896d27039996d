-------------------------------- MODULE Boot --------------------------------
(***************************************************************************)
(* From reset to the main loop:                                            *)
(*   firmware/MDK-ARM/Templates/main_guardian.c                            *)
(*   firmware/Platform/STM32F401/Src/guardian_stm32f401_preflight.c        *)
(*   firmware/Platform/STM32F401/Src/stm32f401_uart2.c       (init)        *)
(*   firmware/Platform/STM32F401/Src/stm32f401_acquisition.c (init)        *)
(*   firmware/App/Src/guardian_firmware_app.c                              *)
(*   firmware/MDK-ARM/GuardianF401/Src/system_stm32f4xx.c    (clock)       *)
(* The clock tree and the factory words are what the device happens to     *)
(* have; the preflight judges them, and each driver later computes its     *)
(* divisors for itself.  SysTick runs from before the preflight on.        *)
(***************************************************************************)
EXTENDS Integers, Sequences

CONSTANTS Boards,       \* clock tree and factory words of the device
          BaudRates,    \* the baud rates firmware_app_init is called with
          UPTIME_MAX    \* 0xFFFFFFFF ms, capped

VARIABLES board,        \* the device this is
          stage,        \* how far main has come
          report,       \* guardian_preflight_report
          usart,        \* USART2->BRR and the baud rate asked for
          adc,          \* adc_clock_hz, TIM2 period, TIM3 divisor
          app           \* uptime, run permit, the projected NodeLink state

bootVars == << board, stage, report, usart, adc, app >>

MAX_HCLK_HZ == 84000000
MAX_PCLK1_HZ == 42000000
MAX_PCLK2_HZ == 84000000
UART_MAX_ERROR_PPM == 20000
ADC_CONSERVATIVE_MAX_CLOCK_HZ == 18000000
ADC_SEQUENCE_CYCLES == 1188
DEFAULT_SAMPLE_RATE_HZ == 4000
MIN_SAMPLE_RATE_HZ == 100
MAX_SAMPLE_RATE_HZ == 10000
RPM_TIMER_HZ == 10000
U16_MAX == 65535

PREFLIGHT_FLAGS == {"HCLK_ZERO", "HCLK_HIGH", "PCLK1_HIGH", "PCLK2_HIGH",
                    "UART_DIVISOR", "UART_ERROR", "UID_INVALID", "VREF_INVALID",
                    "TEMP_CAL_INVALID"}

HSI_VALUE == 16000000
HSE_VALUE == 25000000
AHBPrescTable == << 0, 0, 0, 0, 0, 0, 0, 0, 1, 2, 3, 4, 6, 7, 8, 9 >>
---------------------------------------------------------------------------
(* HCLK from the clock registers: the source, the PLL factors if the PLL   *)
(* drives the system, the AHB prescaler.                                   *)
pllvco(b) ==
  ((IF b.pllsrc = "HSE" THEN HSE_VALUE ELSE HSI_VALUE) \div b.pllm) * b.plln

SystemCoreClockUpdate(b) ==
  LET sysclk == CASE b.sws = "HSE" -> HSE_VALUE
                  [] b.sws = "PLL" -> pllvco(b) \div ((b.pllp + 1) * 2)
                  [] OTHER -> HSI_VALUE
  IN sysclk \div 2^AHBPrescTable[b.hpre + 1]

\* The fields of the clock registers and the factory words, and the PLL
\* within the range it locks in (its product then fits the 32 bits it is
\* computed in).
MAX_VCO_HZ == 432000000
BoardRecords ==
  [hclk : Nat, sws : {"HSI", "HSE", "PLL"}, pllsrc : {"HSI", "HSE"}, pllm : 1 .. 63,
   plln : 0 .. 511, pllp : 0 .. 3, hpre : 0 .. 15, ppre1 : 0 .. 7, ppre2 : 0 .. 7,
   uid : BOOLEAN, vref : 0 .. U16_MAX, temp30 : 0 .. U16_MAX, temp110 : 0 .. U16_MAX]
ASSUME BoardAssumption ==
  /\ Boards # {} /\ Boards \subseteq BoardRecords /\ BaudRates \subseteq Nat
  /\ \A b \in Boards : pllvco(b) <= MAX_VCO_HZ

(* The preflight.                                                          *)
decode_pclk(hclk, ppre) == IF ppre < 4 THEN hclk ELSE hclk \div 2^(ppre - 3)

factory_u16_valid(value) == value # 0 /\ value # U16_MAX

Nearest(n, d) == (n + d \div 2) \div d

(* (difference * 1000000) / baud without leaving 31 bits.                  *)
ErrorPpm(difference, baud) ==
  1000 * ((difference * 1000) \div baud)
  + (((difference * 1000) % baud) * 1000) \div baud

Difference(m, n) == IF m > n THEN m - n ELSE n - m

(* The report's UART part: the divisor, the rate it really gives and its   *)
(* error; zero where the code does not compute them.                       *)
uart_report(pclk1, baud) ==
  IF baud = 0 \/ pclk1 = 0 THEN [brr |-> 0, actual |-> 0, ppm |-> 0]
  ELSE LET brr == Nearest(pclk1, baud)
       IN IF brr \notin 1 .. U16_MAX THEN [brr |-> brr, actual |-> 0, ppm |-> 0]
          ELSE [brr |-> brr, actual |-> pclk1 \div brr,
                ppm |-> ErrorPpm(Difference(pclk1 \div brr, baud), baud)]

failure_flags(b, baud) ==
  LET pclk1 == decode_pclk(b.hclk, b.ppre1)
      pclk2 == decode_pclk(b.hclk, b.ppre2)
      uart == uart_report(pclk1, baud)
      fails == [HCLK_ZERO |-> b.hclk = 0,
                HCLK_HIGH |-> b.hclk > MAX_HCLK_HZ,
                PCLK1_HIGH |-> pclk1 > MAX_PCLK1_HZ,
                PCLK2_HIGH |-> pclk2 > MAX_PCLK2_HZ,
                UART_DIVISOR |-> uart.brr \notin 1 .. U16_MAX,
                UART_ERROR |-> uart.ppm > UART_MAX_ERROR_PPM,
                UID_INVALID |-> ~b.uid,
                VREF_INVALID |-> ~factory_u16_valid(b.vref),
                TEMP_CAL_INVALID |-> \/ ~factory_u16_valid(b.temp30)
                                     \/ ~factory_u16_valid(b.temp110)
                                     \/ b.temp30 = b.temp110]
  IN {f \in PREFLIGHT_FLAGS : fails[f]}

NoReport ==
  [failure_flags |-> {}, hclk_hz |-> 0, pclk1_hz |-> 0, pclk2_hz |-> 0,
   requested_baud |-> 0, uart |-> [brr |-> 0, actual |-> 0, ppm |-> 0],
   uid |-> FALSE, vrefint_cal |-> 0, temp_cal_30 |-> 0, temp_cal_110 |-> 0]

preflight_run(b, baud) ==
  [failure_flags |-> failure_flags(b, baud), hclk_hz |-> b.hclk,
   pclk1_hz |-> decode_pclk(b.hclk, b.ppre1), pclk2_hz |-> decode_pclk(b.hclk, b.ppre2),
   requested_baud |-> baud, uart |-> uart_report(decode_pclk(b.hclk, b.ppre1), baud),
   uid |-> b.uid, vrefint_cal |-> b.vref,
   temp_cal_30 |-> b.temp30, temp_cal_110 |-> b.temp110]
---------------------------------------------------------------------------
(* The UART computes its clock and divisor again.                          *)
uart2_apb1_clock_hz(b) == IF b.ppre1 < 4 THEN b.hclk ELSE b.hclk \div 2^(b.ppre1 - 3)

(* Mutant: the divisor is truncated, not rounded.                          *)
uart2_brr_truncated(pclk1, baud) == pclk1 \div baud

uart2_brr(pclk1, baud) == Nearest(pclk1, baud)

uart2_init_ok(b, baud) ==
  /\ baud # 0 /\ uart2_apb1_clock_hz(b) # 0
  /\ uart2_brr(uart2_apb1_clock_hz(b), baud) \in 1 .. U16_MAX
---------------------------------------------------------------------------
(* The acquisition driver: ADC clock, sample timer and RPM timer.          *)
pclk1_hz(b) == decode_pclk(b.hclk, b.ppre1)
pclk2_hz(b) == decode_pclk(b.hclk, b.ppre2)

(* The first divisor of 2, 4, 6, 8 that keeps the ADC within its limit.    *)
select_adc_clock(b) ==
  LET fits == {d \in {2, 4, 6, 8} :
                 pclk2_hz(b) \div d \in 1 .. ADC_CONSERVATIVE_MAX_CLOCK_HZ}
  IN {pclk2_hz(b) \div d : d \in {e \in fits : \A o \in fits : e <= o}}

(* The timers run at twice the bus clock when the bus is divided.          *)
apb1_timer_hz(b) ==
  IF b.ppre1 < 4 THEN pclk1_hz(b) ELSE 2 * pclk1_hz(b)

sample_period(b, rate) == Nearest(apb1_timer_hz(b), rate)
rpm_divisor(b) == Nearest(apb1_timer_hz(b), RPM_TIMER_HZ)

default_config(b) ==
  [sample_rate_hz |-> DEFAULT_SAMPLE_RATE_HZ, rpm_pulses_per_revolution |-> 1,
   vrefint_cal_code |-> b.vref, temperature_cal_30_code |-> b.temp30,
   temperature_cal_110_code |-> b.temp110]

(* The checks of stm32f401_acquisition_init, guardian_acquisition_init's   *)
(* included.                                                               *)
acquisition_init_ok(b, config) ==
  /\ config.sample_rate_hz \in MIN_SAMPLE_RATE_HZ .. MAX_SAMPLE_RATE_HZ
  /\ config.rpm_pulses_per_revolution # 0
  /\ \E clock \in select_adc_clock(b) :
       clock >= config.sample_rate_hz * ADC_SEQUENCE_CYCLES
  /\ config.vrefint_cal_code # 0
  /\ config.temperature_cal_30_code # config.temperature_cal_110_code
  /\ apb1_timer_hz(b) # 0
  /\ sample_period(b, config.sample_rate_hz) # 0
  /\ rpm_divisor(b) # 0 /\ rpm_divisor(b) <= 65536

NoAdc == [clock |-> 0, rate |-> 0, period |-> 0, divisor |-> 0, rpm_timer_hz |-> 0]
adc_configured(b, config) ==
  [clock |-> CHOOSE c \in select_adc_clock(b) : TRUE, rate |-> config.sample_rate_hz,
   period |-> sample_period(b, config.sample_rate_hz), divisor |-> rpm_divisor(b),
   rpm_timer_hz |-> apb1_timer_hz(b) \div rpm_divisor(b)]
---------------------------------------------------------------------------
(* The application.                                                        *)
DEVICE_STATE_NAMES == {"BOOT", "IDLE", "RUNNING", "DEGRADED", "FAULT"}

map_nodelink_state(state) ==
  CASE state = "BOOT" -> "BOOT" [] state = "IDLE" -> "DISCOVERING"
    [] state = "RUNNING" -> "ACTIVE" [] state = "DEGRADED" -> "DEGRADED"
    [] state = "FAULT" -> "FAULT" [] OTHER -> "SAFE_HOLD"

uptime_tick(uptime) == IF uptime = UPTIME_MAX THEN uptime ELSE uptime + 1

BootInit ==
  /\ board \in Boards
  /\ stage = "reset"
  /\ report = NoReport
  /\ usart = [brr |-> 0, baud |-> 0]
  /\ adc = NoAdc
  /\ app = [uptime |-> 0, dsp_valid |-> FALSE, projected |-> "BOOT"]

(* guardian_target_fail_stop: interrupts off, for a debugger to look at.   *)
fail_stop == stage' = "stopped"

(* main up to SysTick: a dead clock stops the device, HAL_Init may fail.   *)
StartClock ==
  /\ stage = "reset"
  /\ board' = [board EXCEPT !.hclk = SystemCoreClockUpdate(board)]
  /\ \/ board'.hclk >= 1000 /\ stage' = "preflight"
     \/ fail_stop
  /\ UNCHANGED << report, usart, adc, app >>

RunPreflight ==
  /\ stage = "preflight"
  /\ \E baud \in BaudRates :
       /\ board' = [board EXCEPT !.hclk = SystemCoreClockUpdate(board)]
       /\ report' = preflight_run(board', baud)
       /\ usart' = [usart EXCEPT !.baud = baud]
  /\ IF report'.failure_flags = {} THEN stage' = "uart" ELSE fail_stop
  /\ UNCHANGED << adc, app >>

InitUart ==
  /\ stage = "uart"
  /\ IF uart2_init_ok(board, usart.baud)
       THEN /\ usart' = [usart EXCEPT !.brr = uart2_brr(uart2_apb1_clock_hz(board), usart.baud)]
            /\ stage' = "link"
       ELSE fail_stop /\ UNCHANGED usart
  /\ UNCHANGED << board, report, adc, app >>

(* The link, its control output and the inputs start from nothing.         *)
InitLink ==
  /\ stage = "link"
  /\ app' = [uptime |-> 0, dsp_valid |-> FALSE, projected |-> "BOOT"]
  /\ stage' = "acquisition"
  /\ UNCHANGED << board, report, usart, adc >>

InitAcquisition ==
  /\ stage = "acquisition"
  /\ LET config == default_config(board)
     IN IF acquisition_init_ok(board, config)
          THEN adc' = adc_configured(board, config) /\ stage' = "polling"
          ELSE fail_stop /\ UNCHANGED adc
  /\ UNCHANGED << board, report, usart, app >>

(* The DMA stream does not stop in time.                                   *)
InitAcquisitionFails ==
  /\ stage = "acquisition" /\ fail_stop
  /\ UNCHANGED << board, report, usart, adc, app >>

(* One turn of the main loop: a block whose analysis succeeds becomes the  *)
(* latest one.                                                             *)
AppPoll ==
  /\ stage = "polling"
  /\ app' \in {app, [app EXCEPT !.dsp_valid = TRUE]}
  /\ UNCHANGED << board, stage, report, usart, adc >>

AppSetState ==
  /\ stage = "polling"
  /\ \E s \in DEVICE_STATE_NAMES : app' = [app EXCEPT !.projected = map_nodelink_state(s)]
  /\ UNCHANGED << board, stage, report, usart, adc >>

(* SysTick: from the moment main starts it until main stops the device.    *)
SysTick ==
  /\ stage \notin {"reset", "stopped"}
  /\ app' = [app EXCEPT !.uptime = uptime_tick(@)]
  /\ UNCHANGED << board, stage, report, usart, adc >>

BootNext ==
  \/ StartClock \/ RunPreflight \/ InitUart \/ InitLink \/ InitAcquisition
  \/ InitAcquisitionFails \/ AppPoll \/ AppSetState \/ SysTick
---------------------------------------------------------------------------
(* What the clock tree really delivers, whoever computed the divisors: the *)
(* source divided by everything on the way to the bus, in whole Hz.  The   *)
(* divisors are the reference manual's, by register value.                 *)
AHB_DIVISOR == << 1, 1, 1, 1, 1, 1, 1, 1, 2, 4, 8, 16, 64, 128, 256, 512 >>
APB_DIVISOR == << 1, 1, 1, 1, 2, 4, 8, 16 >>

SourceHz(b) ==
  CASE b.sws = "HSI" -> HSI_VALUE [] b.sws = "HSE" -> HSE_VALUE [] b.sws = "PLL" -> pllvco(b)

BusHz(b, ppre) ==
  SourceHz(b) \div ((IF b.sws = "PLL" THEN 2 * (b.pllp + 1) ELSE 1)
                   * AHB_DIVISOR[b.hpre + 1] * APB_DIVISOR[ppre + 1])

(* A device that reaches its main loop talks and samples at the rates it   *)
(* claims: the UART runs with the divisor the preflight judged, within 2%  *)
(* of the rate asked for (and the Hz and the ppm that whole numbers lose); *)
(* the ADC stays within its limit and finishes each scan before the next   *)
(* trigger; and the sample clock and the RPM clock the software assumes    *)
(* are within 1% of what the timers do.  Preflight, UART and acquisition   *)
(* each decode the clock tree for themselves.                              *)
ClocksAsChecked ==
  stage = "polling" =>
    LET pclk1 == BusHz(board, board.ppre1)
        timer == IF board.ppre1 < 4 THEN pclk1 ELSE 2 * pclk1
    IN /\ report.pclk1_hz = pclk1 /\ report.failure_flags = {}
       /\ usart.brr = report.uart.brr
       /\ 50 * Difference(usart.brr * usart.baud, pclk1)
            <= usart.brr * (usart.baud + usart.baud \div 20000 + 50)
       /\ adc.clock <= ADC_CONSERVATIVE_MAX_CLOCK_HZ
       /\ adc.clock \div adc.rate >= ADC_SEQUENCE_CYCLES
       /\ 100 * Difference(timer \div adc.period, adc.rate) <= adc.rate
       /\ 100 * Difference(timer \div adc.divisor, adc.rpm_timer_hz) <= adc.rpm_timer_hz
       /\ 100 * Difference(adc.rpm_timer_hz, RPM_TIMER_HZ) <= RPM_TIMER_HZ
=============================================================================
