--------------------------- MODULE MC_Acquisition ----------------------------
(* Small instance of Acquisition: a transform of eight points modulo 7,    *)
(* where the eighth root of unity of the code is 2 + 5i, and blocks of     *)
(* eight samples.                                                          *)
EXTENDS Acquisition, TLC

\* Clock trees around the limits of the preflight, and factory words of
\* which one or more are missing.
Tree(sws, pllsrc, pllm, plln, pllp, hpre) ==
  [hclk |-> HSI_VALUE, sws |-> sws, pllsrc |-> pllsrc, pllm |-> pllm, plln |-> plln,
   pllp |-> pllp, hpre |-> hpre]

\* 31250 Hz, 1, 8, 16, 25, 84 and 100 MHz.
MCTrees ==
  {Tree("HSI", "HSI", 16, 192, 0, h) : h \in {0, 8, 11, 15}}
  \cup {Tree("HSE", "HSI", 16, 192, 0, 0), Tree("PLL", "HSE", 25, 336, 1, 0),
        Tree("PLL", "HSI", 16, 400, 1, 0)}

MCBoards ==
  {tree @@ rest : tree \in MCTrees,
     rest \in [ppre1 : {0, 4, 5, 7}, ppre2 : {0, 4, 7}, uid : {TRUE}, vref : {1500, 0},
               temp30 : {900}, temp110 : {1200}]}
  \cup {Tree("HSI", "HSI", 16, 192, 0, 0) @@ rest :
          rest \in [ppre1 : {0}, ppre2 : {0}, uid : BOOLEAN, vref : {0, 1500, 65535},
                    temp30 : {900, 1200}, temp110 : {1200, 65535}]}

MCTwiddle == << 2, 5 >>

\* The unit vectors, which a linear transform is determined by, and one more.
MCVectors ==
  {[i \in 0 .. 7 |-> IF i = j THEN x ELSE << 0, 0 >>] :
     j \in 0 .. 7, x \in {<< 1, 0 >>, << 0, 1 >>}}
  \cup {[i \in 0 .. 7 |-> << (i * i + 1) % 7, (3 * i) % 7 >>]}

Constant(x) == [i \in 1 .. 8 |-> x]

Codes(vibration, current, supply, temperature, vrefint) ==
  [VIBRATION |-> vibration, CURRENT |-> Constant(current), SUPPLY |-> Constant(supply),
   TEMPERATURE |-> Constant(temperature), VREFINT |-> Constant(vrefint)]

Waves == {<< 2048, 2060, 2072, 2060, 2048, 2036, 2024, 2036 >>, Constant(2048),
          << 2100, 2100, 2000, 2000, 2100, 2100, 2000, 2001 >>,
          << 2048, 2048, 2048, 2088, 2048, 2048, 2048, 2048 >>}

Turning == [rpm |-> 900, rpm_valid |-> TRUE, flags |-> {}]
Stopped == [rpm |-> 900, rpm_valid |-> FALSE, flags |-> {"DMA_DROP"}]

\* Blocks of each wave, one without a reference voltage, one saturated.
MCBlocks ==
  {[codes |-> Codes(w, 2000, 3000, 950, 1510), aux |-> Turning] : w \in Waves}
  \cup {[codes |-> Codes(Constant(2048), 2000, 3000, 950, 0), aux |-> Turning],
        [codes |-> Codes(Constant(137), 4094, 4095, 300, 100), aux |-> Stopped]}

MCSpectra == {<< 0 >> \o p : p \in [1 .. 4 -> {0, 3}]}
             \cup {<< 5, 1, 0, 1999, 0 >>, << 0, 1, 1999, 0, 0 >>}

MCCalibration ==
  [vrefint |-> 1500, temp30 |-> 900, temp110 |-> 1200, vibration_zero |-> 2048,
   vibration_num |-> 1, vibration_den |-> 1, current_zero |-> 0, current_num |-> 5000,
   current_den |-> 4095, supply_num |-> 2, supply_den |-> 1,
   flags |-> {"DEFAULT_CALIBRATION"}]
=============================================================================
