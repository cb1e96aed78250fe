----------------------------- MODULE MCDevices -----------------------------
(* The software around the core, one part of it in each behaviour: the     *)
(* others keep the state they start in.                                    *)
EXTENDS BootUpload, BootMemory, BareMetalLibs, VgaFrame, TimerDriver, UartConsole, EventCounters

CONSTANT Parts
VARIABLE part

TwoSegments == <<[base |-> 4, data |-> <<1, 2, 3, 1>>], [base |-> 8, data |-> <<2, 1>>]>>

DevicesInit ==
  /\ part \in Parts
  /\ Init /\ (part # "upload" => divisor = 0)
  /\ MemoryInit /\ (part # "memory" => fault = NO_FAULT /\ todo = <<>> /\ set = CHOOSE s \in Sets : TRUE)
  /\ LibsInit
  /\ VgaInit /\ (part # "vga" => fb_wr_addr = 0 /\ screen = Blank)
  /\ TimerInit
  /\ UartInit /\ (part # "uart" => to_rx = 1)
  /\ PmuInit

Upload ==
  /\ part = "upload" /\ Next
  /\ UNCHANGED <<part, memory_vars, libs_vars, vga_vars, timer_vars, uart_vars, pmu_vars>>
Memory ==
  /\ part = "memory" /\ MemoryNext
  /\ UNCHANGED <<part, vars, libs_vars, vga_vars, timer_vars, uart_vars, pmu_vars>>
Libs ==
  /\ part = "libs" /\ LibsNext
  /\ UNCHANGED <<part, vars, memory_vars, vga_vars, timer_vars, uart_vars, pmu_vars>>
Vga ==
  /\ part = "vga" /\ VgaNext
  /\ UNCHANGED <<part, vars, memory_vars, libs_vars, timer_vars, uart_vars, pmu_vars>>
Timer ==
  /\ part = "timer" /\ TimerNext
  /\ UNCHANGED <<part, vars, memory_vars, libs_vars, vga_vars, uart_vars, pmu_vars>>
Uart ==
  /\ part = "uart" /\ UartNext
  /\ UNCHANGED <<part, vars, memory_vars, libs_vars, vga_vars, timer_vars, pmu_vars>>
Pmu ==
  /\ part = "pmu" /\ PmuNext
  /\ UNCHANGED <<part, vars, memory_vars, libs_vars, vga_vars, timer_vars, uart_vars>>

DevicesNext == Upload \/ Memory \/ Libs \/ Vga \/ Timer \/ Uart \/ Pmu

all_vars == <<part, vars, memory_vars, libs_vars, vga_vars, timer_vars, uart_vars, pmu_vars>>

\* The fairness of each part, while it is the one that runs.
DevicesSpec ==
  /\ DevicesInit /\ [][DevicesNext]_all_vars
  /\ WF_vars(part = "upload" /\ Loader) /\ WF_vars(part = "upload" /\ Host)
  /\ TimerFairness
  /\ WF_uart_vars(part = "uart" /\ Cycle) /\ WF_uart_vars(part = "uart" /\ Tick)
  /\ WF_uart_vars(part = "uart" /\ HartStep)

=============================================================================
