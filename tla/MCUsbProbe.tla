----------------------------- MODULE MCUsbProbe -----------------------------
(* The three kinds of build: boards whose USB can be shut down, those made   *)
(* to reboot between probes, and the STM32, which has to.                    *)
EXTENDS UsbProbe

AllProbes == <<"NX", "PS3", "PS4">>

AllBuilds == {[reboot_probe |-> FALSE, stm32 |-> FALSE],
              [reboot_probe |-> TRUE, stm32 |-> FALSE],
              [reboot_probe |-> TRUE, stm32 |-> TRUE]}

Stm32Build == {[reboot_probe |-> TRUE, stm32 |-> TRUE]}
=============================================================================
