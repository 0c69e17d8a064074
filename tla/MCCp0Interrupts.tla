-------------------------- MODULE MCCp0Interrupts --------------------------
(* Values of the constants of Cp0Interrupts for TLC. *)
EXTENDS Cp0Interrupts

\* What games write to Status: every interrupt enabled, or none.
MCDeliveryStatus ==
    {[ie |-> TRUE,  exl |-> FALSE, erl |-> FALSE, im |-> {"IP2", "IP4", "IP7"}],
     [ie |-> FALSE, exl |-> FALSE, erl |-> FALSE, im |-> {"IP2", "IP4"}]}
=============================================================================
