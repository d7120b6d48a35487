---- MODULE MCKernelLoop ----
(* Instances of KernelLoop for TLC.  The sets that EventLog enumerates are not *)
(* needed here: the kernel writes the events that its actions name.            *)
EXTENDS KernelLoop
=============================
