------------------------------ MODULE MCKernel ------------------------------
(* Two PCBs, one a kernel thread after init_proc, boxes of MSG_NUM
   nodes.  The other PCB is forked, run, restarted by exec and reaped. *)
EXTENDS Kernel
CONSTANTS t1, t2
MCBoot == <<t1>>
MCPool == <<t2>>
=============================================================================
