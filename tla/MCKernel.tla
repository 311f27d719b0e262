------------------------------ MODULE MCKernel ------------------------------
(* A small instance of Kernel.  A high, a middle and a low thread are what *)
(* priority inversion needs.  The middle one is created and exits, so that *)
(* the idle thread frees it, in the heap that the high one uses too; it    *)
(* also locks the scheduler.  Waits of one and of two ticks keep the order *)
(* of the timers apart on a clock of eight values, which wraps.            *)
EXTENDS Kernel

SomePriorities == [h |-> 0, m |-> 1, l |-> 2, idle |-> 3]

SomeUses == [h |-> {"mutex", "rx", "heap"},
             m |-> {"mutex", "critical"},
             l |-> {"mutex", "sleep"}]

SomeTimes == [mutex |-> {Forever, 2}, rx |-> {Forever}, sleep |-> {1}]
=============================================================================
