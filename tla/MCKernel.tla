------------------------------ MODULE MCKernel ------------------------------
(* TLC instance of KernelModules: a reader, two writers and two closing    *)
(* processes around the list, five processes around the stack, three rows  *)
(* in the process table, two LEDs.                                         *)
EXTENDS KernelModules

Process(pid, mm, vm, file, anon, rd, wr) ==
    [pid |-> pid, mm |-> mm, total_vm |-> vm, filepages |-> file, anonpages |-> anon,
     read |-> rd, write |-> wr]

\* Ties, a kernel thread without memory, a negative page count, and bytes that do not make a KB.
MCTables ==
    {<<Process(2, TRUE, 5, 3, -1, 1023, 1023), Process(3, FALSE, 9, 9, 9, 0, 1024),
       Process(1, TRUE, 5, 1, 2, 0, 0)>>}

Echo(word) == [word |-> word, space |-> TRUE]

MCRequests == {Echo("virt"), Echo("io"), Echo("cpu"), [word |-> "rss", space |-> FALSE]}
=============================================================================
