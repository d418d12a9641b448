------------------------------- MODULE Launch -------------------------------
(***************************************************************************)
(* dpu_load, dpu_launch and mem_alloc of module/dpu.c on all DPUs of a     *)
(* rank, called by the handlers of several CPUs.  The program of a DPU,    *)
(* its tasklet and its WRAM heap are fields of dpus[], and current_dpu is  *)
(* global: launches that overlap share all of them.  SmpSwap has the       *)
(* transfers, and DPU 0 alone.                                             *)
(***************************************************************************)
EXTENDS Naturals, Sequences, Functions

CONSTANTS
  Cpus,
  Programs,       \* among "compress", "decompress" and "invalidate"
  DPUS_PER_RANK,
  NR_TASKLETS,    \* 1
  WRAM_PAGES      \* WRAM_SIZE / PAGE_SIZE, also 2^16 / PAGE_SIZE: 16

Dpus == 0 .. DPUS_PER_RANK - 1

(* The DPU whose pages are accepted, and which alone is sent an id.        *)
PageDpu == 0

(* The set that a program is launched on, which begins with DPU 0: a load  *)
(* launches its program on the DPU of its page, the others on all.         *)
LastDpu(op) == IF op = "decompress" THEN PageDpu ELSE DPUS_PER_RANK - 1

ASSUME LaunchAssumption ==
  /\ DPUS_PER_RANK \in Nat \ {0}
  /\ NR_TASKLETS \in Nat \ {0}
  /\ WRAM_PAGES \in Nat \ {0}

VARIABLES
  cpu,              \* for each CPU, where it is in a handler, and its locals
  current_dpu,
  main,             \* dpus[].main
  current_tasklet,  \* dpus[].current_tasklet
  wram_heap         \* dpus[].wram_heap, in pages

vars == <<cpu, current_dpu, main, current_tasklet, wram_heap>>

(* op: the program that the handler loads; prog: the program that runs;    *)
(* wram: the pages it was given, each with its DPU; ran: a history         *)
(* variable, how often this launch has called a program on each DPU, up to *)
(* NR_TASKLETS + 1, which stands for too often.                            *)
Idle == [pc |-> "idle", op |-> "none", dpu_id |-> 0, prog |-> "none",
         pointer |-> 0, wram |-> <<>>, ran |-> [d \in Dpus |-> 0]]

(* The programs that allocate WRAM for a page that is there: two pages.    *)
Allocates(prog) == prog \in {"compress", "decompress"}

At(c, pc) == cpu[c].pc = pc

Goto(c, pc) == cpu' = [cpu EXCEPT ![c].pc = pc]

-----------------------------------------------------------------------------
(* A handler that has made its transfer calls dpu_load for its program ... *)
Call(c, op) ==
  /\ At(c, "idle")
  /\ cpu' = [cpu EXCEPT ![c] = [Idle EXCEPT !.pc = "load", !.op = op]]
  /\ UNCHANGED <<current_dpu, main, current_tasklet, wram_heap>>

(* ... which sets main of one DPU after the other.                         *)
dpu_load(c) ==
  LET d == cpu[c].dpu_id
  IN  /\ At(c, "load")
      /\ main' = [main EXCEPT ![d] = cpu[c].op]
      /\ cpu' = [cpu EXCEPT ![c].dpu_id = IF d + 1 \in Dpus THEN d + 1 ELSE 0,
                            ![c].pc = IF d + 1 \in Dpus THEN "load" ELSE "dpu"]
      /\ UNCHANGED <<current_dpu, current_tasklet, wram_heap>>

-----------------------------------------------------------------------------
(* dpu_launch.                                                             *)

StartDpu(c) ==
  /\ At(c, "dpu")
  /\ current_dpu' = cpu[c].dpu_id
  /\ Goto(c, "first")
  /\ UNCHANGED <<main, current_tasklet, wram_heap>>

(* The loop over the tasklets starts with 0 < NR_TASKLETS, a test that the *)
(* compiler decides without reading current_tasklet again.                 *)
FirstTasklet(c) ==
  /\ At(c, "first")
  /\ current_tasklet' = [current_tasklet EXCEPT ![cpu[c].dpu_id] = 0]
  /\ Goto(c, "tasklet")
  /\ UNCHANGED <<current_dpu, main, wram_heap>>

ResetHeap(c) ==
  /\ At(c, "tasklet")
  /\ wram_heap' = [wram_heap EXCEPT ![cpu[c].dpu_id] = 0]
  /\ Goto(c, "call")
  /\ UNCHANGED <<current_dpu, main, current_tasklet>>

CountCall(n) == IF n <= NR_TASKLETS THEN n + 1 ELSE n

CallMain(c) ==
  LET d == cpu[c].dpu_id
  IN  /\ At(c, "call")
      /\ cpu' = [cpu EXCEPT ![c].prog = main[d], ![c].pc = "main",
                            ![c].ran[d] = CountCall(@)]
      /\ UNCHANGED <<current_dpu, main, current_tasklet, wram_heap>>

(* Mutant: one tasklet too many.                                           *)
MoreTaskletsTo(n) == n <= NR_TASKLETS

MoreTasklets(n) == n < NR_TASKLETS

(* Mutant: the loop over the DPUs does not count.                          *)
SameDpu(c) == [cpu[c] EXCEPT !.prog = "none", !.wram = <<>>, !.pc = "dpu"]

(* The DPU is done: the next one, or the end of the launch.                *)
NextDpu(c) ==
  [cpu[c] EXCEPT !.prog = "none", !.wram = <<>>, !.dpu_id = @ + 1,
                 !.pc = IF cpu[c].dpu_id < LastDpu(cpu[c].op) THEN "dpu" ELSE "done"]

(* The increment of current_tasklet and the test of what it gave.          *)
NextTasklet(c) ==
  LET d == cpu[c].dpu_id
      n == current_tasklet[d] + 1
  IN  /\ At(c, "next")
      /\ current_tasklet' = [current_tasklet EXCEPT ![d] = n]
      /\ cpu' = [cpu EXCEPT
           ![c] = IF MoreTasklets(n)
                  THEN [@ EXCEPT !.prog = "none", !.wram = <<>>, !.pc = "tasklet"]
                  ELSE NextDpu(c)]
      /\ UNCHANGED <<current_dpu, main, wram_heap>>

Return(c) ==
  /\ At(c, "done")
  /\ cpu' = [cpu EXCEPT ![c] = Idle]
  /\ UNCHANGED <<current_dpu, main, current_tasklet, wram_heap>>

-----------------------------------------------------------------------------
(* The programs, as far as they use WRAM: on a DPU that was sent an id,    *)
(* some of them allocate.  The DPU is the one that is current.             *)

ReadId(c) ==
  /\ At(c, "main")
  /\ \/ Goto(c, "next")
     \/ current_dpu = PageDpu /\ Allocates(cpu[c].prog) /\ Goto(c, "acquire")
  /\ UNCHANGED <<current_dpu, main, current_tasklet, wram_heap>>

MemAllocAcquire(c) ==
  /\ At(c, "acquire")
  /\ cpu' = [cpu EXCEPT ![c].pointer = wram_heap[current_dpu], ![c].pc = "release"]
  /\ UNCHANGED <<current_dpu, main, current_tasklet, wram_heap>>

(* Mutant: the heap pointer is wider than 16 bits.                         *)
AdvancedWide(pointer) == pointer + 1

(* wram_heap has 16 bits: an offset behind the last page becomes 0.        *)
Advanced(pointer) == (pointer + 1) % WRAM_PAGES

(* Pages are aligned, so that the rounding to 8 changes nothing.           *)
MemAllocRelease(c) ==
  LET page == [dpu |-> current_dpu, page |-> cpu[c].pointer]
  IN  /\ At(c, "release")
      /\ wram_heap' = [wram_heap EXCEPT ![current_dpu] = Advanced(cpu[c].pointer)]
      /\ cpu' = [cpu EXCEPT ![c].wram = Append(@, page),
                            ![c].pc = IF cpu[c].wram = <<>> THEN "acquire" ELSE "rest"]
      /\ UNCHANGED <<current_dpu, main, current_tasklet>>

Rest(c) ==
  /\ At(c, "rest")
  /\ Goto(c, "next")
  /\ UNCHANGED <<current_dpu, main, current_tasklet, wram_heap>>

-----------------------------------------------------------------------------
LaunchInit ==
  /\ cpu = [c \in Cpus |-> Idle]
  /\ current_dpu = 0
  /\ main = [d \in Dpus |-> "none"]
  /\ current_tasklet = [d \in Dpus |-> 0]
  /\ wram_heap = [d \in Dpus |-> 0]

(* What a handler does once it was called.                                 *)
Step(c) ==
  \/ dpu_load(c) \/ StartDpu(c) \/ FirstTasklet(c) \/ ResetHeap(c) \/ CallMain(c)
  \/ ReadId(c) \/ MemAllocAcquire(c) \/ MemAllocRelease(c) \/ Rest(c)
  \/ NextTasklet(c) \/ Return(c)

LaunchNext == \E c \in Cpus : Step(c) \/ \E op \in Programs : Call(c, op)

LaunchSpec == LaunchInit /\ [][LaunchNext]_vars

(* A handler that runs waits for nothing.                                  *)
FairLaunchSpec == LaunchSpec /\ \A c \in Cpus : WF_vars(Step(c))

-----------------------------------------------------------------------------
(* The DPUs that a launch has passed: at its end, all up to its last.      *)
Passed(c) ==
  CASE cpu[c].pc \in {"idle", "load"} -> {}
    [] cpu[c].pc = "done" -> 0 .. LastDpu(cpu[c].op)
    [] OTHER -> 0 .. cpu[c].dpu_id - 1

(* Whatever the other CPUs do to the tasklet that a launch counts with, it *)
(* has called a program NR_TASKLETS times on every DPU that it has passed, *)
(* its last one included when it is done, and on none behind its last: no  *)
(* DPU is left out, none does its work twice or unasked.                   *)
RunsOnce ==
  \A c \in Cpus :
    /\ \A d \in Passed(c) : cpu[c].ran[d] = NR_TASKLETS
    /\ \A d \in Dpus : d > LastDpu(cpu[c].op) => cpu[c].ran[d] = 0

(* mem_alloc does not look at the size of WRAM, and launches that overlap  *)
(* write heap pointers back over those that others have advanced or reset, *)
(* without end: still every page that a program is given lies in WRAM.     *)
InsideWram ==
  \A c \in Cpus : \A p \in Range(cpu[c].wram) : p.page < WRAM_PAGES

(* Every handler comes back from dpu_launch, however often others start.   *)
LaunchReturns == \A c \in Cpus : ~At(c, "idle") ~> At(c, "idle")

(* current_dpu is the "currently executing dpu": the DPU that a program    *)
(* works on is the one that it was launched on.  That needs launches that  *)
(* do not overlap: between two steps of a program the launch of another    *)
(* CPU may go on to the next DPU.                                          *)
OwnDpu ==
  \A c \in Cpus :
    cpu[c].pc \in {"main", "acquire", "release", "rest"} => current_dpu = cpu[c].dpu_id
=============================================================================
