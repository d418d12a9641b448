----------------------------- MODULE Lifecycle ------------------------------
(***************************************************************************)
(* Loading and unloading of the module: init_pim_swap and exit_pim_swap of *)
(* module/swap.c with dpu_alloc and dpu_free of module/dpu.c, where every  *)
(* allocation may fail.  The static variables of the module go with it:    *)
(* each load starts with null pointers and allocated = 0.                  *)
(*                                                                         *)
(* The memory of the DPUs comes from vmalloc, but the code hands it to     *)
(* kfree, which is not the release of such memory (vfree would be).  So    *)
(* nothing ever is given back here; the model says what reaches kfree.     *)
(***************************************************************************)
EXTENDS Integers

CONSTANTS
  DPUS_PER_RANK,  \* 4: DPU_ALLOCATE_ALL
  MaxLoads        \* bound: how often the module is loaded

ASSUME LifecycleAssumption == {DPUS_PER_RANK, MaxLoads} \subseteq Nat \ {0}

VARIABLES
  pc,           \* "out": not loaded; "in": loaded; else where the init is
  i,            \* the loop variable of dpu_alloc
  load,         \* how many loads there were
  chunks,       \* the memory that vmalloc gave: nothing calls vfree
  kfreed,       \* the memory that was handed to kfree
  tfm,          \* whether the compressor is allocated
  ops,          \* external: the loads whose frontswap_ops are registered
  freed_twice,  \* the memory that was handed to kfree more than once
  ended         \* history: for each load, how it ended

memVars  == <<chunks, kfreed, freed_twice>>
lifeVars == <<pc, i, load, memVars, tfm, ops, ended>>

Dpus  == 0 .. DPUS_PER_RANK - 1
Loads == 1 .. MaxLoads

Mram(d) == [kind |-> "mram", dpu |-> d, load |-> load]
Wram(d) == [kind |-> "wram", dpu |-> d, load |-> load]

(* The calls of kfree for memory.  What it does with an address of vmalloc *)
(* is undefined: the model goes on as if it did nothing.                   *)
Kfree(memory) ==
  /\ kfreed' = kfreed \cup memory
  /\ freed_twice' = freed_twice \cup (memory \cap kfreed)
  /\ UNCHANGED chunks

End(how) ==
  /\ pc' = "out"
  /\ ended' = [ended EXCEPT ![load] = how]

-----------------------------------------------------------------------------
(* dpu_alloc.                                                              *)

dpu_alloc ==
  /\ pc = "out"
  /\ load < MaxLoads
  /\ load' = load + 1
  /\ i' = 0
  /\ pc' = "ram"
  /\ UNCHANGED <<memVars, tfm, ops, ended>>

EnoughRam ==
  /\ pc = "ram"
  /\ pc' = "mram"
  /\ UNCHANGED <<i, load, memVars, tfm, ops, ended>>

NotEnoughRam ==
  /\ pc = "ram"
  /\ End("alloc")
  /\ UNCHANGED <<i, load, memVars, tfm, ops>>

AllocMram ==
  /\ pc = "mram"
  /\ chunks' = chunks \cup {Mram(i)}
  /\ pc' = "wram"
  /\ UNCHANGED <<i, load, kfreed, freed_twice, tfm, ops, ended>>

(* Mutant: the undo loop leaves out DPU 0.                                 *)
UndoStopsEarly(last) == 1 .. last

(* The DPUs whose memory the undo loop kfrees.  Their pointers are null    *)
(* where nothing was allocated, and kfree ignores those.                   *)
Undone(last) == 0 .. last

MramFails ==
  /\ pc = "mram"
  /\ Kfree({Mram(d) : d \in Undone(i) \ {i}} \cup {Wram(d) : d \in Undone(i) \ {i}})
  /\ End("alloc")
  /\ UNCHANGED <<i, load, tfm, ops>>

AllocWram ==
  /\ pc = "wram"
  /\ chunks' = chunks \cup {Wram(i)}
  /\ i' = i + 1
  /\ pc' = IF i + 1 \in Dpus THEN "mram" ELSE "crypto"
  /\ UNCHANGED <<load, kfreed, freed_twice, tfm, ops, ended>>

(* The MRAM of DPU i is kfreed before the loop, which kfrees it again.     *)
WramFails ==
  /\ pc = "wram"
  /\ LET first == {Mram(i)}
         loop  == {Mram(d) : d \in Undone(i)} \cup {Wram(d) : d \in Undone(i) \ {i}}
     IN  /\ kfreed' = kfreed \cup first \cup loop
         /\ freed_twice' = freed_twice \cup (first \cap kfreed)
                                      \cup (loop \cap (kfreed \cup first))
  /\ End("alloc")
  /\ UNCHANGED <<i, load, chunks, tfm, ops>>

-----------------------------------------------------------------------------
(* The rest of init_pim_swap, and exit_pim_swap.                           *)

CryptoAlloc ==
  /\ pc = "crypto"
  /\ tfm' = TRUE
  /\ pc' = "register"
  /\ UNCHANGED <<i, load, memVars, ops, ended>>

(* Mutant: the error of the compressor is not returned.                    *)
CryptoIgnored ==
  /\ pc = "crypto"
  /\ pc' = "register"
  /\ UNCHANGED <<i, load, memVars, tfm, ops, ended>>

(* The memory of the DPUs is not even handed to kfree.                     *)
CryptoFails ==
  /\ pc = "crypto"
  /\ End("crypto")
  /\ UNCHANGED <<i, load, memVars, tfm, ops>>

Register ==
  /\ pc = "register"
  /\ ops' = ops \cup {load}
  /\ pc' = "in"
  /\ UNCHANGED <<i, load, memVars, tfm, ended>>

(* The MRAM only: nothing kfrees the WRAM.                                 *)
dpu_free == Kfree({Mram(d) : d \in Dpus})

(* The ops stay registered.                                                *)
exit_pim_swap ==
  /\ pc = "in"
  /\ dpu_free
  /\ tfm' = FALSE
  /\ End("exit")
  /\ UNCHANGED <<i, load, ops>>

-----------------------------------------------------------------------------
LifeInit ==
  /\ pc = "out"
  /\ i = 0
  /\ load = 0
  /\ chunks = {}
  /\ kfreed = {}
  /\ tfm = FALSE
  /\ ops = {}
  /\ freed_twice = {}
  /\ ended = [n \in Loads |-> "none"]

LifeNext ==
  \/ dpu_alloc \/ EnoughRam \/ NotEnoughRam
  \/ AllocMram \/ MramFails \/ AllocWram \/ WramFails
  \/ CryptoAlloc \/ CryptoFails \/ Register
  \/ exit_pim_swap

LifeSpec == LifeInit /\ [][LifeNext]_lifeVars

-----------------------------------------------------------------------------
(* A dpu_alloc that fails, wherever it does, hands all the memory of its   *)
(* load to kfree, and none that it did not allocate.  Elsewhere memory is  *)
(* passed over: an unloaded module keeps its WRAM, and a load that found   *)
(* no compressor everything.                                               *)
UndoReachesAll ==
  kfreed = {m \in chunks : \/ ended[m.load] = "alloc"
                           \/ ended[m.load] = "exit" /\ m.kind = "mram"}

(* The handlers of a loaded module find the MRAM and the WRAM of every DPU *)
(* allocated, no undo or unload having handed it to kfree, and the         *)
(* compressor too.                                                         *)
OpsBacked ==
  pc = "in" => tfm /\ \A d \in Dpus : {Mram(d), Wram(d)} \subseteq chunks \ kfreed

-----------------------------------------------------------------------------
(* "undo!": what the undo of dpu_alloc kfrees was not kfreed before.       *)
UndoFreesOnce == freed_twice = {}
=============================================================================
