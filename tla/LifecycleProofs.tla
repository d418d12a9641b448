-------------------------- MODULE LifecycleProofs ---------------------------
(***************************************************************************)
(* For every number of DPUs and of loads: a dpu_alloc that fails hands all *)
(* that it allocated to kfree, and a loaded module has all that its        *)
(* handlers use.                                                           *)
(***************************************************************************)
EXTENDS Lifecycle, TLAPS

Loading == {"ram", "mram", "wram", "crypto", "register", "in"}

(* The control state: how far the loop of dpu_alloc is.                    *)
Control ==
  /\ pc \in Loading \cup {"out"}
  /\ i \in Nat
  /\ load \in 0 .. MaxLoads
  /\ ended \in [Loads -> {"none", "alloc", "crypto", "exit"}]
  /\ pc \in Loading => ended[load] = "none"
  /\ \A n \in Loads : n > load => ended[n] = "none"
  /\ pc \in Loading => load \in Loads
  /\ pc = "ram" => i = 0
  /\ pc \in {"mram", "wram"} => i \in Dpus
  /\ pc \in {"crypto", "register", "in"} => i = DPUS_PER_RANK
  /\ pc \in {"register", "in"} => tfm = TRUE

(* What the load in progress has allocated: all the memory of the DPUs     *)
(* before i and, between the two allocations of an iteration, the MRAM of  *)
(* DPU i.                                                                  *)
Present ==
  (pc \in Loading) =>
    /\ \A d \in 0 .. i - 1 : Mram(d) \in chunks /\ Wram(d) \in chunks
    /\ pc = "wram" => Mram(i) \in chunks

(* And nothing else: what the undo loop reaches is all there is.           *)
Known ==
  \A m \in chunks :
    /\ m.load \in 1 .. load
    /\ (m.load = load /\ pc \in Loading) =>
         \/ \E d \in 0 .. i - 1 : m = Mram(d) \/ m = Wram(d)
         \/ pc = "wram" /\ m = Mram(i)

LifeInv == Control /\ Present /\ Known /\ UndoReachesAll

LEMMA LifeInitInv == LifeInit => LifeInv
BY LifecycleAssumption
DEF LifeInit, LifeInv, Control, Present, Known, UndoReachesAll, Loading, Loads

(* Ending a load in dpu_alloc keeps the invariant if kfree got its memory. *)
LEMMA EndedReached ==
  ASSUME LifeInv, pc \in Loading,
         End("alloc"), UNCHANGED <<i, load, chunks, tfm>>,
         kfreed' = kfreed \cup {m \in chunks : m.load = load}
  PROVE  LifeInv'
<1> USE LifecycleAssumption DEF LifeInv, End
<1>1. Control'
  BY DEF Control, Loading, Loads, Dpus
<1>2. Present'
  BY DEF Present, Loading
<1>3. Known'
  BY DEF Known, Loading
<1>4. UndoReachesAll'
  <2> SUFFICES ASSUME NEW m \in chunks PROVE
        m \in kfreed' <=> \/ ended'[m.load] = "alloc"
                          \/ ended'[m.load] = "exit" /\ m.kind = "mram"
    BY DEF UndoReachesAll
  <2>1. CASE m.load = load
    BY <2>1 DEF Control, Loading
  <2>2. CASE m.load # load
    <3>1. ended'[m.load] = ended[m.load]
      BY <2>2 DEF Control
    <3> QED
      BY <2>2, <3>1 DEF UndoReachesAll
  <2> QED
    BY <2>1, <2>2
<1> QED
  BY <1>1, <1>2, <1>3, <1>4

(* What a dpu_alloc that fails has allocated: the memory of the DPUs       *)
(* before i and the MRAM of DPU i, if it has got that far.                 *)
LEMMA Allocated ==
  ASSUME LifeInv, pc \in {"mram", "wram"}
  PROVE  {m \in chunks : m.load = load} =
           {Mram(d) : d \in 0 .. i - 1} \cup {Wram(d) : d \in 0 .. i - 1}
             \cup (IF pc = "wram" THEN {Mram(i)} ELSE {})
<1> USE DEF LifeInv, Loading
<1> DEFINE before == {Mram(d) : d \in 0 .. i - 1} \cup {Wram(d) : d \in 0 .. i - 1}
           at     == IF pc = "wram" THEN {Mram(i)} ELSE {}
<1>1. \A m \in chunks : m.load = load => m \in before \cup at
  BY DEF Known
<1>2. \A m \in before \cup at : m \in chunks
  BY DEF Present
<1>3. \A m \in before \cup at : m.load = load
  BY DEF Mram, Wram
<1> QED
  BY <1>1, <1>2, <1>3

LEMMA LifeNextInv == LifeInv /\ [LifeNext]_lifeVars => LifeInv'
<1> SUFFICES ASSUME LifeInv, [LifeNext]_lifeVars PROVE LifeInv'
  OBVIOUS
<1> USE LifecycleAssumption DEF LifeInv
<1>1. CASE dpu_alloc
  <2>1. Control' /\ Present'
    BY <1>1 DEF dpu_alloc, memVars, Control, Present, Loading, Loads, Dpus
  <2>2. Known'
    BY <1>1 DEF dpu_alloc, memVars, Control, Known, Loading
  <2>3. UndoReachesAll'
    BY <1>1 DEF dpu_alloc, memVars, UndoReachesAll
  <2> QED
    BY <2>1, <2>2, <2>3
<1>2. CASE EnoughRam
  <2>1. Control' /\ Present' /\ Known'
    BY <1>2 DEF EnoughRam, memVars, Control, Present, Known, Loading, Loads, Dpus, Mram, Wram
  <2>2. UndoReachesAll'
    BY <1>2 DEF EnoughRam, memVars, UndoReachesAll
  <2> QED
    BY <2>1, <2>2
<1>3. CASE NotEnoughRam
  <2>1. {m \in chunks : m.load = load} = {}
    BY <1>3 DEF NotEnoughRam, Control, Known, Loading
  <2> QED
    BY <1>3, <2>1, EndedReached DEF NotEnoughRam, memVars, Loading
<1>4. CASE AllocMram
  <2>1. Control'
    BY <1>4 DEF AllocMram, Control, Loading, Loads, Dpus
  <2>2. Present'
    BY <1>4 DEF AllocMram, Control, Present, Loading, Mram, Wram
  <2>3. Known'
    <3> SUFFICES ASSUME NEW m \in chunks' PROVE
          /\ m.load \in 1 .. load
          /\ m.load = load => \/ \E d \in 0 .. i - 1 : m = Mram(d) \/ m = Wram(d)
                              \/ m = Mram(i)
      BY <1>4 DEF AllocMram, Known, Mram, Wram
    <3>1. CASE m = Mram(i)
      BY <1>4, <3>1 DEF AllocMram, Control, Loading, Loads, Mram
    <3>2. CASE m \in chunks
      BY <1>4, <3>2 DEF AllocMram, Known, Loading
    <3> QED
      BY <1>4, <3>1, <3>2 DEF AllocMram
  <2>4. UndoReachesAll'
    <3>1. ended[Mram(i).load] = "none"
      BY <1>4 DEF AllocMram, Control, Loading, Mram
    <3> QED
      BY <1>4, <3>1 DEF AllocMram, UndoReachesAll
  <2> QED
    BY <2>1, <2>2, <2>3, <2>4
<1>5. CASE MramFails
  <2>1. Undone(i) \ {i} = 0 .. i - 1
    BY <1>5 DEF MramFails, Control, Undone
  <2>2. kfreed' = kfreed \cup {m \in chunks : m.load = load}
    BY <1>5, <2>1, Allocated DEF MramFails, Kfree
  <2> QED
    BY <1>5, <2>2, EndedReached DEF MramFails, Kfree, Loading
<1>6. CASE AllocWram
  <2>1. Control'
    BY <1>6 DEF AllocWram, Control, Loading, Loads, Dpus
  <2>2. Present'
    <3> SUFFICES ASSUME NEW d \in 0 .. i PROVE Mram(d) \in chunks' /\ Wram(d) \in chunks'
      BY <1>6 DEF AllocWram, Control, Present, Mram, Wram
    <3>1. CASE d = i
      BY <1>6, <3>1 DEF AllocWram, Present, Loading
    <3>2. CASE d \in 0 .. i - 1
      BY <1>6, <3>2 DEF AllocWram, Present, Loading
    <3> QED
      BY <3>1, <3>2 DEF Control
  <2>3. Known'
    <3> SUFFICES ASSUME NEW m \in chunks' PROVE
          /\ m.load \in 1 .. load
          /\ m.load = load => \E d \in 0 .. i : m = Mram(d) \/ m = Wram(d)
      BY <1>6 DEF AllocWram, Control, Known, Mram, Wram
    <3>1. CASE m = Wram(i)
      BY <1>6, <3>1 DEF AllocWram, Control, Loading, Loads, Wram
    <3>2. CASE m \in chunks
      BY <1>6, <3>2 DEF AllocWram, Control, Known, Loading
    <3> QED
      BY <1>6, <3>1, <3>2 DEF AllocWram
  <2>4. UndoReachesAll'
    <3>1. ended[Wram(i).load] = "none"
      BY <1>6 DEF AllocWram, Control, Loading, Wram
    <3> QED
      BY <1>6, <3>1 DEF AllocWram, UndoReachesAll
  <2> QED
    BY <2>1, <2>2, <2>3, <2>4
<1>7. CASE WramFails
  <2>1. Undone(i) \ {i} = 0 .. i - 1 /\ Undone(i) = (0 .. i - 1) \cup {i}
    BY <1>7 DEF WramFails, Control, Undone
  <2>2. {Mram(d) : d \in Undone(i)} = {Mram(d) : d \in 0 .. i - 1} \cup {Mram(i)}
    BY <2>1
  <2>3. kfreed' = kfreed \cup {m \in chunks : m.load = load}
    BY <1>7, <2>1, <2>2, Allocated DEF WramFails
  <2> QED
    BY <1>7, <2>3, EndedReached DEF WramFails, Loading
<1>8. CASE CryptoAlloc
  <2>1. Control' /\ Present' /\ Known'
    BY <1>8 DEF CryptoAlloc, memVars, Control, Present, Known, Loading, Loads, Dpus, Mram, Wram
  <2>2. UndoReachesAll'
    BY <1>8 DEF CryptoAlloc, memVars, UndoReachesAll
  <2> QED
    BY <2>1, <2>2
<1>9. CASE CryptoFails
  <2>1. Control' /\ Present' /\ Known'
    BY <1>9 DEF CryptoFails, memVars, End, Control, Present, Known, Loading, Loads, Dpus, Mram, Wram
  <2>2. UndoReachesAll'
    BY <1>9 DEF CryptoFails, memVars, End, UndoReachesAll, Control, Loading
  <2> QED
    BY <2>1, <2>2
<1>10. CASE Register
  <2>1. Control' /\ Present' /\ Known'
    BY <1>10 DEF Register, memVars, Control, Present, Known, Loading, Loads, Dpus, Mram, Wram
  <2>2. UndoReachesAll'
    BY <1>10 DEF Register, memVars, UndoReachesAll
  <2> QED
    BY <2>1, <2>2
<1>11. CASE exit_pim_swap
  <2>1. Control' /\ Present' /\ Known'
    BY <1>11 DEF exit_pim_swap, dpu_free, Kfree, End, Control, Present, Known, Loading, Loads, Dpus
  <2>2. Dpus = 0 .. i - 1
    BY <1>11 DEF exit_pim_swap, Control, Dpus
  <2>3. UndoReachesAll'
    <3>1. \A d \in Dpus : Mram(d) \in chunks
      BY <1>11, <2>2 DEF exit_pim_swap, Present, Loading
    <3> SUFFICES ASSUME NEW m \in chunks PROVE
          m \in kfreed' <=> \/ ended'[m.load] = "alloc"
                            \/ ended'[m.load] = "exit" /\ m.kind = "mram"
      BY <1>11, <3>1 DEF exit_pim_swap, dpu_free, Kfree, UndoReachesAll
    <3>2. m \in kfreed' <=> m \in kfreed \/ \E d \in Dpus : m = Mram(d)
      BY <1>11 DEF exit_pim_swap, dpu_free, Kfree
    <3>3. CASE m.load = load
      <4>1. m \notin kfreed
        BY <1>11, <3>3 DEF exit_pim_swap, Control, UndoReachesAll, Loading
      <4>2. PICK d \in Dpus : m = Mram(d) \/ m = Wram(d)
        BY <1>11, <2>2, <3>3 DEF exit_pim_swap, Known, Loading
      <4>3. m.kind = "mram" <=> m = Mram(d)
        BY <4>2 DEF Mram, Wram
      <4>4. ended'[m.load] = "exit"
        BY <1>11, <3>3 DEF exit_pim_swap, End, Control, Loading
      <4>5. (\E e \in Dpus : m = Mram(e)) <=> m.kind = "mram"
        BY <4>2, <4>3 DEF Mram
      <4> QED
        BY <3>2, <4>1, <4>4, <4>5
    <3>4. CASE m.load # load
      <4>1. ended'[m.load] = ended[m.load]
        BY <1>11, <3>4 DEF exit_pim_swap, End, Control
      <4>2. \A d \in Dpus : m # Mram(d)
        BY <3>4 DEF Mram
      <4> QED
        BY <3>2, <4>1, <4>2 DEF UndoReachesAll
    <3> QED
      BY <3>3, <3>4
  <2> QED
    BY <2>1, <2>3
<1>12. CASE UNCHANGED lifeVars
  BY <1>12 DEF lifeVars, memVars, Control, Present, Known, UndoReachesAll, Mram, Wram
<1> QED
  BY <1>1, <1>2, <1>3, <1>4, <1>5, <1>6, <1>7, <1>8, <1>9, <1>10, <1>11, <1>12
  DEF LifeNext

(* However many DPUs there are and wherever an allocation fails, dpu_alloc *)
(* has handed all it had allocated to kfree when it returns an error.      *)
THEOREM UndoAlwaysReachesAll == LifeSpec => []UndoReachesAll
<1>1. LifeInv => UndoReachesAll
  BY DEF LifeInv
<1> QED
  BY <1>1, LifeInitInv, LifeNextInv, PTL DEF LifeSpec

(* Whenever the ops of the module can be called all DPUs have their memory *)
(* and the compressor is there.                                            *)
THEOREM OpsAlwaysBacked == LifeSpec => []OpsBacked
<1>1. LifeInv => OpsBacked
  <2> SUFFICES ASSUME LifeInv, pc = "in", NEW d \in Dpus, NEW m \in {Mram(d), Wram(d)}
               PROVE  tfm /\ m \in chunks /\ m \notin kfreed
    BY DEF LifeInv, Control, OpsBacked
  <2>1. tfm /\ m \in chunks
    BY LifecycleAssumption DEF LifeInv, Control, Present, Loading, Dpus
  <2>2. m.load = load /\ ended[load] = "none"
    BY DEF LifeInv, Control, Loading, Mram, Wram
  <2> QED
    BY <2>1, <2>2 DEF LifeInv, UndoReachesAll
<1> QED
  BY <1>1, LifeInitInv, LifeNextInv, PTL DEF LifeSpec
=============================================================================
