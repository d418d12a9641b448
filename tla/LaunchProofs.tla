---------------------------- MODULE LaunchProofs ----------------------------
(***************************************************************************)
(* For every number of CPUs and of DPUs: a launch calls a program once on  *)
(* each of its DPUs and gives it pages that lie in WRAM; and one CPU alone *)
(* always works on the DPU that it launched.                               *)
(***************************************************************************)
EXTENDS Launch, TLAPS

(* The programs run by one tasklet, NR_TASKLETS is 1.                      *)
OneTasklet == NR_TASKLETS = 1

OneCpu == \A c, k \in Cpus : c = k

Launching == {"dpu", "first", "tasklet", "call", "main", "acquire", "release",
              "rest", "next"}

Running == {"main", "acquire", "release", "rest", "next"}

Pages == [dpu : Dpus, page : 0 .. WRAM_PAGES - 1]

Local == [pc : {"idle", "load", "done"} \cup Launching,
          op : Programs \cup {"none"}, dpu_id : Nat, prog : Programs \cup {"none"},
          pointer : 0 .. WRAM_PAGES - 1, wram : Seq(Pages), ran : [Dpus -> Nat]]

LaunchTypeOK ==
  /\ cpu \in [Cpus -> Local]
  /\ current_dpu \in Dpus
  /\ main \in [Dpus -> Programs \cup {"none"}]
  /\ current_tasklet \in [Dpus -> Nat]
  /\ wram_heap \in [Dpus -> 0 .. WRAM_PAGES - 1]
  /\ \A c \in Cpus : cpu[c].pc \in {"load"} \cup Launching => cpu[c].dpu_id \in Dpus

(* What a launch has called so far: every DPU before its own once, the     *)
(* DPUs after it not yet, and its own as the place in the loop says.       *)
CountedAt(op, pc, dpu_id, ran) ==
  \A d \in Dpus :
    /\ pc \in {"idle", "load"} => ran[d] = 0
    /\ pc = "done" => ran[d] = IF d <= LastDpu(op) THEN 1 ELSE 0
    /\ pc \in Launching =>
         /\ dpu_id <= LastDpu(op)
         /\ d < dpu_id => ran[d] = 1
         /\ d > dpu_id => ran[d] = 0
         /\ d = dpu_id => ran[d] = IF pc \in Running THEN 1 ELSE 0

Counted == \A c \in Cpus : CountedAt(cpu[c].op, cpu[c].pc, cpu[c].dpu_id, cpu[c].ran)

(* Where a launch has made its DPU the current one.                        *)
Current ==
  \A c \in Cpus :
    cpu[c].pc \in Launching \ {"dpu"} => current_dpu = cpu[c].dpu_id

-----------------------------------------------------------------------------
LEMMA ZeroDpu == 0 \in Dpus
BY LaunchAssumption DEF Dpus

LEMMA IdleTyped == Idle \in Local /\ Idle.pc = "idle" /\ Idle.dpu_id \in Dpus
<1>1. 0 \in 0 .. WRAM_PAGES - 1 /\ <<>> \in Seq(Pages) /\ [d \in Dpus |-> 0] \in [Dpus -> Nat]
  BY LaunchAssumption
<1> QED BY <1>1, ZeroDpu DEF Idle, Local

LEMMA TypeInit == LaunchInit => LaunchTypeOK
<1>1. 0 \in 0 .. WRAM_PAGES - 1
  BY LaunchAssumption
<1> QED BY <1>1, IdleTyped, ZeroDpu DEF LaunchInit, LaunchTypeOK, Launching

(* A step of one CPU: r is what it becomes.                                *)
LEMMA CpuTyped ==
  ASSUME LaunchTypeOK, NEW c \in Cpus, NEW r \in Local,
         cpu' = [cpu EXCEPT ![c] = r],
         r.pc \in {"load"} \cup Launching => r.dpu_id \in Dpus
  PROVE  /\ cpu' \in [Cpus -> Local]
         /\ \A k \in Cpus :
              cpu'[k].pc \in {"load"} \cup Launching => cpu'[k].dpu_id \in Dpus
<1>1. cpu \in [Cpus -> Local]
  BY DEF LaunchTypeOK
<1>2. \A k \in Cpus : cpu'[k] = IF k = c THEN r ELSE cpu[k]
  BY <1>1
<1>3. cpu' \in [Cpus -> Local]
  BY <1>1
<1> HIDE DEF Local
<1>4. \A k \in Cpus : cpu[k].pc \in {"load"} \cup Launching => cpu[k].dpu_id \in Dpus
  BY DEF LaunchTypeOK
<1> QED BY <1>2, <1>3, <1>4

(* A CPU that goes on at another place.                                    *)
LEMMA GotoTyped ==
  ASSUME LaunchTypeOK, NEW c \in Cpus, NEW pc \in Launching,
         Goto(c, pc), cpu[c].pc \in Launching
  PROVE  /\ cpu' \in [Cpus -> Local]
         /\ \A k \in Cpus :
              cpu'[k].pc \in {"load"} \cup Launching => cpu'[k].dpu_id \in Dpus
<1> DEFINE r == [cpu[c] EXCEPT !.pc = pc]
<1>1. cpu[c] \in Local /\ cpu[c].dpu_id \in Dpus
  BY DEF LaunchTypeOK
<1>2. r \in Local /\ r.dpu_id = cpu[c].dpu_id
  BY <1>1 DEF Local
<1>3. cpu' = [cpu EXCEPT ![c] = r]
  BY DEF Goto
<1> HIDE DEF r
<1> QED BY <1>1, <1>2, <1>3, CpuTyped

LEMMA TypeNext == LaunchTypeOK /\ [LaunchNext]_vars => LaunchTypeOK'
<1> SUFFICES ASSUME LaunchTypeOK, [LaunchNext]_vars PROVE LaunchTypeOK'
  OBVIOUS
<1> USE LaunchAssumption, ZeroDpu
<1>1. ASSUME NEW c \in Cpus, NEW op \in Programs, Call(c, op) PROVE LaunchTypeOK'
  <2> DEFINE r == [Idle EXCEPT !.pc = "load", !.op = op]
  <2>1. r \in Local /\ r.dpu_id \in Dpus
    BY IdleTyped DEF Idle, Local
  <2>2. cpu' = [cpu EXCEPT ![c] = r]
    BY <1>1 DEF Call
  <2> HIDE DEF r
  <2> QED BY <1>1, <2>1, <2>2, CpuTyped DEF Call, LaunchTypeOK
<1>2. ASSUME NEW c \in Cpus, dpu_load(c) PROVE LaunchTypeOK'
  <2> DEFINE next == IF cpu[c].dpu_id + 1 \in Dpus THEN cpu[c].dpu_id + 1 ELSE 0
             pc == IF cpu[c].dpu_id + 1 \in Dpus THEN "load" ELSE "dpu"
             r == [cpu[c] EXCEPT !.dpu_id = next, !.pc = pc]
  <2>1. cpu[c] \in Local /\ cpu[c].pc \in {"load"} \cup Launching
    BY <1>2 DEF dpu_load, At, Launching, LaunchTypeOK
  <2>2. cpu[c].dpu_id \in Dpus
    BY <2>1 DEF LaunchTypeOK
  <2>3. next \in Dpus /\ next \in Nat /\ pc \in {"load", "dpu"}
    BY DEF Dpus
  <2>4. cpu' = [cpu EXCEPT ![c] = r] /\ cpu[c].op \in Programs \cup {"none"}
    BY <1>2, <2>1 DEF dpu_load, Local
  <2> HIDE DEF next, pc
  <2>5. r \in Local /\ r.dpu_id \in Dpus
    BY <2>1, <2>3 DEF Local, Launching
  <2> HIDE DEF r
  <2> QED BY <1>2, <2>2, <2>4, <2>5, CpuTyped DEF dpu_load, LaunchTypeOK
<1>3. ASSUME NEW c \in Cpus, StartDpu(c) PROVE LaunchTypeOK'
  <2>1. cpu[c].pc \in Launching /\ cpu[c].dpu_id \in Dpus
    BY <1>3 DEF StartDpu, At, Launching, LaunchTypeOK
  <2>2. "first" \in Launching /\ Goto(c, "first")
    BY <1>3 DEF StartDpu, Launching
  <2> QED BY <1>3, <2>1, <2>2, GotoTyped DEF StartDpu, LaunchTypeOK
<1>4. ASSUME NEW c \in Cpus, FirstTasklet(c) PROVE LaunchTypeOK'
  <2>1. cpu[c].pc \in Launching /\ cpu[c].dpu_id \in Dpus
    BY <1>4 DEF FirstTasklet, At, Launching, LaunchTypeOK
  <2>2. "tasklet" \in Launching /\ Goto(c, "tasklet")
    BY <1>4 DEF FirstTasklet, Launching
  <2> QED BY <1>4, <2>1, <2>2, GotoTyped DEF FirstTasklet, LaunchTypeOK
<1>5. ASSUME NEW c \in Cpus, ResetHeap(c) PROVE LaunchTypeOK'
  <2>1. cpu[c].pc \in Launching /\ cpu[c].dpu_id \in Dpus
    BY <1>5 DEF ResetHeap, At, Launching, LaunchTypeOK
  <2>2. "call" \in Launching /\ Goto(c, "call")
    BY <1>5 DEF ResetHeap, Launching
  <2> QED BY <1>5, <2>1, <2>2, GotoTyped DEF ResetHeap, LaunchTypeOK
<1>6. ASSUME NEW c \in Cpus, CallMain(c) PROVE LaunchTypeOK'
  <2> DEFINE d == cpu[c].dpu_id
             ran == [cpu[c].ran EXCEPT ![d] = CountCall(@)]
             r == [cpu[c] EXCEPT !.prog = main[d], !.pc = "main", !.ran = ran]
  <2>1. cpu[c] \in Local /\ d \in Dpus
    BY <1>6 DEF CallMain, At, Launching, LaunchTypeOK
  <2>2. cpu[c].ran \in [Dpus -> Nat] /\ main[d] \in Programs \cup {"none"}
    BY <2>1 DEF LaunchTypeOK, Local
  <2>3. ran \in [Dpus -> Nat]
    <3>1. CountCall(cpu[c].ran[d]) \in Nat
      BY <2>1, <2>2 DEF CountCall
    <3> QED BY <2>2, <3>1
  <2>4. cpu' = [cpu EXCEPT ![c] = r]
    BY <1>6 DEF CallMain
  <2> HIDE DEF ran
  <2>5. r \in Local /\ r.dpu_id = d
    BY <2>1, <2>2, <2>3 DEF Local, Launching
  <2> HIDE DEF r
  <2> QED BY <1>6, <2>1, <2>4, <2>5, CpuTyped DEF CallMain, LaunchTypeOK
<1>7. ASSUME NEW c \in Cpus, ReadId(c) PROVE LaunchTypeOK'
  <2>1. cpu[c].pc \in Launching /\ cpu[c].dpu_id \in Dpus
    BY <1>7 DEF ReadId, At, Launching, LaunchTypeOK
  <2>2. \E pc \in Launching : Goto(c, pc)
    BY <1>7 DEF ReadId, Launching
  <2> QED BY <1>7, <2>1, <2>2, GotoTyped DEF ReadId, LaunchTypeOK
<1>8. ASSUME NEW c \in Cpus, MemAllocAcquire(c) PROVE LaunchTypeOK'
  <2> DEFINE r == [cpu[c] EXCEPT !.pointer = wram_heap[current_dpu], !.pc = "release"]
  <2>1. cpu[c] \in Local /\ cpu[c].pc \in {"load"} \cup Launching
    BY <1>8 DEF MemAllocAcquire, At, Launching, LaunchTypeOK
  <2>2. cpu[c].dpu_id \in Dpus
    BY <2>1 DEF LaunchTypeOK
  <2>3. r \in Local
    BY <2>1, <2>2 DEF Local, Launching, LaunchTypeOK
  <2>4. r.pc \in {"load"} \cup Launching => r.dpu_id \in Dpus
    BY <2>1, <2>2 DEF Local, Launching
  <2>5. cpu' = [cpu EXCEPT ![c] = r]
    BY <1>8 DEF MemAllocAcquire
  <2> HIDE DEF r
  <2> QED BY <1>8, <2>1, <2>2, <2>3, <2>4, <2>5, CpuTyped DEF MemAllocAcquire, LaunchTypeOK, Local
<1>9. ASSUME NEW c \in Cpus, MemAllocRelease(c) PROVE LaunchTypeOK'
  <2> DEFINE page == [dpu |-> current_dpu, page |-> cpu[c].pointer]
             next == IF cpu[c].wram = <<>> THEN "acquire" ELSE "rest"
             r == [cpu[c] EXCEPT !.wram = Append(@, page), !.pc = next]
  <2>1. cpu[c] \in Local /\ cpu[c].dpu_id \in Dpus
    BY <1>9 DEF MemAllocRelease, At, Launching, LaunchTypeOK
  <2>2. page \in Pages /\ cpu[c].wram \in Seq(Pages)
    BY <2>1 DEF LaunchTypeOK, Local, Pages
  <2>3. Append(cpu[c].wram, page) \in Seq(Pages)
    BY <2>2
  <2>4. Advanced(cpu[c].pointer) \in 0 .. WRAM_PAGES - 1
    BY <2>1 DEF Advanced, Local
  <2>5. next \in Launching
    BY DEF Launching
  <2>6. cpu' = [cpu EXCEPT ![c] = r]
    BY <1>9 DEF MemAllocRelease
  <2> HIDE DEF page, next
  <2>7. r \in Local /\ r.dpu_id = cpu[c].dpu_id
    BY <2>1, <2>3, <2>5 DEF Local
  <2> HIDE DEF r
  <2> QED BY <1>9, <2>1, <2>4, <2>6, <2>7, CpuTyped DEF MemAllocRelease, LaunchTypeOK
<1>10. ASSUME NEW c \in Cpus, Rest(c) PROVE LaunchTypeOK'
  <2>1. cpu[c].pc \in Launching /\ cpu[c].dpu_id \in Dpus
    BY <1>10 DEF Rest, At, Launching, LaunchTypeOK
  <2>2. "next" \in Launching /\ Goto(c, "next")
    BY <1>10 DEF Rest, Launching
  <2> QED BY <1>10, <2>1, <2>2, GotoTyped DEF Rest, LaunchTypeOK
<1>11. ASSUME NEW c \in Cpus, NextTasklet(c) PROVE LaunchTypeOK'
  <2> DEFINE more == [cpu[c] EXCEPT !.prog = "none", !.wram = <<>>, !.pc = "tasklet"]
             n == current_tasklet[cpu[c].dpu_id] + 1
             r == IF MoreTasklets(n) THEN more ELSE NextDpu(c)
  <2>1. cpu[c] \in Local /\ cpu[c].dpu_id \in Dpus
    BY <1>11 DEF NextTasklet, At, Launching, LaunchTypeOK
  <2>2. more \in Local /\ more.dpu_id \in Dpus
    <3>1. <<>> \in Seq(Pages)
      OBVIOUS
    <3> QED BY <2>1, <3>1 DEF Local, Launching
  <2>3. NextDpu(c) \in Local /\ (NextDpu(c).pc \in Launching => NextDpu(c).dpu_id \in Dpus)
                /\ NextDpu(c).pc # "load"
    <3> DEFINE next == cpu[c].dpu_id + 1
               pc == IF cpu[c].dpu_id < LastDpu(cpu[c].op) THEN "dpu" ELSE "done"
    <3>1. <<>> \in Seq(Pages) /\ next \in Nat
      BY <2>1 DEF Dpus
    <3>2. pc \in {"dpu", "done"} /\ (pc = "dpu" => next \in Dpus)
      BY <2>1 DEF LastDpu, PageDpu, Dpus
    <3>3. NextDpu(c) = [cpu[c] EXCEPT !.prog = "none", !.wram = <<>>, !.dpu_id = next, !.pc = pc]
      BY <2>1 DEF NextDpu, Local
    <3> HIDE DEF next, pc
    <3> QED BY <2>1, <3>1, <3>2, <3>3 DEF Local, Launching
  <2>4. n \in Nat
    BY <2>1 DEF LaunchTypeOK
  <2>5. cpu' = [cpu EXCEPT ![c] = r] /\ current_tasklet' = [current_tasklet EXCEPT ![cpu[c].dpu_id] = n]
    BY <1>11 DEF NextTasklet
  <2> HIDE DEF more, n
  <2>6. r \in Local /\ (r.pc \in {"load"} \cup Launching => r.dpu_id \in Dpus)
    BY <2>2, <2>3
  <2> HIDE DEF r
  <2> QED BY <1>11, <2>1, <2>4, <2>5, <2>6, CpuTyped DEF NextTasklet, LaunchTypeOK
<1>12. ASSUME NEW c \in Cpus, Return(c) PROVE LaunchTypeOK'
  BY <1>12, IdleTyped, CpuTyped DEF Return, LaunchTypeOK
<1>13. ASSUME UNCHANGED vars PROVE LaunchTypeOK'
  BY <1>13 DEF vars, LaunchTypeOK
<1> QED BY <1>1, <1>2, <1>3, <1>4, <1>5, <1>6, <1>7, <1>8, <1>9, <1>10, <1>11, <1>12, <1>13
        DEF LaunchNext, Step

LEMMA TypeCorrect == LaunchSpec => []LaunchTypeOK
BY TypeInit, TypeNext, PTL DEF LaunchSpec

-----------------------------------------------------------------------------
LEMMA CountedKept ==
  ASSUME LaunchTypeOK, Counted, NEW c \in Cpus, NEW r, cpu' = [cpu EXCEPT ![c] = r],
         CountedAt(r.op, r.pc, r.dpu_id, r.ran)
  PROVE  Counted'
<1>1. \A k \in Cpus : cpu'[k] = IF k = c THEN r ELSE cpu[k]
  BY DEF LaunchTypeOK
<1> QED BY <1>1 DEF Counted

(* A CPU that goes on without a change to its DPU and its count.           *)
LEMMA CountedSame ==
  ASSUME LaunchTypeOK, Counted, NEW c \in Cpus, NEW r,
         cpu' = [cpu EXCEPT ![c] = r],
         r.op = cpu[c].op, r.dpu_id = cpu[c].dpu_id, r.ran = cpu[c].ran,
         cpu[c].pc \in Launching, r.pc \in Launching,
         cpu[c].pc \in Running <=> r.pc \in Running
  PROVE  Counted'
BY CountedKept DEF Counted, CountedAt, Launching

LEMMA CountedNext ==
  ASSUME OneTasklet, LaunchTypeOK, Counted, [LaunchNext]_vars
  PROVE  Counted'
<1> USE LaunchAssumption
<1>1. \A c \in Cpus : cpu[c] \in Local
  BY DEF LaunchTypeOK
<1>2. ASSUME NEW c \in Cpus, NEW op \in Programs, Call(c, op) PROVE Counted'
  <2> DEFINE r == [Idle EXCEPT !.pc = "load", !.op = op]
  <2>1. CountedAt(r.op, r.pc, r.dpu_id, r.ran)
    BY DEF Idle, CountedAt, Launching
  <2>2. cpu' = [cpu EXCEPT ![c] = r]
    BY <1>2 DEF Call
  <2> HIDE DEF r
  <2> QED BY <2>1, <2>2, CountedKept
<1>3. ASSUME NEW c \in Cpus, dpu_load(c) PROVE Counted'
  <2> DEFINE next == IF cpu[c].dpu_id + 1 \in Dpus THEN cpu[c].dpu_id + 1 ELSE 0
             pc == IF cpu[c].dpu_id + 1 \in Dpus THEN "load" ELSE "dpu"
             r == [cpu[c] EXCEPT !.dpu_id = next, !.pc = pc]
  <2>1. cpu' = [cpu EXCEPT ![c] = r]
    BY <1>3 DEF dpu_load
  <2>2. \A d \in Dpus : cpu[c].ran[d] = 0
    BY <1>3 DEF dpu_load, At, Counted, CountedAt
  <2>3. pc = "load" \/ (pc = "dpu" /\ next = 0)
    OBVIOUS
  <2> HIDE DEF next, pc
  <2>4. r.pc = pc /\ r.dpu_id = next /\ r.ran = cpu[c].ran
    BY <1>1 DEF Local
  <2>5. 0 <= LastDpu(r.op)
    BY DEF LastDpu, PageDpu
  <2>6. CountedAt(r.op, r.pc, r.dpu_id, r.ran)
    BY <2>2, <2>3, <2>4, <2>5 DEF CountedAt, Launching, Running, Dpus
  <2> HIDE DEF r
  <2> QED BY <2>1, <2>6, CountedKept
<1>4. ASSUME NEW c \in Cpus, NEW pc, Goto(c, pc), cpu[c].pc \in Launching, pc \in Launching,
             cpu[c].pc \in Running <=> pc \in Running
      PROVE  Counted'
  <2> DEFINE r == [cpu[c] EXCEPT !.pc = pc]
  <2>1. cpu' = [cpu EXCEPT ![c] = r]
    BY <1>4 DEF Goto
  <2>2. r.pc = pc /\ r.op = cpu[c].op /\ r.dpu_id = cpu[c].dpu_id /\ r.ran = cpu[c].ran
    BY <1>1 DEF Local
  <2> HIDE DEF r
  <2> QED BY <1>4, <2>1, <2>2, CountedSame
<1>5. ASSUME NEW c \in Cpus,
             StartDpu(c) \/ FirstTasklet(c) \/ ResetHeap(c) \/ ReadId(c) \/ Rest(c)
      PROVE  Counted'
  BY <1>4, <1>5 DEF StartDpu, FirstTasklet, ResetHeap, ReadId, Rest, At, Launching, Running
<1>6. ASSUME NEW c \in Cpus, CallMain(c) PROVE Counted'
  <2> DEFINE d == cpu[c].dpu_id
             ran == [cpu[c].ran EXCEPT ![d] = CountCall(@)]
             r == [cpu[c] EXCEPT !.prog = main[d], !.pc = "main", !.ran = ran]
  <2>1. cpu' = [cpu EXCEPT ![c] = r]
    BY <1>6 DEF CallMain
  <2>2. cpu[c].pc = "call" /\ d \in Dpus /\ cpu[c].ran \in [Dpus -> Nat]
    BY <1>1, <1>6 DEF CallMain, At, LaunchTypeOK, Launching, Local
  <2>3. cpu[c].ran[d] = 0 /\ CountCall(0) = 1
    BY <2>2 DEF Counted, CountedAt, Launching, Running, OneTasklet, CountCall
  <2>4. \A e \in Dpus : ran[e] = IF e = d THEN 1 ELSE cpu[c].ran[e]
    BY <2>2, <2>3
  <2>5. /\ d <= LastDpu(cpu[c].op)
        /\ \A e \in Dpus : (e < d => cpu[c].ran[e] = 1) /\ (e > d => cpu[c].ran[e] = 0)
    BY <2>2 DEF Counted, CountedAt, Launching
  <2> HIDE DEF ran
  <2>6. r.pc = "main" /\ r.op = cpu[c].op /\ r.dpu_id = d /\ r.ran = ran
    BY <1>1 DEF Local
  <2>7. CountedAt(r.op, r.pc, r.dpu_id, r.ran)
    BY <2>2, <2>4, <2>5, <2>6 DEF CountedAt, Running, Dpus
  <2> HIDE DEF r
  <2> QED BY <2>1, <2>7, CountedKept
<1>7. ASSUME NEW c \in Cpus, MemAllocAcquire(c) PROVE Counted'
  <2> DEFINE r == [cpu[c] EXCEPT !.pointer = wram_heap[current_dpu], !.pc = "release"]
  <2>1. cpu' = [cpu EXCEPT ![c] = r]
    BY <1>7 DEF MemAllocAcquire
  <2>2. r.pc = "release" /\ r.op = cpu[c].op /\ r.dpu_id = cpu[c].dpu_id /\ r.ran = cpu[c].ran
    BY <1>1 DEF Local
  <2> HIDE DEF r
  <2> QED BY <1>7, <2>1, <2>2, CountedSame DEF MemAllocAcquire, At, Launching, Running
<1>8. ASSUME NEW c \in Cpus, MemAllocRelease(c) PROVE Counted'
  <2> DEFINE page == [dpu |-> current_dpu, page |-> cpu[c].pointer]
             next == IF cpu[c].wram = <<>> THEN "acquire" ELSE "rest"
             r == [cpu[c] EXCEPT !.wram = Append(@, page), !.pc = next]
  <2>1. cpu' = [cpu EXCEPT ![c] = r]
    BY <1>8 DEF MemAllocRelease
  <2>2. next \in {"acquire", "rest"}
    OBVIOUS
  <2> HIDE DEF next, page
  <2>3. r.pc = next /\ r.op = cpu[c].op /\ r.dpu_id = cpu[c].dpu_id /\ r.ran = cpu[c].ran
    BY <1>1 DEF Local
  <2> HIDE DEF r
  <2> QED BY <1>8, <2>1, <2>2, <2>3, CountedSame DEF MemAllocRelease, At, Launching, Running
<1>9. ASSUME NEW c \in Cpus, NextTasklet(c) PROVE Counted'
  <2> DEFINE d == cpu[c].dpu_id
             r == NextDpu(c)
  <2>1. cpu[c].pc = "next" /\ d \in Dpus
    BY <1>9 DEF NextTasklet, At, LaunchTypeOK, Launching
  <2>2. ~MoreTasklets(current_tasklet[d] + 1)
    BY <2>1 DEF LaunchTypeOK, MoreTasklets, OneTasklet
  <2>3. cpu' = [cpu EXCEPT ![c] = r]
    BY <1>9, <2>2 DEF NextTasklet
  <2>4. /\ r.pc = IF d < LastDpu(cpu[c].op) THEN "dpu" ELSE "done"
        /\ r.dpu_id = d + 1 /\ r.ran = cpu[c].ran /\ r.op = cpu[c].op
    BY <1>1 DEF NextDpu, Local
  <2>5. /\ d <= LastDpu(cpu[c].op)
        /\ \A e \in Dpus : (e <= d => cpu[c].ran[e] = 1) /\ (e > d => cpu[c].ran[e] = 0)
    BY <2>1 DEF Counted, CountedAt, Launching, Running, Dpus
  <2> HIDE DEF r
  <2>6. LastDpu(cpu[c].op) \in Dpus
    BY DEF LastDpu, PageDpu, Dpus
  <2>7. CASE d < LastDpu(cpu[c].op)
    <3>1. CountedAt(r.op, r.pc, r.dpu_id, r.ran)
      BY <2>1, <2>4, <2>5, <2>6, <2>7 DEF CountedAt, Running, Dpus
    <3> QED BY <2>3, <3>1, CountedKept
  <2>8. CASE ~(d < LastDpu(cpu[c].op))
    <3>1. d = LastDpu(cpu[c].op)
      BY <2>1, <2>5, <2>6, <2>8 DEF Dpus
    <3>2. CountedAt(r.op, r.pc, r.dpu_id, r.ran)
      BY <2>1, <2>4, <2>5, <2>8, <3>1 DEF CountedAt, Launching, Dpus
    <3> QED BY <2>3, <3>2, CountedKept
  <2> QED BY <2>7, <2>8
<1>10. ASSUME NEW c \in Cpus, Return(c) PROVE Counted'
  <2>1. CountedAt(Idle.op, Idle.pc, Idle.dpu_id, Idle.ran)
    BY DEF Idle, CountedAt, Launching
  <2> QED BY <1>10, <2>1, CountedKept DEF Return
<1>11. ASSUME UNCHANGED vars PROVE Counted'
  BY <1>11 DEF vars, Counted
<1> QED BY <1>2, <1>3, <1>5, <1>6, <1>7, <1>8, <1>9, <1>10, <1>11 DEF LaunchNext, Step

(* Every launch has called a program once on each of its DPUs when it is   *)
(* done, and on no other, although the CPUs count with the same tasklet: a *)
(* launch looks at it only after it has added one, and whatever another    *)
(* CPU has put there, the sum is at least one.                             *)
THEOREM RunsAlwaysOnce == OneTasklet => (LaunchSpec => []RunsOnce)
<1> SUFFICES ASSUME OneTasklet PROVE LaunchSpec => []RunsOnce
  OBVIOUS
<1>1. LaunchInit => Counted
  BY DEF LaunchInit, Counted, CountedAt, Idle, Launching
<1>2. LaunchTypeOK /\ Counted /\ [LaunchNext]_vars => Counted'
  BY CountedNext
<1>3. LaunchTypeOK /\ Counted => RunsOnce
  <2> SUFFICES ASSUME LaunchTypeOK, Counted, NEW c \in Cpus
               PROVE  /\ \A d \in Passed(c) : cpu[c].ran[d] = 1
                      /\ \A d \in Dpus : d > LastDpu(cpu[c].op) => cpu[c].ran[d] = 0
    BY DEF RunsOnce, OneTasklet
  <2>1. /\ cpu[c].pc \in {"idle", "load", "done"} \cup Launching
        /\ cpu[c].pc \in Launching => cpu[c].dpu_id \in Dpus
    BY DEF LaunchTypeOK, Local
  <2>2. LastDpu(cpu[c].op) \in Dpus
    BY LaunchAssumption DEF LastDpu, PageDpu, Dpus
  <2>3. CountedAt(cpu[c].op, cpu[c].pc, cpu[c].dpu_id, cpu[c].ran)
    BY DEF Counted
  <2>4. ASSUME NEW d \in Passed(c) PROVE cpu[c].ran[d] = 1
    <3>1. CASE cpu[c].pc = "done"
      <4>1. Passed(c) = 0 .. LastDpu(cpu[c].op)
        BY <3>1 DEF Passed
      <4>2. d \in Dpus /\ d <= LastDpu(cpu[c].op)
        BY <2>2, <2>4, <4>1, LaunchAssumption DEF Dpus
      <4> QED BY <2>3, <3>1, <4>2 DEF CountedAt
    <3>2. CASE cpu[c].pc \in Launching
      <4>1. Passed(c) = 0 .. cpu[c].dpu_id - 1
        BY <3>2 DEF Passed, Launching
      <4>2. d \in Dpus /\ d < cpu[c].dpu_id
        BY <2>1, <2>4, <3>2, <4>1, LaunchAssumption DEF Dpus
      <4> QED BY <2>3, <3>2, <4>2 DEF CountedAt
    <3> QED BY <2>1, <2>4, <3>1, <3>2 DEF Passed
  <2>5. ASSUME NEW d \in Dpus, d > LastDpu(cpu[c].op) PROVE cpu[c].ran[d] = 0
    <3>1. CASE cpu[c].pc \in {"idle", "load", "done"}
      BY <2>2, <2>3, <2>5, <3>1 DEF CountedAt, Dpus
    <3>2. CASE cpu[c].pc \in Launching
      <4>1. d > cpu[c].dpu_id
        BY <2>1, <2>2, <2>3, <2>5, <3>2 DEF CountedAt, Dpus
      <4> QED BY <2>3, <3>2, <4>1 DEF CountedAt
    <3> QED BY <2>1, <3>1, <3>2
  <2> QED BY <2>4, <2>5
<1> QED BY <1>1, <1>2, <1>3, TypeCorrect, PTL DEF LaunchSpec

(* The pages that programs are given lie in WRAM, however many launches    *)
(* overlap: the 16 bits of the heap pointer hold exactly the offsets of    *)
(* WRAM.                                                                   *)
THEOREM AlwaysInsideWram == LaunchSpec => []InsideWram
<1>1. LaunchTypeOK => InsideWram
  <2> SUFFICES ASSUME LaunchTypeOK, NEW c \in Cpus, NEW p \in Range(cpu[c].wram)
               PROVE  p.page < WRAM_PAGES
    BY DEF InsideWram
  <2>1. cpu[c].wram \in Seq(Pages)
    BY DEF LaunchTypeOK, Local
  <2>2. p \in Pages
    BY <2>1 DEF Range
  <2> QED BY <2>2, LaunchAssumption DEF Pages
<1> QED BY <1>1, TypeCorrect, PTL

-----------------------------------------------------------------------------
(* With one CPU a program works on the DPU that it was launched on.        *)
THEOREM AloneOnItsDpu == OneCpu => (LaunchSpec => []OwnDpu)
<1> SUFFICES ASSUME OneCpu PROVE LaunchSpec => []OwnDpu
  OBVIOUS
<1>1. LaunchInit => Current
  BY DEF LaunchInit, Current, Idle, Launching
<1>2. LaunchTypeOK /\ Current /\ [LaunchNext]_vars => Current'
  <2> SUFFICES ASSUME LaunchTypeOK, Current, [LaunchNext]_vars, NEW c \in Cpus
               PROVE  (cpu[c].pc \in Launching \ {"dpu"} => current_dpu = cpu[c].dpu_id)'
    BY DEF Current
  <2> USE DEF Current, Launching, At, Goto
  <2>1. cpu[c] \in Local /\ cpu = [k \in Cpus |-> cpu[k]]
    BY DEF LaunchTypeOK
  <2>2. CASE \E op \in Programs : Call(c, op)
    BY <2>1, <2>2 DEF Call, Idle
  <2>3. CASE dpu_load(c)
    BY <2>1, <2>3 DEF dpu_load, Local
  <2>4. CASE StartDpu(c) \/ FirstTasklet(c) \/ ResetHeap(c) \/ ReadId(c) \/ Rest(c)
    BY <2>1, <2>4 DEF StartDpu, FirstTasklet, ResetHeap, ReadId, Rest, Local
  <2>5. CASE CallMain(c) \/ MemAllocAcquire(c) \/ MemAllocRelease(c)
    BY <2>1, <2>5 DEF CallMain, MemAllocAcquire, MemAllocRelease, Local
  <2>6. CASE NextTasklet(c)
    BY <2>1, <2>6 DEF NextTasklet, NextDpu, Local
  <2>7. CASE Return(c)
    BY <2>1, <2>7 DEF Return, Idle
  <2>8. CASE UNCHANGED vars
    BY <2>8 DEF vars
  <2> QED BY <2>2, <2>3, <2>4, <2>5, <2>6, <2>7, <2>8 DEF LaunchNext, Step, OneCpu
<1>3. Current => OwnDpu
  BY DEF Current, OwnDpu, Launching
<1> QED BY <1>1, <1>2, <1>3, TypeCorrect, PTL DEF LaunchSpec
=============================================================================
