----------------------------- MODULE SwapCache ------------------------------
(***************************************************************************)
(* What the frontswap back end is to the kernel: a cache of swapped pages  *)
(* that keeps most of them.  Of the DPU, its allocator and the transfers   *)
(* only this is left:                                                      *)
(*   - one page waits and cannot be loaded until the next one is stored;   *)
(*   - sending it off, one page may be lost, and is then not found;        *)
(*   - a load that finds no page gives what was transferred last, and says *)
(*     that it succeeded;                                                  *)
(*   - the page loaded last is kept and given again, even if it was        *)
(*     dropped or stored anew in between.                                  *)
(* FrontSwap is shown to implement it.                                     *)
(***************************************************************************)

CONSTANTS
  PgOffs,        \* the offsets that the cache accepts
  Data,          \* contents of a page
  PageContents,  \* those, and what is in a buffer that holds no page
  ZeroPage,      \* the content of a buffer that was never written
  PageId,        \* for each offset, the id of its page
  Slot,          \* for each offset, its place in the index
  NoAnswer       \* the answer of an operation that loads nothing

VARIABLES
  pages,     \* for each offset that is held, the content last stored
  waiting,   \* the offset whose page waits, if there is one
  lost,      \* the offsets whose page is not found any more
  sound,     \* no page was ever stored over another
  transfer,  \* the content that was transferred last
  recent,    \* the page that was loaded last: id, data and whether it is one
  answer     \* what the last operation loaded

vars == <<pages, waiting, lost, sound, transfer, recent, answer>>

held == DOMAIN pages

-----------------------------------------------------------------------------
(* A page for another DPU.                                                 *)
Refuse ==
  /\ answer' = NoAnswer
  /\ UNCHANGED <<pages, waiting, lost, sound, transfer, recent>>

(* The page that waits is sent off.  It may be lost, to the room there is  *)
(* or to the page in its slot; or that page is.                            *)
SendOff(offset) ==
  /\ transfer' = pages[offset]
  /\ lost' \in {lost} \cup {lost \cup {p} : p \in {q \in held : Slot[q] = Slot[offset]}}
  /\ sound' \in {sound, FALSE}

Store(offset, data) ==
  /\ answer' = NoAnswer
  /\ offset \notin held
  /\ \/ waiting = {} /\ UNCHANGED <<lost, sound, transfer>>
     \/ \E p \in waiting : SendOff(p)
  /\ pages' = [p \in held \cup {offset} |-> IF p = offset THEN data ELSE pages[p]]
  /\ waiting' = {offset}
  /\ UNCHANGED recent

(* Every load returns 0.                                                   *)
Answer(offset, page) ==
  answer' = [ret |-> 0, ok |-> page.ok, offset |-> offset, data |-> page.data]

LoadRecent(offset) ==
  /\ offset \in held
  /\ recent.id = PageId[offset]
  /\ Answer(offset, recent)
  /\ UNCHANGED <<pages, waiting, lost, sound, transfer, recent>>

(* A load that asks the DPU keeps what is then in the transfer page.       *)
LoadTransfer(offset, ok) ==
  /\ offset \in held
  /\ recent.id # PageId[offset]
  /\ recent' = [id |-> PageId[offset], data |-> transfer', ok |-> ok]
  /\ Answer(offset, recent')
  /\ UNCHANGED <<pages, waiting, lost, sound>>

(* The content is the one last stored, unless it was stored over.          *)
LoadFound(offset) ==
  /\ LoadTransfer(offset, TRUE)
  /\ offset \notin waiting \cup lost
  /\ transfer' \in PageContents
  /\ sound => transfer' = pages[offset]

LoadMissed(offset) ==
  /\ LoadTransfer(offset, FALSE)
  /\ sound => offset \in waiting \cup lost
  /\ UNCHANGED transfer

Drop(offset) ==
  /\ answer' = NoAnswer
  /\ offset \in held
  /\ pages' = [p \in held \ {offset} |-> pages[p]]
  /\ waiting' = waiting \ {offset}
  /\ lost' = lost \ {offset}
  /\ UNCHANGED <<sound, transfer, recent>>

-----------------------------------------------------------------------------
Init ==
  /\ pages = [p \in {} |-> ZeroPage]
  /\ waiting = {}
  /\ lost = {}
  /\ sound = TRUE
  /\ transfer = ZeroPage
  /\ recent = [id |-> 0, data |-> ZeroPage, ok |-> FALSE]
  /\ answer = NoAnswer

Next ==
  \/ Refuse
  \/ \E offset \in PgOffs :
       \/ \E data \in Data : Store(offset, data)
       \/ LoadRecent(offset)
       \/ LoadFound(offset)
       \/ LoadMissed(offset)
       \/ Drop(offset)

Spec == Init /\ [][Next]_vars
=============================================================================
