-------------------------- MODULE AllocScanProofs ---------------------------
(***************************************************************************)
(* LoopInv is an invariant of AllocScan and AllocScan implements           *)
(* AllocTable, for every geometry of the tables.  First come the facts     *)
(* about positions, runs and bits, then one lemma for each action, which   *)
(* says that it keeps LoopInv, and the theorems.                           *)
(***************************************************************************)
EXTENDS AllocScan, AllocTableProofs

-----------------------------------------------------------------------------
(* Arithmetic of the positions in a section.                               *)

(* The sizes of a section.                                                 *)
LEMMA SectionSizes ==
  /\ L2_BITS_PER_ENTRY \in Nat \ {0}
  /\ L2_ENTRIES_PER_SECTION \in Nat \ {0}
  /\ L1_BITS_PER_ENTRY \in Nat \ {0}
  /\ BLOCKS_PER_SECTION \in Nat \ {0}
  /\ BLOCKS_PER_SECTION = L2_ENTRIES_PER_SECTION * L2_BITS_PER_ENTRY
  BY Sizes, GeometryAssumption DEF BLOCKS_PER_SECTION

(* Moving by one bit, within an entry and to the next one.                 *)
LEMMA PositionStep ==
  ASSUME NEW e \in Int, NEW b \in Int
  PROVE  /\ Position(e, b) \in Int
         /\ Position(e, b + 1) = Position(e, b) + 1
         /\ Position(e, b - 1) = Position(e, b) - 1
         /\ Position(e + 1, 0) = Position(e, L2_BITS_PER_ENTRY - 1) + 1
         /\ Position(e - 1, L2_BITS_PER_ENTRY - 1) = Position(e, 0) - 1
<1> L2_BITS_PER_ENTRY \in Int
  BY SectionSizes
<1> QED BY DEF Position

(* The positions of a section are its offsets.                             *)
LEMMA PositionRange ==
  ASSUME NEW e \in Int, NEW b \in 0 .. L2_BITS_PER_ENTRY - 1
  PROVE  /\ Position(e, b) >= 0 <=> e >= 0
         /\ Position(e, b) < BLOCKS_PER_SECTION <=> e < L2_ENTRIES_PER_SECTION
         /\ Position(L2_ENTRIES_PER_SECTION, 0) = BLOCKS_PER_SECTION
<1> DEFINE W == L2_BITS_PER_ENTRY
           E == L2_ENTRIES_PER_SECTION
<1>1. W \in Nat \ {0} /\ E \in Nat \ {0} /\ BLOCKS_PER_SECTION = E * W
  BY SectionSizes
<1> SUFFICES /\ e * W + b >= 0 <=> e >= 0
             /\ e * W + b < E * W <=> e < E
             /\ E * W + 0 = E * W
  BY <1>1 DEF Position
<1> HIDE DEF W, E
<1>2. e >= 0 => e * W >= 0
  BY <1>1
<1>3. e <= -1 => e * W <= (-1) * W
  BY <1>1
<1>4. e <= E - 1 => e * W <= (E - 1) * W
  BY <1>1
<1>5. e >= E => e * W >= E * W
  BY <1>1
<1>6. b \in 0 .. W - 1
  BY DEF W
<1>7. e * W \in Int /\ E * W \in Int /\ (E - 1) * W = E * W - W /\ (-1) * W = -W
  BY <1>1
<1> QED BY <1>1, <1>2, <1>3, <1>4, <1>5, <1>6, <1>7

(* The L2 entry that a position lies in.                                   *)
LEMMA PositionEntry ==
  ASSUME NEW e \in Nat, NEW b \in 0 .. L2_BITS_PER_ENTRY - 1
  PROVE  Position(e, b) \div L2_BITS_PER_ENTRY = e
  BY Quotient, SectionSizes DEF Position

(* The bits of an entry are the positions from its first to its last bit.  *)
LEMMA EntryFullAt ==
  ASSUME NEW bits, NEW e \in Nat, NEW b \in 0 .. L2_BITS_PER_ENTRY - 1
  PROVE  EntryFull(bits, Position(e, b)) <=>
           \A p \in Offsets :
             p \in Position(e, 0) .. Position(e, 0) + L2_BITS_PER_ENTRY - 1 => p \in bits
<1> DEFINE W == L2_BITS_PER_ENTRY
<1>1. W \in Nat \ {0} /\ Position(e, b) \div W = e
  BY SectionSizes, PositionEntry
<1>2. Position(e, 0) \in Nat /\ Position(e, 0) = e * W
  BY <1>1 DEF Position
<1>3. ASSUME NEW p \in Offsets
      PROVE  p \div W = e <=> p \in Position(e, 0) .. Position(e, 0) + W - 1
  <2>1. p \in Nat
    BY <1>3, Sizes DEF Offsets
  <2>2. p \div W \in Nat /\ p % W \in 0 .. W - 1 /\ p = W * (p \div W) + (p % W)
    BY <1>1, <2>1, Division
  <2>3. CASE p \div W = e
    <3> DEFINE r == p % W
    <3>1. r \in 0 .. W - 1 /\ p = W * e + r /\ W * e = Position(e, 0)
      BY <1>1, <1>2, <2>2, <2>3
    <3> HIDE DEF r, W
    <3>2. W \in Int /\ Position(e, 0) \in Int
      BY <1>1, <1>2
    <3>3. p \in Position(e, 0) .. Position(e, 0) + W - 1
      BY <3>1, <3>2
    <3> QED BY <3>3, <2>3
  <2>4. CASE p \in Position(e, 0) .. Position(e, 0) + W - 1
    <3>1. p - e * W \in 0 .. W - 1 /\ e * W + (p - e * W) = p
      <4> HIDE DEF W
      <4> QED BY <1>1, <1>2, <2>1, <2>4
    <3>2. p \div W = e
      BY <1>1, <3>1, Quotient
    <3> QED BY <3>2, <2>4
  <2> QED BY <2>3, <2>4
<1> QED BY <1>1, <1>3 DEF EntryFull

-----------------------------------------------------------------------------
(* The search, one position at a time.                                     *)

(* A search begins with nothing found.                                     *)
LEMMA RunBegins ==
  ASSUME NEW bits, NEW n, NEW a
  PROVE  RunSoFar(bits, n, 0, 0, a)
  BY DEF RunSoFar

(* Positions are visited in order.                                         *)
LEMMA VisitedNext ==
  ASSUME NEW bits, NEW c \in Nat, NEW p \in Nat, c <= p
  PROVE  /\ EntryFull(bits, p) => Visited(bits, c, p) = Visited(bits, c, p - 1)
         /\ ~EntryFull(bits, p) => Visited(bits, c, p) = Visited(bits, c, p - 1) \cup {p}
<1>1. c .. p = (c .. p - 1) \cup {p}
  OBVIOUS
<1> QED BY <1>1 DEF Visited

(* What was visited is finite, and does not hold what lies ahead.          *)
LEMMA VisitedFinite ==
  ASSUME NEW bits, NEW c \in Nat, NEW p \in Nat
  PROVE  /\ IsFiniteSet(Visited(bits, c, p - 1))
         /\ p \notin Visited(bits, c, p - 1)
         /\ c = p => Visited(bits, c, p - 1) = {}
<1>1. IsFiniteSet(c .. p - 1)
  BY FS_Interval
<1>2. Visited(bits, c, p - 1) \subseteq c .. p - 1
  BY DEF Visited
<1> QED BY <1>1, <1>2, FS_Subset

(* Positions of a full entry change nothing.                               *)
LEMMA RunSkips ==
  ASSUME NEW bits, NEW n, NEW p \in Nat, NEW q \in Nat, p <= q,
         NEW count \in Nat, NEW a \in Nat,
         \A o \in p .. q - 1 : o \in bits /\ EntryFull(bits, o),
         RunSoFar(bits, n, p, count, a)
  PROVE  RunSoFar(bits, n, q, count, a)
<1>1. ASSUME NEW c \in 0 .. p PROVE Visited(bits, c, q - 1) = Visited(bits, c, p - 1)
  BY DEF Visited
<1>2. \A d \in 0 .. q - 1 : \A c \in 0 .. d : ~IsRun(bits, n, c, d)
  BY DEF RunSoFar, IsRun
<1>3. ASSUME NEW c \in 0 .. q - 1, c \notin bits
      PROVE  c \in 0 .. p - 1 /\ Visited(bits, c, q - 1) = Visited(bits, c, p - 1)
  <2>1. c \in 0 .. p - 1
    BY <1>3
  <2> QED BY <1>1, <2>1
<1>4. \A c \in 0 .. q - 1 :
        c \notin bits /\ Visited(bits, c, q - 1) \cap bits = {} => count > 0 /\ a <= c
  BY <1>3 DEF RunSoFar
<1>5. count > 0 => /\ a \in (0 .. q - 1) \ bits
                   /\ Visited(bits, a, q - 1) \cap bits = {}
                   /\ Cardinality(Visited(bits, a, q - 1)) = count
  BY <1>1 DEF RunSoFar
<1> QED BY <1>2, <1>4, <1>5 DEF RunSoFar

(* A used bit that is looked at ends every run.                            *)
LEMMA RunBreaks ==
  ASSUME NEW bits, NEW n, NEW p \in Nat, NEW count, NEW a,
         p \in bits, ~EntryFull(bits, p), RunSoFar(bits, n, p, count, a)
  PROVE  RunSoFar(bits, n, p + 1, 0, a)
<1>1. \A c \in 0 .. p : p \in Visited(bits, c, p)
  BY DEF Visited
<1>2. \A d \in 0 .. p : \A c \in 0 .. d : ~IsRun(bits, n, c, d)
  BY DEF RunSoFar, IsRun
<1>3. \A c \in 0 .. p : ~(Visited(bits, c, p) \cap bits = {})
  BY <1>1
<1>4. p + 1 - 1 = p
  OBVIOUS
<1> QED BY <1>2, <1>3, <1>4 DEF RunSoFar

(* Where the run begins that the free bit at p belongs to.                 *)
RunStart(p, count, a) == IF count = 0 THEN p ELSE a

(* With a free bit at p, the longest run that reaches back from it begins  *)
(* where the count began, or at p, and has one block more.                 *)
LEMMA RunWithFreeBit ==
  ASSUME NEW bits, NEW n \in Nat \ {0}, NEW p \in Offsets, NEW count \in Nat,
         NEW a \in Nat, p \notin bits, RunSoFar(bits, n, p, count, a)
  PROVE  /\ RunStart(p, count, a) \in (0 .. p) \ bits
         /\ Visited(bits, RunStart(p, count, a), p) \cap bits = {}
         /\ Cardinality(Visited(bits, RunStart(p, count, a), p)) = count + 1
         /\ \A c \in 0 .. p :
              c \notin bits /\ Visited(bits, c, p) \cap bits = {}
                => RunStart(p, count, a) <= c
<1> DEFINE x == RunStart(p, count, a)
<1>1. p \in Nat
  BY Sizes DEF Offsets
<1>2. ~EntryFull(bits, p)
  BY DEF EntryFull
<1>3. \A c \in 0 .. p : Visited(bits, c, p) = Visited(bits, c, p - 1) \cup {p}
  BY <1>1, <1>2, VisitedNext
<1>4. x \in (0 .. p) \ bits /\ x \in Nat
  BY <1>1 DEF RunSoFar, RunStart
<1>5. /\ Visited(bits, x, p - 1) \cap bits = {}
      /\ Cardinality(Visited(bits, x, p - 1)) = count
  <2>1. CASE count = 0
    BY <2>1, <1>1, VisitedFinite, FS_EmptySet DEF RunStart
  <2>2. CASE count # 0
    BY <2>2, <1>1 DEF RunSoFar, RunStart
  <2> QED BY <2>1, <2>2
<1>6. Cardinality(Visited(bits, x, p)) = count + 1
  <2> HIDE DEF x
  <2>1. IsFiniteSet(Visited(bits, x, p - 1)) /\ p \notin Visited(bits, x, p - 1)
    BY <1>1, <1>4, VisitedFinite
  <2>2. Visited(bits, x, p) = Visited(bits, x, p - 1) \cup {p}
    BY <1>3, <1>4
  <2> QED BY <1>5, <2>1, <2>2, FS_AddElement
<1>7. ASSUME NEW c \in 0 .. p, c \notin bits, Visited(bits, c, p) \cap bits = {}
      PROVE  x <= c
  <2>1. CASE c = p
    BY <2>1, <1>4
  <2>2. CASE c # p
    <3>1. c \in 0 .. p - 1 /\ Visited(bits, c, p - 1) \cap bits = {}
      BY <1>1, <1>3, <1>7, <2>2
    <3>2. count > 0 /\ a <= c
      BY <3>1, <1>7 DEF RunSoFar
    <3> QED BY <3>2 DEF RunStart
  <2> QED BY <2>1, <2>2
<1> HIDE DEF x
<1>8. Visited(bits, x, p) \cap bits = {}
  BY <1>3, <1>4, <1>5
<1> QED BY <1>4, <1>6, <1>7, <1>8 DEF x

(* No run that ends at p is longer than the longest one.                   *)
LEMMA RunAtFreeBit ==
  ASSUME NEW bits, NEW n \in Nat \ {0}, NEW p \in Offsets, NEW count \in Nat,
         NEW a \in Nat, p \notin bits, RunSoFar(bits, n, p, count, a), count + 1 < n,
         NEW c \in 0 .. p
  PROVE  ~IsRun(bits, n, c, p)
<1> SUFFICES ASSUME IsRun(bits, n, c, p) PROVE FALSE
  OBVIOUS
<1> DEFINE x == RunStart(p, count, a)
<1>1. p \in Nat
  BY Sizes DEF Offsets
<1>2. x <= c /\ x \in 0 .. p /\ Cardinality(Visited(bits, x, p)) = count + 1
  <2>1. /\ x \in (0 .. p) \ bits
        /\ Visited(bits, x, p) \cap bits = {}
        /\ Cardinality(Visited(bits, x, p)) = count + 1
        /\ \A d \in 0 .. p :
             d \notin bits /\ Visited(bits, d, p) \cap bits = {} => x <= d
    BY RunWithFreeBit, Zenon
  <2>2. c \notin bits /\ Visited(bits, c, p) \cap bits = {}
    BY DEF IsRun
  <2> HIDE DEF x
  <2> QED BY <2>1, <2>2
<1>3. Visited(bits, c, p) \subseteq Visited(bits, x, p)
  BY <1>1, <1>2 DEF Visited
<1>4. IsFiniteSet(Visited(bits, x, p))
  <2>1. x \in Int /\ p \in Int
    BY <1>1, <1>2
  <2> HIDE DEF x
  <2>2. IsFiniteSet(x .. p)
    BY <2>1, FS_Interval
  <2>3. Visited(bits, x, p) \subseteq x .. p
    BY DEF Visited
  <2> QED BY <2>2, <2>3, FS_Subset
<1>5. Cardinality(Visited(bits, c, p)) <= count + 1
  BY <1>2, <1>3, <1>4, FS_Subset
<1> QED BY <1>5 DEF IsRun

(* A free bit makes the count one longer ...                               *)
LEMMA RunGrows ==
  ASSUME NEW bits, NEW n \in Nat \ {0}, NEW p \in Offsets, NEW count \in Nat,
         NEW a \in Nat, p \notin bits, RunSoFar(bits, n, p, count, a), count + 1 < n
  PROVE  RunSoFar(bits, n, p + 1, count + 1, RunStart(p, count, a))
<1> DEFINE x == RunStart(p, count, a)
<1>1. p \in Nat /\ p + 1 - 1 = p /\ count + 1 > 0
  BY Sizes DEF Offsets
<1>2. /\ x \in (0 .. p) \ bits
      /\ Visited(bits, x, p) \cap bits = {}
      /\ Cardinality(Visited(bits, x, p)) = count + 1
      /\ \A c \in 0 .. p :
           c \notin bits /\ Visited(bits, c, p) \cap bits = {} => x <= c
  BY RunWithFreeBit
<1>3. \A d \in 0 .. p : \A c \in 0 .. d : ~IsRun(bits, n, c, d)
  <2> SUFFICES ASSUME NEW d \in 0 .. p, NEW c \in 0 .. d PROVE ~IsRun(bits, n, c, d)
    OBVIOUS
  <2>1. CASE d = p
    BY <2>1, RunAtFreeBit
  <2>2. CASE d # p
    BY <2>2, <1>1 DEF RunSoFar
  <2> QED BY <2>1, <2>2
<1> DEFINE q == p + 1
           m == count + 1
<1>4. q - 1 = p /\ m > 0
  BY <1>1
<1> HIDE DEF x, q, m
<1>5. /\ x \in (0 .. q - 1) \ bits
      /\ Visited(bits, x, q - 1) \cap bits = {}
      /\ Cardinality(Visited(bits, x, q - 1)) = m
      /\ \A c \in 0 .. q - 1 :
           c \notin bits /\ Visited(bits, c, q - 1) \cap bits = {} => x <= c
      /\ \A d \in 0 .. q - 1 : \A c \in 0 .. d : ~IsRun(bits, n, c, d)
  BY <1>2, <1>3, <1>4 DEF m
<1>6. RunSoFar(bits, n, q, m, x)
  BY <1>4, <1>5 DEF RunSoFar
<1> QED BY <1>6 DEF q, m, x

(* ... until it completes the first run of n blocks.                       *)
LEMMA RunCompletes ==
  ASSUME NEW bits, NEW n \in Nat \ {0}, NEW p \in Offsets, NEW count \in Nat,
         NEW a \in Nat, p \notin bits, RunSoFar(bits, n, p, count, a), count + 1 = n
  PROVE  FindFreeBlocksL2(bits, n, RunStart(p, count, a), p)
<1> DEFINE x == RunStart(p, count, a)
<1>1. p \in Nat /\ p + 1 - 1 = p /\ p + 1 \in Nat
  BY Sizes DEF Offsets
<1>2. /\ x \in (0 .. p) \ bits
      /\ Visited(bits, x, p) \cap bits = {}
      /\ Cardinality(Visited(bits, x, p)) = n
  <2>1. /\ x \in (0 .. p) \ bits
        /\ Visited(bits, x, p) \cap bits = {}
        /\ Cardinality(Visited(bits, x, p)) = count + 1
        /\ \A d \in 0 .. p :
             d \notin bits /\ Visited(bits, d, p) \cap bits = {} => x <= d
    BY RunWithFreeBit, Zenon
  <2> HIDE DEF x
  <2> QED BY <2>1
<1> HIDE DEF x
<1>3. p - x + 1 >= n
  <2>1. Visited(bits, x, p) \subseteq x .. p
    BY DEF Visited
  <2>2. IsFiniteSet(x .. p) /\ Cardinality(x .. p) = p - x + 1
    <3>1. x \in Int /\ p \in Int /\ ~(x > p)
      BY <1>1, <1>2
    <3> QED BY <3>1, FS_Interval
  <2>3. Cardinality(Visited(bits, x, p)) <= Cardinality(x .. p)
    BY <2>1, <2>2, FS_Subset
  <2> QED BY <2>2, <2>3, <1>2
<1>4. IsRun(bits, n, x, p)
  BY <1>2, <1>3 DEF IsRun
<1>5. \A d \in 0 .. p - 1 : \A c \in 0 .. d : ~IsRun(bits, n, c, d)
  BY DEF RunSoFar
<1> QED BY <1>4, <1>5 DEF FindFreeBlocksL2, x

(* A section that was searched to its end has no run.                      *)
LEMMA RunNone ==
  ASSUME NEW bits, NEW n, NEW count, NEW a, RunSoFar(bits, n, BLOCKS_PER_SECTION, count, a)
  PROVE  ~HasRun(bits, n)
  BY DEF RunSoFar, HasRun, Offsets

-----------------------------------------------------------------------------
(* Marking, checking and clearing, one turn at a time.                     *)

(* A section has as many L1 entries' worth of bits before it as there are. *)
LEMMA NextSection ==
  ASSUME NEW s \in Sections, (s + 1) % L1_BITS_PER_ENTRY # 0
  PROVE  s + 1 \in Sections
<1>1. L1_BITS_PER_ENTRY \in Nat \ {0} /\ L1_ENTRIES \in Nat
  BY SectionSizes, GeometryAssumption
<1>2. (L1_ENTRIES * L1_BITS_PER_ENTRY + 0) % L1_BITS_PER_ENTRY = 0
  BY <1>1, Quotient
<1>3. NUM_L2_SECTIONS = L1_ENTRIES * L1_BITS_PER_ENTRY /\ NUM_L2_SECTIONS \in Nat
  BY <1>1, Sizes DEF NUM_L2_SECTIONS
<1>4. s + 1 # NUM_L2_SECTIONS
  BY <1>2, <1>3
<1> QED BY <1>3, <1>4 DEF Sections

(* The sections of the first L1 entry come before all others, and it ends  *)
(* with the first section whose successor begins an entry.                 *)
LEMMA FirstEntry ==
  ASSUME NEW s \in Nat, L1_ENTRY_FROM_SECTION(s) = 0
  PROVE  /\ (s + 1) % L1_BITS_PER_ENTRY # 0 => L1_ENTRY_FROM_SECTION(s + 1) = 0
         /\ (s + 1) % L1_BITS_PER_ENTRY = 0 =>
              \A t \in Nat : L1_ENTRY_FROM_SECTION(t) = 0 => t <= s
<1> DEFINE B == L1_BITS_PER_ENTRY
<1>1. B \in Nat \ {0}
  BY SectionSizes
<1>2. ASSUME NEW t \in Nat PROVE t \div B = 0 <=> t < B
  <2>1. t \div B = 0 => t < B
    BY <1>1, Division
  <2>2. ASSUME t < B PROVE (0 * B + t) \div B = 0
    BY <1>1, <2>2, Quotient
  <2> HIDE DEF B
  <2>3. 0 * B + t = t
    BY <1>1
  <2> QED BY <2>1, <2>2, <2>3
<1>3. (1 * B + 0) % B = 0
  BY <1>1, Quotient
<1>4. s + 1 < B => (0 * B + (s + 1)) % B = s + 1
  BY <1>1, Quotient
<1>5. /\ s < B
      /\ \A t \in Nat : L1_ENTRY_FROM_SECTION(t) = 0 <=> t < B
  BY <1>2 DEF L1_ENTRY_FROM_SECTION
<1> HIDE DEF B
<1>6. 1 * B + 0 = B /\ 0 * B + (s + 1) = s + 1
  BY <1>1
<1>7. (s + 1) % B = 0 <=> s + 1 = B
  BY <1>1, <1>3, <1>4, <1>5, <1>6
<1>8. s + 1 \in Nat
  OBVIOUS
<1>9. s + 1 < B => L1_ENTRY_FROM_SECTION(s + 1) = 0
  BY <1>5, <1>8
<1>10. s + 1 # B => s + 1 < B
  BY <1>1, <1>5
<1>11. s + 1 = B => \A t \in Nat : L1_ENTRY_FROM_SECTION(t) = 0 => t <= s
  BY <1>1, <1>5
<1>12. /\ (s + 1) % B # 0 => L1_ENTRY_FROM_SECTION(s + 1) = 0
       /\ (s + 1) % B = 0 => \A t \in Nat : L1_ENTRY_FROM_SECTION(t) = 0 => t <= s
  BY <1>7, <1>9, <1>10, <1>11, Zenon
<1> QED BY <1>12, Zenon DEF B

(* One block more is marked.                                               *)
LEMMA TurnedFullNext ==
  ASSUME NEW bits, NEW h \in Int, NEW b \in Int, h <= b
  PROVE  TurnedFull(bits, h .. b) <=>
           TurnedFull(bits, h + 1 .. b) \/ EntryFull(bits \cup (h .. b), h)
<1> DEFINE all == h .. b
           most == h + 1 .. b
           From(set, o) == bits \cup {p \in set : p >= o}
<1>1. \A o \in most : {p \in all : p >= o} = {p \in most : p >= o}
  OBVIOUS
<1>2. {p \in all : p >= h} = all
  OBVIOUS
<1>3. all = most \cup {h}
  OBVIOUS
<1>4. (\A o \in most : From(all, o) = From(most, o)) /\ From(all, h) = bits \cup all
  BY <1>1, <1>2
<1>5. /\ TurnedFull(bits, all) <=> \E o \in all : EntryFull(From(all, o), o)
      /\ TurnedFull(bits, most) <=> \E o \in most : EntryFull(From(most, o), o)
  BY DEF TurnedFull
<1> HIDE DEF all, most, From
<1>6. TurnedFull(bits, all) <=> TurnedFull(bits, most) \/ EntryFull(bits \cup all, h)
  BY <1>3, <1>4, <1>5
<1> QED BY <1>6 DEF all, most

(* A section is full when each of its entries is.                          *)
LEMMA AllEntriesFull ==
  ASSUME NEW bits
  PROVE  (\A e \in 0 .. L2_ENTRIES_PER_SECTION - 1 : EntryFull(bits, Position(e, 0)))
           <=> \A o \in Offsets : o \in bits
<1> DEFINE W == L2_BITS_PER_ENTRY
           E == L2_ENTRIES_PER_SECTION
<1>1. W \in Nat \ {0} /\ E \in Nat \ {0} /\ BLOCKS_PER_SECTION \in Nat
  BY SectionSizes
<1>2. ASSUME \A e \in 0 .. E - 1 : EntryFull(bits, Position(e, 0)), NEW o \in Offsets
      PROVE  o \in bits
  <2> DEFINE e == o \div W
             r == o % W
  <2>1. o \in Nat /\ o < BLOCKS_PER_SECTION
    BY <1>1 DEF Offsets
  <2>2. e \in Nat /\ r \in 0 .. W - 1 /\ o = W * e + r
    BY <1>1, <2>1, Division
  <2>3. W * e + r = Position(e, r)
    <3> HIDE DEF e, r
    <3> QED BY <1>1, <2>2 DEF Position
  <2>4. e < E
    <3> HIDE DEF e, r
    <3>1. e \in Int /\ r \in 0 .. W - 1 /\ Position(e, r) < BLOCKS_PER_SECTION
      BY <2>1, <2>2, <2>3
    <3> QED BY <3>1, PositionRange
  <2>5. EntryFull(bits, Position(e, 0)) /\ Position(e, 0) \div W = e
    <3>1. 0 \in 0 .. W - 1
      BY <1>1
    <3> HIDE DEF e
    <3>2. e \in 0 .. E - 1 /\ e \in Nat
      BY <1>1, <2>2, <2>4
    <3>3. Position(e, 0) \div W = e
      BY <3>1, <3>2, PositionEntry
    <3>4. EntryFull(bits, Position(e, 0))
      BY <1>2, <3>2
    <3> QED BY <3>3, <3>4
  <2> QED BY <2>5 DEF EntryFull
<1>3. ASSUME \A o \in Offsets : o \in bits
      PROVE  \A e \in 0 .. E - 1 : EntryFull(bits, Position(e, 0))
  BY <1>3 DEF EntryFull
<1> QED BY <1>2, <1>3

(* One block more is cleared; blocks behind the section do not matter.     *)
LEMMA ClearNext ==
  ASSUME NEW bits \in SUBSET Offsets, NEW k \in Nat, NEW a \in Nat
  PROVE  /\ FreeBlocksL2(bits, 0, a) = bits
         /\ FreeBlocksL2(bits, k + 1, a) = FreeBlocksL2(bits, k, a) \ {a + k}
         /\ \A n \in Nat : k <= n /\ a + k >= BLOCKS_PER_SECTION
              => FreeBlocksL2(bits, n, a) = FreeBlocksL2(bits, k, a)
<1>1. BLOCKS_PER_SECTION \in Nat /\ \A o \in bits : o \in Nat /\ o < BLOCKS_PER_SECTION
  BY Sizes DEF Offsets
<1> QED BY <1>1 DEF FreeBlocksL2

-----------------------------------------------------------------------------
(* The running call has something to store or to clear.                    *)
LEMMA CallTyped ==
  ASSUME ScanTypeOK, pc # "idle"
  PROVE  /\ call.id \in Ids /\ call.length \in Lengths
         /\ num_blocks \in Nat \ {0}
<1>1. call \in [id : Ids, length : Lengths]
  BY DEF ScanTypeOK
<1>2. call.length \in Nat \ {0}
  BY <1>1, InputAssumption
<1> QED BY <1>1, <1>2, NumBlocksPositive DEF num_blocks

(* The places in the program.                                              *)
LEMMA Places ==
  ASSUME ScanTypeOK
  PROVE  /\ section \in Sections /\ section \in Nat
         /\ bit \in 0 .. L2_BITS_PER_ENTRY - 1 /\ bit \in Nat
         /\ l2_entry \in Int
         /\ Here \in Int
<1>1. L2_BITS_PER_ENTRY \in Nat /\ L2_ENTRIES_PER_SECTION \in Nat
  BY SectionSizes
<1>2. l2_entry \in Int /\ bit \in Nat /\ bit \in 0 .. L2_BITS_PER_ENTRY - 1
  BY <1>1 DEF ScanTypeOK
<1>3. section \in Sections /\ section \in Nat
  BY Sizes DEF ScanTypeOK, Sections
<1> QED BY <1>1, <1>2, <1>3, PositionStep DEF Here

-----------------------------------------------------------------------------
(* The walk over level 1.                                                  *)

(* A call begins.                                                          *)
LEMMA StartAllocKeepsInv ==
  ASSUME TableTypeOK, LoopInv, NEW id \in Ids, NEW length \in Lengths,
         StartAlloc(id, length)
  PROVE  LoopInv'
<1>1. pc' = "l1" /\ section' = 0 /\ first_block' = NULL /\ met' = {}
  BY DEF StartAlloc
<1>2. ScanTypeOK'
  <2>1. 0 \in Sections
    BY Sizes DEF Sections
  <2> QED BY <2>1 DEF StartAlloc, LoopInv, ScanTypeOK, loopVars, Allocating, Walking
<1>3. ControlInv'
  <2>1. NULL \notin Blocks
    BY InputAssumption
  <2> QED
    BY <1>1, <2>1 DEF StartAlloc, tableVars, ControlInv, Allocating, Walking, HasBlock
<1>4. SearchInv' /\ MarkInv' /\ MarkedInv' /\ ClearInv'
  BY <1>1 DEF SearchInv, Searching, MarkInv, MarkedInv, HasBlock, ClearInv
<1>5. PassedInv'
  <2>1. Passed' = {}
    BY <1>1 DEF Passed
  <2>2. L1_ENTRY_FROM_SECTION(0) = 0
    BY SectionSizes, Quotient DEF L1_ENTRY_FROM_SECTION
  <2> QED BY <1>1, <2>1, <2>2 DEF PassedInv
<1> QED BY <1>2, <1>3, <1>4, <1>5 DEF LoopInv

(* What NextL1Bit leaves to be shown when it is given a section without a  *)
(* run: the sections passed, and where the walk stands.                    *)
LEMMA NextL1BitPasses ==
  ASSUME TableTypeOK, LoopInv, NextL1Bit, UNCHANGED <<tableVars, call, met>>,
         pc \in {"l1", "entry"}, first_block' \in {UINT_MAX, NULL},
         section \notin l1 => ~HasRun(l2[section], num_blocks),
         first_block' = NULL => first_block = NULL /\ section \in l1
  PROVE  /\ section' \in Sections
         /\ PassedInv'
         /\ pc' \in {"l1", "compare"}
         /\ pc' = "compare" => (section' + 1) % L1_BITS_PER_ENTRY = 0
<1>1. section \in Sections /\ section \in Nat
  BY Places DEF LoopInv
<1>2. first_block' \notin Blocks /\ Allocating /\ (UNCHANGED l1) /\ UNCHANGED l2
  BY InputAssumption, ScanAssumption DEF Allocating, Walking, tableVars
<1>3. Passed = 0 .. section - 1 /\ Passed' = 0 .. section
  <2>1. pc # "compare" /\ pc # "full"
    OBVIOUS
  <2>2. CASE (section + 1) % L1_BITS_PER_ENTRY = 0
    BY <1>2, <2>1, <2>2 DEF Passed, NextL1Bit
  <2>3. CASE (section + 1) % L1_BITS_PER_ENTRY # 0
    <3>1. section' = section + 1 /\ pc' = "l1" /\ section' - 1 = section
      BY <2>3, <1>1 DEF NextL1Bit
    <3> QED BY <3>1, <2>1 DEF Passed
  <2> QED BY <2>2, <2>3
<1>4. section' \in Sections
  BY <1>1, NextSection DEF NextL1Bit
<1>5. \A t \in 0 .. section : t \notin l1 => ~HasRun(l2[t], num_blocks)
  BY <1>1, <1>2, <1>3 DEF LoopInv, PassedInv
<1>6. ASSUME first_block' = NULL
      PROVE  Passed' \subseteq l1 /\ L1_ENTRY_FROM_SECTION(section') = 0
  <2>1. Passed \subseteq l1 /\ L1_ENTRY_FROM_SECTION(section) = 0
    BY <1>2, <1>6 DEF LoopInv, PassedInv
  <2>2. Passed' \subseteq l1
    BY <1>1, <1>3, <1>6, <2>1
  <2>3. L1_ENTRY_FROM_SECTION(section') = 0
    BY <1>1, <2>1, FirstEntry DEF NextL1Bit
  <2> QED BY <2>2, <2>3
<1>7. num_blocks' = num_blocks
  BY DEF num_blocks
<1>8. PassedInv'
  BY <1>2, <1>3, <1>5, <1>6, <1>7 DEF PassedInv
<1>9. pc' \in {"l1", "compare"}
      /\ (pc' = "compare" => (section' + 1) % L1_BITS_PER_ENTRY = 0)
  BY DEF NextL1Bit
<1> QED BY <1>4, <1>8, <1>9

(* A section that is marked full is passed over.                           *)
LEMMA L1BitSetKeepsInv ==
  ASSUME TableTypeOK, LoopInv, L1BitSet
  PROVE  LoopInv'
<1>1. /\ pc = "l1" /\ section \in l1 /\ NextL1Bit
      /\ UNCHANGED <<tableVars, call, first_block, update_l1, loopVars, met>>
  BY DEF L1BitSet
<1>2. first_block \in {UINT_MAX, NULL} /\ first_block \notin Blocks /\ met = {}
  BY <1>1, InputAssumption, ScanAssumption
     DEF LoopInv, ControlInv, Walking, HasBlock
<1>3. /\ section' \in Sections
      /\ PassedInv'
      /\ pc' \in {"l1", "compare"}
      /\ pc' = "compare" => (section' + 1) % L1_BITS_PER_ENTRY = 0
  BY <1>1, <1>2, NextL1BitPasses
<1>4. ScanTypeOK'
  BY <1>1, <1>3 DEF LoopInv, ScanTypeOK, Allocating, Walking, loopVars
<1>5. ControlInv'
  <2>1. stats'.pages < MaxPages
    BY <1>1 DEF LoopInv, ControlInv, Allocating, Walking, tableVars
  <2> QED
    BY <1>1, <1>2, <1>3, <2>1 DEF ControlInv, Allocating, Walking, HasBlock
<1>6. SearchInv' /\ MarkInv' /\ MarkedInv' /\ ClearInv'
  BY <1>1, <1>2, <1>3
     DEF SearchInv, Searching, MarkInv, MarkedInv, HasBlock, ClearInv
<1> QED BY <1>3, <1>4, <1>5, <1>6 DEF LoopInv

(* A section that is not marked full is copied; its search begins.         *)
LEMMA L1BitClearKeepsInv ==
  ASSUME TableTypeOK, LoopInv, L1BitClear
  PROVE  LoopInv'
<1>1. /\ pc = "l1" /\ section \notin l1 /\ pc' = "entry"
      /\ l2_entries' = l2[section] /\ l2_entry' = 0 /\ bit' = 0 /\ found' = 0
      /\ check_l2' = FALSE
      /\ UNCHANGED <<tableVars, call, section, first_block, update_l1, first, met>>
  BY DEF L1BitClear
<1>2. section \in Sections /\ num_blocks' = num_blocks /\ num_blocks \in Nat \ {0}
  BY <1>1, Places, CallTyped DEF LoopInv, num_blocks
<1>3. first_block \in {UINT_MAX, NULL} /\ first_block \notin Blocks /\ met = {}
  BY <1>1, InputAssumption, ScanAssumption
     DEF LoopInv, ControlInv, Walking, HasBlock
<1>4. ScanTypeOK'
  <2>1. l2[section] \subseteq Offsets
    BY <1>2 DEF TableTypeOK
  <2>2. /\ 0 \in -1 .. L2_ENTRIES_PER_SECTION /\ 0 \in 0 .. L2_BITS_PER_ENTRY - 1
    BY SectionSizes
  <2> QED
    BY <1>1, <1>2, <2>1, <2>2 DEF LoopInv, ScanTypeOK, Allocating, Walking
<1>5. ControlInv'
  <2>1. stats'.pages < MaxPages
    BY <1>1 DEF LoopInv, ControlInv, Allocating, Walking, tableVars
  <2>2. section' \notin l1'
    BY <1>1 DEF tableVars
  <2> QED
    BY <1>1, <1>3, <2>1, <2>2 DEF ControlInv, Allocating, Walking, HasBlock
<1>6. SearchInv'
  <2>1. Here' = 0
    BY <1>1, SectionSizes DEF Here, Position
  <2>2. RunSoFar(l2_entries', num_blocks, 0, 0, first')
    BY RunBegins
  <2> QED BY <1>1, <1>2, <2>1, <2>2 DEF SearchInv, tableVars
<1>7. MarkInv' /\ MarkedInv' /\ ClearInv'
  BY <1>1, <1>3 DEF MarkInv, MarkedInv, HasBlock, ClearInv
<1>8. PassedInv'
  BY <1>1, <1>2, <1>3 DEF LoopInv, PassedInv, Passed, Allocating, Walking, tableVars
<1> QED BY <1>4, <1>5, <1>6, <1>7, <1>8 DEF LoopInv

-----------------------------------------------------------------------------
(* The search.                                                             *)

(* What a step from place to place of the search has to show.              *)
LEMMA SearchMoves ==
  ASSUME TableTypeOK, LoopInv, Searching, Searching',
         UNCHANGED <<tableVars, call, section, first_block, update_l1, l2_entries,
                     check_l2, met>>,
         l2_entry' \in 0 .. L2_ENTRIES_PER_SECTION,
         bit' \in 0 .. L2_BITS_PER_ENTRY - 1,
         pc' = "bit" => l2_entry' < L2_ENTRIES_PER_SECTION /\ ~Full(l2_entry)',
         pc' = "entry" => bit' = 0,
         found' \in Nat, found' < num_blocks, first' \in Nat,
         RunSoFar(l2_entries, num_blocks, Here', found', first')
  PROVE  LoopInv'
<1>1. pc \in {"entry", "bit"} /\ pc' \in {"entry", "bit"} /\ num_blocks' = num_blocks
  BY DEF Searching, num_blocks
<1>2. first_block \in {UINT_MAX, NULL} /\ first_block \notin Blocks /\ met = {}
  BY <1>1, InputAssumption, ScanAssumption
     DEF LoopInv, ControlInv, Walking, HasBlock
<1>3. ScanTypeOK'
  BY <1>1, SectionSizes DEF LoopInv, ScanTypeOK, Allocating, Walking
<1>4. ControlInv'
  <2>1. stats'.pages < MaxPages /\ section' \notin l1'
    BY <1>1 DEF LoopInv, ControlInv, Allocating, Walking, tableVars
  <2>2. l2_entry' >= 0
    BY SectionSizes
  <2> QED
    BY <1>1, <1>2, <2>1, <2>2 DEF ControlInv, Allocating, Walking, HasBlock
<1>5. SearchInv'
  BY <1>1 DEF LoopInv, SearchInv, Searching, tableVars
<1>6. MarkInv' /\ MarkedInv' /\ ClearInv'
  BY <1>1, <1>2 DEF MarkInv, MarkedInv, HasBlock, ClearInv
<1>7. PassedInv'
  BY <1>1, <1>2 DEF LoopInv, PassedInv, Passed, Allocating, Walking, tableVars
<1> QED BY <1>3, <1>4, <1>5, <1>6, <1>7 DEF LoopInv

(* What the search knows where it is.                                      *)
LEMMA SearchTyped ==
  ASSUME LoopInv, Searching
  PROVE  /\ pc # "idle" /\ pc \in {"entry", "bit"}
         /\ num_blocks \in Nat \ {0} /\ found \in Nat /\ first \in Nat
         /\ found < num_blocks
         /\ l2_entry \in 0 .. L2_ENTRIES_PER_SECTION
         /\ bit \in 0 .. L2_BITS_PER_ENTRY - 1
         /\ RunSoFar(l2_entries, num_blocks, Here, found, first)
         /\ l2_entry < L2_ENTRIES_PER_SECTION => Here \in Offsets
         /\ l2_entry = L2_ENTRIES_PER_SECTION => Here = BLOCKS_PER_SECTION
<1>1. pc # "idle" /\ pc \in {"entry", "bit"}
  BY DEF Searching
<1>2. num_blocks \in Nat \ {0}
  BY <1>1, CallTyped DEF LoopInv
<1>3. /\ found \in Nat /\ first \in Nat /\ found < num_blocks
      /\ bit \in 0 .. L2_BITS_PER_ENTRY - 1
      /\ RunSoFar(l2_entries, num_blocks, Here, found, first)
  BY DEF LoopInv, ScanTypeOK, SearchInv
<1>4. /\ l2_entry \in 0 .. L2_ENTRIES_PER_SECTION
      /\ l2_entry = L2_ENTRIES_PER_SECTION => bit = 0
  BY <1>1, SectionSizes DEF LoopInv, ScanTypeOK, ControlInv
<1>5. l2_entry \in Int /\ L2_ENTRIES_PER_SECTION \in Nat
  BY <1>4, SectionSizes
<1>6. /\ Here \in Int
      /\ Here >= 0
      /\ Here < BLOCKS_PER_SECTION <=> l2_entry < L2_ENTRIES_PER_SECTION
  BY <1>3, <1>4, <1>5, PositionRange, Places DEF Here, LoopInv
<1>7. l2_entry < L2_ENTRIES_PER_SECTION => Here \in Offsets
  BY <1>6, SectionSizes DEF Offsets
<1>8. l2_entry = L2_ENTRIES_PER_SECTION => Here = BLOCKS_PER_SECTION
  BY <1>3, <1>4, <1>5, PositionRange DEF Here
<1> QED BY <1>1, <1>2, <1>3, <1>4, <1>7, <1>8

(* Into the bits of an entry.                                              *)
LEMMA EnterEntryKeepsInv ==
  ASSUME TableTypeOK, LoopInv, EnterEntry
  PROVE  LoopInv'
<1>1. /\ Searching /\ Searching' /\ pc' = "bit" /\ l2_entry < L2_ENTRIES_PER_SECTION
      /\ UNCHANGED <<tableVars, call, section, first_block, update_l1, loopVars, met>>
  BY DEF EnterEntry, Searching
<1>2. Here' = Here /\ UNCHANGED <<l2_entries, l2_entry, bit, found, first, check_l2>>
  BY <1>1 DEF Here, loopVars
<1>3. ~Full(l2_entry)'
  BY <1>2 DEF EnterEntry, Full
<1> QED BY <1>1, <1>2, <1>3, SearchTyped, SearchMoves

(* To the next bit, or the next entry.                                     *)
LEMMA NextBitMoves ==
  ASSUME LoopInv, pc = "bit", NextBit
  PROVE  /\ Searching /\ Searching'
         /\ l2_entry < L2_ENTRIES_PER_SECTION
         /\ l2_entry' \in 0 .. L2_ENTRIES_PER_SECTION
         /\ bit' \in 0 .. L2_BITS_PER_ENTRY - 1
         /\ pc' = "bit" => l2_entry' < L2_ENTRIES_PER_SECTION /\ UNCHANGED l2_entry
         /\ pc' = "entry" => bit' = 0
         /\ Here' = Here + 1
<1>1. Searching /\ l2_entry \in 0 .. L2_ENTRIES_PER_SECTION /\ l2_entry < L2_ENTRIES_PER_SECTION
      /\ bit \in 0 .. L2_BITS_PER_ENTRY - 1
  <2>1. Searching /\ l2_entry < L2_ENTRIES_PER_SECTION
    BY DEF Searching, LoopInv, ControlInv
  <2> QED BY <2>1, SearchTyped
<1>2. L2_ENTRIES_PER_SECTION \in Nat /\ L2_BITS_PER_ENTRY \in Nat \ {0}
      /\ l2_entry \in Int /\ bit \in Int
  BY <1>1, SectionSizes
<1>3. CASE bit + 1 = L2_BITS_PER_ENTRY
  <2>1. pc' = "entry" /\ l2_entry' = l2_entry + 1 /\ bit' = 0
    BY <1>3 DEF NextBit
  <2>2. bit = L2_BITS_PER_ENTRY - 1
    BY <1>2, <1>3
  <2>3. Position(l2_entry + 1, 0) = Position(l2_entry, L2_BITS_PER_ENTRY - 1) + 1
    BY <1>2, PositionStep
  <2>4. Here' = Here + 1
    BY <2>1, <2>2, <2>3 DEF Here
  <2> QED BY <1>1, <1>2, <2>1, <2>4 DEF Searching
<1>4. CASE bit + 1 # L2_BITS_PER_ENTRY
  <2>1. pc' = "bit" /\ l2_entry' = l2_entry /\ bit' = bit + 1
    BY <1>4 DEF NextBit
  <2>2. Here' = Here + 1
    BY <1>2, <2>1, PositionStep DEF Here
  <2> QED BY <1>1, <1>2, <1>4, <2>1, <2>2 DEF Searching
<1> QED BY <1>3, <1>4

(* Where the search looks at a bit, the entry is not full.                 *)
LEMMA BitTyped ==
  ASSUME LoopInv, pc = "bit"
  PROVE  /\ Searching /\ Here \in Offsets /\ Here \in Nat
         /\ ~Full(l2_entry)
         /\ ~EntryFull(l2_entries, Here)
<1>1. Searching /\ l2_entry < L2_ENTRIES_PER_SECTION /\ ~Full(l2_entry)
  BY DEF Searching, LoopInv, ControlInv
<1>2. /\ Here \in Offsets /\ l2_entry \in Nat
      /\ bit \in 0 .. L2_BITS_PER_ENTRY - 1 /\ 0 \in 0 .. L2_BITS_PER_ENTRY - 1
  BY <1>1, SearchTyped, SectionSizes
<1>3. ~EntryFull(l2_entries, Here)
  BY <1>1, <1>2, EntryFullAt DEF Full, Here
<1>4. Here \in Nat
  BY <1>2, Sizes DEF Offsets
<1> QED BY <1>1, <1>2, <1>3, <1>4

(* A used bit.                                                             *)
LEMMA BitUsedKeepsInv ==
  ASSUME TableTypeOK, LoopInv, BitUsed
  PROVE  LoopInv'
<1>1. /\ pc = "bit" /\ Here \in l2_entries /\ found' = 0 /\ NextBit
      /\ UNCHANGED <<tableVars, call, section, first_block, update_l1, l2_entries,
                     first, check_l2, met>>
  BY DEF BitUsed
<1>2. /\ Searching /\ Searching'
      /\ l2_entry' \in 0 .. L2_ENTRIES_PER_SECTION
      /\ bit' \in 0 .. L2_BITS_PER_ENTRY - 1
      /\ pc' = "bit" => l2_entry' < L2_ENTRIES_PER_SECTION /\ UNCHANGED l2_entry
      /\ pc' = "entry" => bit' = 0
      /\ Here' = Here + 1
  BY <1>1, NextBitMoves
<1>3. pc' = "bit" => ~Full(l2_entry)'
  BY <1>1, <1>2, BitTyped DEF Full
<1>4. /\ num_blocks \in Nat \ {0} /\ first \in Nat
      /\ RunSoFar(l2_entries, num_blocks, Here, found, first)
  BY <1>2, SearchTyped
<1>5. RunSoFar(l2_entries, num_blocks, Here + 1, 0, first)
  BY <1>1, <1>4, BitTyped, RunBreaks
<1>6. RunSoFar(l2_entries, num_blocks, Here', found', first') /\ found' \in Nat
      /\ found' < num_blocks /\ first' \in Nat
  BY <1>1, <1>2, <1>4, <1>5
<1> QED BY <1>1, <1>2, <1>3, <1>6, SearchMoves

(* A full entry is skipped.                                                *)
LEMMA SkipFullKeepsInv ==
  ASSUME TableTypeOK, LoopInv, SkipFull
  PROVE  LoopInv'
<1>1. /\ pc = "entry" /\ pc' = "entry" /\ l2_entry < L2_ENTRIES_PER_SECTION
      /\ Full(l2_entry) /\ l2_entry' = l2_entry + 1
      /\ UNCHANGED <<tableVars, pc, call, section, first_block, update_l1, l2_entries,
                     bit, found, first, check_l2, met>>
  BY DEF SkipFull
<1>2. Searching /\ Searching' /\ bit = 0
  BY <1>1 DEF Searching, LoopInv, ControlInv
<1>3. /\ num_blocks \in Nat \ {0} /\ found \in Nat /\ found < num_blocks /\ first \in Nat
      /\ RunSoFar(l2_entries, num_blocks, Here, found, first)
      /\ l2_entry \in Nat /\ l2_entry \in Int /\ Here \in Offsets /\ Here \in Nat
      /\ l2_entry + 1 \in 0 .. L2_ENTRIES_PER_SECTION
  <2>1. L2_ENTRIES_PER_SECTION \in Nat
    BY SectionSizes
  <2>2. Here \in Offsets => Here \in Nat
    BY Sizes DEF Offsets
  <2> QED BY <1>1, <1>2, <2>1, <2>2, SearchTyped
<1> DEFINE W == L2_BITS_PER_ENTRY
<1>4. W \in Nat \ {0} /\ W - 1 \in 0 .. W - 1 /\ 0 \in 0 .. W - 1
  BY SectionSizes
<1>5. Here = Position(l2_entry, 0)
  BY <1>2 DEF Here
<1>6. Here' = Here + W /\ Here' \in Nat
  <2>1. Position(l2_entry + 1, 0) = Position(l2_entry, 0) + W
    BY <1>3, <1>4 DEF Position
  <2> QED BY <1>1, <1>2, <1>3, <1>4, <1>5, <2>1 DEF Here
<1>7. ASSUME NEW o \in Here .. Here' - 1
      PROVE  o \in l2_entries /\ EntryFull(l2_entries, o)
  <2>1. o \in Offsets
    <3>1. Position(l2_entry, W - 1) \in Offsets
      <4>1. /\ Position(l2_entry, W - 1) < BLOCKS_PER_SECTION
            /\ Position(l2_entry, W - 1) >= 0
        <5> HIDE DEF W
        <5> QED BY <1>1, <1>3, <1>4, PositionRange DEF W
      <4>2. Position(l2_entry, W - 1) \in Int
        BY <1>3, <1>4, PositionStep
      <4> QED BY <4>1, <4>2, SectionSizes DEF Offsets
    <3>2. Position(l2_entry, W - 1) = Here' - 1
      BY <1>3, <1>4, <1>6, <1>5 DEF Position
    <3> QED BY <1>3, <1>7, <3>1, <3>2, SectionSizes DEF Offsets
  <2>2. o \in Position(l2_entry, 0) .. Position(l2_entry, 0) + W - 1
    <3> HIDE DEF W
    <3> QED BY <1>3, <1>4, <1>5, <1>6, <1>7
  <2>3. EntryFull(l2_entries, Position(l2_entry, 0))
    BY <1>1 DEF Full
  <2>4. o \in l2_entries
    BY <1>3, <1>4, <2>1, <2>2, <2>3, EntryFullAt
  <2> DEFINE r == o - Here
  <2>5. r \in 0 .. W - 1 /\ Position(l2_entry, r) = o
    BY <1>3, <1>4, <1>5, <1>6, <1>7 DEF Position
  <2>6. EntryFull(l2_entries, o)
    <3> HIDE DEF r
    <3> QED BY <1>3, <1>4, <2>3, <2>5, EntryFullAt
  <2> QED BY <2>4, <2>6
<1>8. RunSoFar(l2_entries, num_blocks, Here', found, first)
  <2>1. Here <= Here'
    BY <1>3, <1>4, <1>6
  <2> QED BY <1>3, <1>6, <1>7, <2>1, RunSkips
<1> QED BY <1>1, <1>2, <1>3, <1>4, <1>8, SearchMoves

(* A free bit: the count grows, or the run is complete.                    *)
LEMMA BitFreeKeepsInv ==
  ASSUME TableTypeOK, LoopInv, BitFree
  PROVE  LoopInv'
<1>1. /\ pc = "bit" /\ Here \notin l2_entries /\ found' = found + 1
      /\ first' = RunStart(Here, found, first)
      /\ UNCHANGED <<tableVars, call, section, first_block, update_l1, l2_entries,
                     check_l2, met>>
  BY DEF BitFree, RunStart
<1>2. /\ Searching /\ Here \in Offsets /\ Here \in Nat
      /\ num_blocks \in Nat \ {0} /\ found \in Nat /\ found < num_blocks /\ first \in Nat
      /\ RunSoFar(l2_entries, num_blocks, Here, found, first)
  BY <1>1, BitTyped, SearchTyped
<1>3. first' \in Nat /\ num_blocks' = num_blocks
  BY <1>1, <1>2 DEF RunStart, num_blocks
<1>4. CASE found + 1 # num_blocks
  <2>1. NextBit
    BY <1>4 DEF BitFree
  <2>2. /\ Searching /\ Searching'
        /\ l2_entry' \in 0 .. L2_ENTRIES_PER_SECTION
        /\ bit' \in 0 .. L2_BITS_PER_ENTRY - 1
        /\ pc' = "bit" => l2_entry' < L2_ENTRIES_PER_SECTION /\ UNCHANGED l2_entry
        /\ pc' = "entry" => bit' = 0
        /\ Here' = Here + 1
    BY <1>1, <2>1, NextBitMoves
  <2>3. pc' = "bit" => ~Full(l2_entry)'
    BY <1>1, <2>2, BitTyped DEF Full
  <2>4. RunSoFar(l2_entries, num_blocks, Here + 1, found + 1, RunStart(Here, found, first))
    BY <1>1, <1>2, <1>4, RunGrows
  <2>5. RunSoFar(l2_entries, num_blocks, Here', found', first') /\ found' \in Nat
        /\ found' < num_blocks
    BY <1>1, <1>2, <1>4, <2>2, <2>4
  <2> QED BY <1>1, <1>3, <2>2, <2>3, <2>5, SearchMoves
<1>5. CASE found + 1 = num_blocks
  <2>1. pc' = "mark" /\ UNCHANGED <<l2_entry, bit>> /\ Here' = Here
    BY <1>5 DEF BitFree, Here
  <2>2. first_block \in {UINT_MAX, NULL} /\ first_block \notin Blocks /\ met = {}
    BY <1>1, InputAssumption, ScanAssumption
       DEF LoopInv, ControlInv, Walking, HasBlock
  <2>3. ScanTypeOK'
    BY <1>1, <1>2, <1>3, <2>1 DEF LoopInv, ScanTypeOK, Allocating, Walking
  <2>4. ControlInv'
    <3>1. stats'.pages < MaxPages /\ section' \notin l1'
      BY <1>1 DEF LoopInv, ControlInv, Allocating, Walking, tableVars
    <3> QED
      BY <1>1, <2>1, <2>2, <3>1 DEF ControlInv, Allocating, Walking, HasBlock
  <2>5. MarkInv'
    <3> DEFINE b == Here' + num_blocks' - found'
    <3>1. b = Here /\ found' = num_blocks'
      BY <1>1, <1>2, <1>3, <1>5, <2>1
    <3>2. l2_entries = l2[section] /\ ~check_l2
      BY <1>2 DEF LoopInv, SearchInv
    <3>3. FindFreeBlocksL2(l2_entries, num_blocks, first', Here)
      BY <1>1, <1>2, <1>5, RunCompletes
    <3>4. Here + 1 .. Here = {}
      BY <1>2
    <3>5. ~TurnedFull(l2[section], {})
      BY DEF TurnedFull
    <3>6. UNCHANGED <<l2, section, l2_entries, check_l2>>
      BY <1>1 DEF tableVars
    <3> HIDE DEF b
    <3>7. /\ b \in Offsets
          /\ found' <= num_blocks'
          /\ FindFreeBlocksL2(l2[section]', num_blocks', first', b)
          /\ l2_entries' = l2[section]' \cup (Here' + 1 .. b)
          /\ check_l2' <=> TurnedFull(l2[section]', Here' + 1 .. b)
      BY <1>2, <1>3, <2>1, <3>1, <3>2, <3>3, <3>4, <3>5, <3>6
    <3> QED BY <3>7 DEF MarkInv, b
  <2>6. SearchInv' /\ MarkedInv' /\ ClearInv'
    BY <2>1, <2>2, <1>1 DEF SearchInv, Searching, MarkedInv, HasBlock, ClearInv
  <2>7. PassedInv'
    BY <1>1, <1>3, <2>1, <2>2
       DEF LoopInv, PassedInv, Passed, Allocating, Walking, tableVars
  <2> QED BY <2>3, <2>4, <2>5, <2>6, <2>7 DEF LoopInv
<1> QED BY <1>4, <1>5

(* The section has no run.                                                 *)
LEMMA NotFoundKeepsInv ==
  ASSUME TableTypeOK, LoopInv, NotFound
  PROVE  LoopInv'
<1>1. /\ pc = "entry" /\ l2_entry = L2_ENTRIES_PER_SECTION /\ first_block' = UINT_MAX
      /\ NextL1Bit
      /\ UNCHANGED <<tableVars, call, update_l1, loopVars, met>>
  BY DEF NotFound
<1>2. Searching /\ UINT_MAX # NULL /\ UINT_MAX \notin Blocks
  BY <1>1, ScanAssumption DEF Searching
<1>3. met = {} /\ l2_entries = l2[section]
  BY <1>1, <1>2, InputAssumption, ScanAssumption
     DEF LoopInv, ControlInv, Walking, HasBlock, SearchInv
<1>4. ~HasRun(l2[section], num_blocks)
  BY <1>1, <1>2, <1>3, SearchTyped, RunNone
<1>5. /\ section' \in Sections
      /\ PassedInv'
      /\ pc' \in {"l1", "compare"}
      /\ pc' = "compare" => (section' + 1) % L1_BITS_PER_ENTRY = 0
  BY <1>1, <1>2, <1>4, NextL1BitPasses
<1>6. ScanTypeOK'
  BY <1>1, <1>5 DEF LoopInv, ScanTypeOK, Allocating, Walking, loopVars
<1>7. ControlInv'
  <2>1. stats'.pages < MaxPages
    BY <1>1 DEF LoopInv, ControlInv, Allocating, Walking, tableVars
  <2> QED
    BY <1>1, <1>2, <1>3, <1>5, <2>1 DEF ControlInv, Allocating, Walking, HasBlock
<1>8. SearchInv' /\ MarkInv' /\ MarkedInv' /\ ClearInv'
  BY <1>1, <1>2, <1>5
     DEF SearchInv, Searching, MarkInv, MarkedInv, HasBlock, ClearInv
<1> QED BY <1>5, <1>6, <1>7, <1>8 DEF LoopInv

-----------------------------------------------------------------------------
(* The marking and the check of the section.                               *)

(* The run that is being marked lies in the section.                       *)
LEMMA RunTyped ==
  ASSUME NEW bits, NEW n \in Nat \ {0}, NEW a \in Nat, NEW b \in Offsets,
         FindFreeBlocksL2(bits, n, a, b)
  PROVE  a \in Offsets /\ b \in Nat /\ b - n + 1 \in Offsets
<1>1. IsRun(bits, n, a, b) /\ b \in Nat /\ b < BLOCKS_PER_SECTION
      /\ BLOCKS_PER_SECTION \in Nat
  BY SectionSizes DEF FindFreeBlocksL2, Offsets
<1>2. a <= b /\ b - n + 1 >= a /\ b - n + 1 <= b
  BY <1>1 DEF IsRun
<1> QED BY <1>1, <1>2 DEF Offsets

(* One block is marked.                                                    *)
LEMMA MarkKeepsInv ==
  ASSUME TableTypeOK, LoopInv, Mark
  PROVE  LoopInv'
<1> DEFINE W == L2_BITS_PER_ENTRY
           bits == l2[section]
<1>1. /\ pc = "mark" /\ pc' = "mark" /\ found > 0 /\ found' = found - 1
      /\ l2_entries' = l2_entries \cup {Here}
      /\ check_l2' = (check_l2 \/ EntryFull(l2_entries', Here))
      /\ UNCHANGED <<tableVars, call, section, first_block, update_l1, first, met>>
  BY DEF Mark
<1>2. PICK b \in Offsets :
        /\ b = Here + num_blocks - found
        /\ found <= num_blocks
        /\ FindFreeBlocksL2(bits, num_blocks, first, b)
        /\ l2_entries = bits \cup (Here + 1 .. b)
        /\ check_l2 <=> TurnedFull(bits, Here + 1 .. b)
  BY <1>1 DEF LoopInv, MarkInv
<1>3. /\ num_blocks \in Nat \ {0} /\ found \in Nat \ {0} /\ first \in Nat
      /\ Here \in Int /\ l2_entry \in Int /\ bit \in 0 .. W - 1 /\ bit \in Nat
      /\ W \in Nat \ {0} /\ L2_ENTRIES_PER_SECTION \in Nat /\ check_l2 \in BOOLEAN
  BY <1>1, Places, CallTyped, SectionSizes DEF LoopInv, ScanTypeOK
<1>4. b \in Nat /\ b - num_blocks + 1 \in Offsets
  BY <1>2, <1>3, RunTyped
<1>5. Here <= b /\ Here \in Offsets
  BY <1>2, <1>3, <1>4, SectionSizes DEF Offsets
<1>6. 0 <= l2_entry /\ l2_entry < L2_ENTRIES_PER_SECTION
  <2>1. Here >= 0 /\ Here < BLOCKS_PER_SECTION
    BY <1>5, SectionSizes DEF Offsets
  <2> QED BY <1>3, <2>1, PositionRange DEF Here
<1>7. /\ l2_entry' \in -1 .. L2_ENTRIES_PER_SECTION
      /\ bit' \in 0 .. W - 1
      /\ Here' = Here - 1
  <2>1. CASE bit = 0
    <3>1. l2_entry' = l2_entry - 1 /\ bit' = W - 1
      BY <2>1 DEF Mark
    <3>2. Here' = Here - 1
      BY <1>3, <2>1, <3>1, PositionStep DEF Here
    <3> QED BY <1>3, <1>6, <3>1, <3>2
  <2>2. CASE bit # 0
    <3>1. l2_entry' = l2_entry /\ bit' = bit - 1
      BY <2>2 DEF Mark
    <3>2. Here' = Here - 1
      BY <1>3, <3>1, PositionStep DEF Here
    <3> QED BY <1>3, <1>6, <2>2, <3>1, <3>2
  <2> QED BY <2>1, <2>2
<1>8. ScanTypeOK'
  BY <1>1, <1>3, <1>5, <1>7 DEF LoopInv, ScanTypeOK, Allocating, Walking
<1>9. first_block \in {UINT_MAX, NULL} /\ first_block \notin Blocks /\ met = {}
  BY <1>1, InputAssumption, ScanAssumption
     DEF LoopInv, ControlInv, Walking, HasBlock
<1>10. ControlInv'
  <2>1. stats'.pages < MaxPages /\ section' \notin l1'
    BY <1>1 DEF LoopInv, ControlInv, Allocating, Walking, tableVars
  <2> QED
    BY <1>1, <1>9, <2>1 DEF ControlInv, Allocating, Walking, HasBlock
<1>11. MarkInv'
  <2>1. num_blocks' = num_blocks /\ l2' = l2
    BY <1>1 DEF num_blocks, tableVars
  <2>2. Here' + num_blocks' - found' = b /\ found' <= num_blocks' /\ Here' + 1 = Here
    BY <1>1, <1>2, <1>3, <1>7, <2>1
  <2>3. (Here + 1 .. b) \cup {Here} = Here .. b
    BY <1>3, <1>4, <1>5
  <2>4. l2_entries' = bits \cup (Here .. b)
    BY <1>1, <1>2, <2>3
  <2>5. check_l2' <=> TurnedFull(bits, Here .. b)
    <3>1. TurnedFull(bits, Here .. b) <=>
            TurnedFull(bits, Here + 1 .. b) \/ EntryFull(bits \cup (Here .. b), Here)
      <4>1. Here \in Int /\ b \in Int /\ Here <= b
        BY <1>3, <1>4, <1>5
      <4> HIDE DEF bits
      <4> QED BY <4>1, TurnedFullNext
    <3> QED BY <1>1, <1>2, <2>4, <3>1
  <2> QED
    BY <1>1, <1>2, <2>1, <2>2, <2>4, <2>5 DEF MarkInv
<1>12. SearchInv' /\ MarkedInv' /\ ClearInv'
  BY <1>1, <1>9 DEF SearchInv, Searching, MarkedInv, HasBlock, ClearInv
<1>13. PassedInv'
  <2>1. num_blocks' = num_blocks
    BY <1>1 DEF num_blocks
  <2> QED
    BY <1>1, <1>9, <2>1 DEF LoopInv, PassedInv, Passed, Allocating, Walking, tableVars
<1> QED BY <1>8, <1>10, <1>11, <1>12, <1>13 DEF LoopInv

(* All blocks of the run are marked.                                       *)
LEMMA MarkDoneKeepsInv ==
  ASSUME TableTypeOK, LoopInv, MarkDone
  PROVE  LoopInv'
<1> DEFINE bits == l2[section]
<1>1. /\ pc = "mark" /\ found = 0 /\ update_l1' = FALSE /\ l2_entry' = 0
      /\ met' = IF Here + 1 # first THEN {"carry"} ELSE {}
      /\ pc' = IF check_l2 THEN "check" ELSE "found"
      /\ UNCHANGED <<tableVars, call, section, first_block, l2_entries, bit, found,
                     first, check_l2>>
  BY DEF MarkDone
<1>2. PICK b \in Offsets :
        /\ b = Here + num_blocks - found
        /\ FindFreeBlocksL2(bits, num_blocks, first, b)
        /\ l2_entries = bits \cup (Here + 1 .. b)
        /\ check_l2 <=> TurnedFull(bits, Here + 1 .. b)
  BY <1>1 DEF LoopInv, MarkInv
<1>3. /\ num_blocks \in Nat \ {0} /\ first \in Nat /\ Here \in Int
      /\ L2_ENTRIES_PER_SECTION \in Nat /\ num_blocks' = num_blocks
  BY <1>1, Places, CallTyped, SectionSizes DEF LoopInv, ScanTypeOK, num_blocks
<1>4. b \in Nat /\ Here + 1 = b - num_blocks + 1
  BY <1>1, <1>2, <1>3, RunTyped
<1>5. ScanTypeOK'
  <2>1. 0 \in -1 .. L2_ENTRIES_PER_SECTION /\ met' \subseteq FaultKinds
    BY <1>1, <1>3 DEF FaultKinds
  <2> QED BY <1>1, <2>1 DEF LoopInv, ScanTypeOK, Allocating, Walking
<1>6. first_block \in {UINT_MAX, NULL} /\ first_block \notin Blocks
  BY <1>1, InputAssumption, ScanAssumption DEF LoopInv, ControlInv, Walking
<1>7. ControlInv'
  <2>1. stats'.pages < MaxPages /\ section' \notin l1'
    BY <1>1 DEF LoopInv, ControlInv, Allocating, Walking, tableVars
  <2> QED
    BY <1>1, <1>6, <2>1 DEF ControlInv, Allocating, Walking, HasBlock
<1>8. MarkedInv'
  <2> DEFINE marked == MarkedBlocks(num_blocks, b)
  <2>1. marked = Here + 1 .. b
    BY <1>4 DEF MarkedBlocks
  <2>2. Here + 1 # first <=> b - first + 1 # num_blocks
    BY <1>3, <1>4
  <2>3. l2' = l2
    BY <1>1 DEF tableVars
  <2>4. ~TurnedFull(bits, marked) => ~UpdateL1(bits, marked)
    BY DEF TurnedFull, UpdateL1
  <2>5. Marked(b)'
    BY <1>1, <1>2, <1>3, <2>1, <2>2, <2>3, <2>4 DEF Marked
  <2> QED BY <1>2, <2>5 DEF MarkedInv
<1>9. SearchInv' /\ MarkInv' /\ ClearInv'
  BY <1>1 DEF SearchInv, Searching, MarkInv, ClearInv
<1>10. PassedInv'
  BY <1>1, <1>3, <1>6 DEF LoopInv, PassedInv, Passed, Allocating, Walking, tableVars
<1> QED BY <1>5, <1>7, <1>8, <1>9, <1>10 DEF LoopInv

(* Where a block is about to be returned, the run it begins is marked.     *)
LEMMA MarkedTyped ==
  ASSUME LoopInv, HasBlock, pc # "idle"
  PROVE  /\ num_blocks \in Nat \ {0}
         /\ first \in Offsets
         /\ met # {"uninit"}
         /\ section * BLOCKS_PER_SECTION + first \in Blocks
<1>1. num_blocks \in Nat \ {0} /\ first \in Nat /\ section \in Sections
  BY CallTyped, Places DEF LoopInv, ScanTypeOK
<1>2. PICK b \in Offsets : Marked(b)
  BY DEF LoopInv, MarkedInv
<1>3. first \in Offsets
  BY <1>1, <1>2, RunTyped DEF Marked
<1>4. met # {"uninit"}
  BY <1>2 DEF Marked
<1> QED BY <1>1, <1>3, <1>4, BlockEncode

(* One entry is checked.                                                   *)
LEMMA CheckEntryKeepsInv ==
  ASSUME TableTypeOK, LoopInv, CheckEntry
  PROVE  LoopInv'
<1>1. /\ pc = "check"
      /\ UNCHANGED <<tableVars, call, section, first_block, l2_entries, bit, found,
                     first, check_l2, met>>
  BY DEF CheckEntry
<1>2. PICK b \in Offsets : Marked(b)
  BY <1>1 DEF LoopInv, MarkedInv, HasBlock
<1> DEFINE marked == MarkedBlocks(num_blocks, b)
<1>3. /\ L2_ENTRIES_PER_SECTION \in Nat /\ num_blocks' = num_blocks
      /\ l2_entry \in 0 .. L2_ENTRIES_PER_SECTION /\ update_l1 \in BOOLEAN
  BY <1>1, SectionSizes DEF LoopInv, ScanTypeOK, ControlInv, num_blocks
<1>4. /\ FindFreeBlocksL2(l2[section], num_blocks, first, b)
      /\ l2_entries = l2[section] \cup marked
      /\ met = IF b - first + 1 # num_blocks THEN {"carry"} ELSE {}
      /\ TurnedFull(l2[section], marked)
      /\ \A e \in 0 .. l2_entry - 1 : Full(e)
      /\ ~update_l1
  BY <1>1, <1>2 DEF Marked
<1>5. UpdateL1(l2[section], marked) <=> \A e \in 0 .. L2_ENTRIES_PER_SECTION - 1 : Full(e)
  BY <1>4, AllEntriesFull DEF UpdateL1, TurnedFull, Full
<1>6. /\ pc' \in {"check", "found"}
      /\ l2_entry' \in 0 .. L2_ENTRIES_PER_SECTION
      /\ update_l1' \in BOOLEAN
      /\ pc' = "check" => ~update_l1' /\ \A e \in 0 .. l2_entry' - 1 : Full(e)
      /\ pc' # "check" => (update_l1' <=> UpdateL1(l2[section], marked))
  <2> HIDE DEF marked
  <2>1. CASE l2_entry = L2_ENTRIES_PER_SECTION
    BY <2>1, <1>3, <1>4, <1>5 DEF CheckEntry
  <2>2. CASE l2_entry # L2_ENTRIES_PER_SECTION /\ Full(l2_entry)
    <3>1. pc' = "check" /\ l2_entry' = l2_entry + 1 /\ update_l1' = update_l1
      BY <2>2, <1>1 DEF CheckEntry
    <3>2. \A e \in 0 .. l2_entry : Full(e)
      BY <1>3, <1>4, <2>2
    <3>3. l2_entry' - 1 = l2_entry /\ l2_entry' \in 0 .. L2_ENTRIES_PER_SECTION
      BY <1>3, <2>2, <3>1
    <3>4. update_l1' = FALSE
      BY <1>3, <1>4, <3>1
    <3>5. \A e \in 0 .. l2_entry' - 1 : Full(e)
      BY <3>2, <3>3
    <3> QED BY <3>1, <3>3, <3>4, <3>5
  <2>3. CASE l2_entry # L2_ENTRIES_PER_SECTION /\ ~Full(l2_entry)
    <3>1. pc' = "found" /\ l2_entry' = l2_entry /\ update_l1' = update_l1
      BY <2>3, <1>1 DEF CheckEntry
    <3>2. l2_entry \in 0 .. L2_ENTRIES_PER_SECTION - 1
      BY <1>3, <2>3
    <3>3. ~UpdateL1(l2[section], marked)
      BY <1>5, <2>3, <3>2
    <3>4. update_l1' = FALSE
      BY <1>3, <1>4, <3>1
    <3> QED BY <1>3, <3>1, <3>3, <3>4
  <2> QED BY <2>1, <2>2, <2>3
<1>7. ScanTypeOK'
  BY <1>1, <1>6 DEF LoopInv, ScanTypeOK, Allocating, Walking
<1>8. first_block \in {UINT_MAX, NULL} /\ first_block \notin Blocks
  BY <1>1, InputAssumption, ScanAssumption DEF LoopInv, ControlInv, Walking
<1>9. ControlInv'
  <2>1. stats'.pages < MaxPages /\ section' \notin l1'
    BY <1>1 DEF LoopInv, ControlInv, Allocating, Walking, tableVars
  <2>2. l2_entry' >= 0
    BY <1>6
  <2> QED
    BY <1>1, <1>6, <1>8, <2>1, <2>2 DEF ControlInv, Allocating, Walking, HasBlock
<1>10. MarkedInv'
  <2>1. UNCHANGED <<l2, section, l2_entries>>
    BY <1>1 DEF tableVars
  <2>2. \A e : Full(e)' <=> Full(e)
    BY <2>1 DEF Full
  <2>3. Marked(b)'
    BY <1>1, <1>3, <1>4, <1>6, <2>1, <2>2 DEF Marked
  <2> QED BY <2>3 DEF MarkedInv
<1>11. SearchInv' /\ MarkInv' /\ ClearInv'
  BY <1>6 DEF SearchInv, Searching, MarkInv, ClearInv
<1>12. PassedInv'
  BY <1>1, <1>3, <1>6, <1>8
     DEF LoopInv, PassedInv, Passed, Allocating, Walking, tableVars
<1> QED BY <1>7, <1>9, <1>10, <1>11, <1>12 DEF LoopInv

(* The block is returned to pimswap_alloc_page_static.                     *)
LEMMA FoundKeepsInv ==
  ASSUME TableTypeOK, LoopInv, Found
  PROVE  LoopInv'
<1>1. /\ pc = "found" /\ pc' = "compare"
      /\ first_block' = section * BLOCKS_PER_SECTION + first
      /\ UNCHANGED <<tableVars, call, section, update_l1, loopVars, met>>
  BY DEF Found
<1>2. HasBlock
  BY <1>1 DEF HasBlock
<1>3. met # {"uninit"} /\ first_block' \in Blocks /\ num_blocks' = num_blocks
  BY <1>1, <1>2, MarkedTyped DEF num_blocks
<1>4. first_block' # NULL
  BY <1>3, InputAssumption
<1>5. ScanTypeOK'
  BY <1>1, <1>3 DEF LoopInv, ScanTypeOK, Allocating, Walking, loopVars
<1>6. ControlInv'
  <2>1. stats'.pages < MaxPages /\ section' \notin l1'
    BY <1>1 DEF LoopInv, ControlInv, Allocating, Walking, tableVars
  <2>2. UNCHANGED <<section, first, met>>
    BY <1>1 DEF loopVars
  <2> QED
    BY <1>1, <1>3, <2>1, <2>2 DEF ControlInv, Allocating, Walking, HasBlock
<1>7. MarkedInv'
  <2>1. PICK b \in Offsets : Marked(b)
    BY <1>2 DEF LoopInv, MarkedInv
  <2>2. UNCHANGED <<l2, section, first, l2_entries, met, update_l1>>
    BY <1>1 DEF tableVars, loopVars
  <2>3. Marked(b)'
    BY <1>1, <1>3, <2>1, <2>2 DEF Marked
  <2> QED BY <2>3 DEF MarkedInv
<1>8. SearchInv' /\ MarkInv' /\ ClearInv'
  BY <1>1 DEF SearchInv, Searching, MarkInv, ClearInv
<1>9. PassedInv'
  BY <1>1, <1>3, <1>4
     DEF LoopInv, PassedInv, Passed, Allocating, Walking, tableVars
<1> QED BY <1>5, <1>6, <1>7, <1>8, <1>9 DEF LoopInv

-----------------------------------------------------------------------------
(* The end of an allocation.                                               *)

(* The comparison with UINT_MAX decides between the next section and the   *)
(* end of the call.                                                        *)
LEMMA CompareKeepsInv ==
  ASSUME TableTypeOK, LoopInv, Compare
  PROVE  LoopInv'
<1>1. /\ pc = "compare"
      /\ first_block' \in IF first_block = NULL THEN Blocks \cup {UINT_MAX} ELSE {first_block}
      /\ UNCHANGED <<tableVars, call, update_l1, loopVars>>
  BY DEF Compare
<1>2. /\ UINT_MAX # NULL /\ UINT_MAX \notin Blocks /\ NULL \notin Blocks
      /\ section \in Sections /\ section \in Nat /\ num_blocks' = num_blocks
      /\ first_block \in Blocks \cup {UINT_MAX, NULL}
      /\ first_block' \in Blocks \cup {UINT_MAX}
      /\ UNCHANGED <<l1, l2, stats, l2_entries, first>>
  BY <1>1, InputAssumption, ScanAssumption, Places
     DEF LoopInv, ScanTypeOK, num_blocks, tableVars, loopVars
<1>3. stats'.pages < MaxPages
  BY <1>1, <1>2 DEF LoopInv, ControlInv, Allocating
<1>4. SearchInv' /\ MarkInv' /\ ClearInv' /\ pc' \in {"return", "l1", "full"}
  BY <1>1, <1>2 DEF Compare, SearchInv, Searching, MarkInv, ClearInv
<1>5. CASE first_block' = UINT_MAX
  <2>1. first_block \notin Blocks /\ met' = met
    BY <1>1, <1>2, <1>5 DEF Compare
  <2>2. met = {} /\ (section + 1) % L1_BITS_PER_ENTRY = 0
    BY <1>1, <2>1 DEF LoopInv, ControlInv
  <2>3. Passed = 0 .. section
    BY <1>1, <2>1 DEF Passed
  <2>4. /\ section' \in Sections
        /\ Passed' = 0 .. section
        /\ pc' \in {"l1", "full"}
        /\ pc' = "full" => section' + 1 \notin Sections
    <3>1. CASE section + 1 \in Sections
      <4>1. pc' = "l1" /\ section' = section + 1 /\ section' - 1 = section
        BY <1>2, <1>5, <3>1 DEF Compare
      <4> QED BY <3>1, <4>1 DEF Passed
    <3>2. CASE section + 1 \notin Sections
      <4>1. pc' = "full" /\ section' = section
        BY <1>2, <1>5, <3>2 DEF Compare
      <4> QED BY <1>2, <1>5, <3>2, <4>1 DEF Passed
    <3> QED BY <3>1, <3>2
  <2>5. ScanTypeOK'
    BY <1>1, <1>2, <2>1, <2>4 DEF LoopInv, ScanTypeOK, Allocating, Walking, loopVars
  <2>6. ControlInv'
    BY <1>2, <1>3, <1>5, <2>1, <2>2, <2>4 DEF ControlInv, Allocating, Walking, HasBlock
  <2>7. MarkedInv'
    BY <1>2, <1>5, <2>4 DEF MarkedInv, HasBlock
  <2>8. PassedInv'
    BY <1>1, <1>2, <1>5, <2>3, <2>4 DEF LoopInv, PassedInv, Allocating
  <2> QED BY <1>4, <2>5, <2>6, <2>7, <2>8 DEF LoopInv
<1>6. CASE first_block' # UINT_MAX
  <2>1. /\ pc' = "return" /\ section' = section /\ first_block' \in Blocks
        /\ met' = IF first_block = NULL THEN {"uninit"} ELSE met
    BY <1>2, <1>6 DEF Compare
  <2>2. ScanTypeOK'
    <3>1. met' \subseteq FaultKinds
      BY <2>1 DEF LoopInv, ScanTypeOK, FaultKinds
    <3> QED
      BY <1>1, <1>2, <2>1, <3>1 DEF LoopInv, ScanTypeOK, Allocating, Walking, loopVars
  <2>3. PassedInv'
    <3>1. Passed' = 0 .. section - 1 /\ Passed' \subseteq Passed
      BY <1>2, <2>1 DEF Passed
    <3> QED BY <1>1, <1>2, <2>1, <3>1 DEF LoopInv, PassedInv, Allocating
  <2>4. CASE first_block = NULL
    <3>1. met' = {"uninit"} /\ ~HasBlock'
      BY <2>1, <2>4 DEF HasBlock
    <3>2. section \in l1 /\ \A s \in Sections : L1_ENTRY_FROM_SECTION(s) = 0 => s \in l1
      <4>1. Passed = 0 .. section /\ Passed \subseteq l1 /\ L1_ENTRY_FROM_SECTION(section) = 0
        BY <1>1, <1>2, <2>4 DEF LoopInv, PassedInv, Passed, Allocating
      <4>2. (section + 1) % L1_BITS_PER_ENTRY = 0
        BY <1>1, <1>2, <2>4 DEF LoopInv, ControlInv
      <4>3. \A s \in Nat : L1_ENTRY_FROM_SECTION(s) = 0 => s <= section
        BY <1>2, <4>1, <4>2, FirstEntry
      <4>4. \A s \in Sections : s \in Nat
        BY SectionSizes, Sizes DEF Sections
      <4> QED BY <1>2, <4>1, <4>3, <4>4
    <3>3. ControlInv'
      BY <1>2, <1>3, <2>1, <3>1, <3>2 DEF ControlInv, Allocating, Walking
    <3>4. MarkedInv'
      BY <3>1 DEF MarkedInv
    <3> QED BY <1>4, <2>2, <2>3, <3>3, <3>4 DEF LoopInv
  <2>5. CASE first_block # NULL
    <3>1. first_block \in Blocks /\ first_block' = first_block /\ met' = met
      BY <1>1, <2>1, <2>5
    <3>2. met # {"uninit"} /\ HasBlock /\ HasBlock'
      BY <1>1, <2>1, <3>1 DEF LoopInv, ControlInv, HasBlock
    <3>3. section \notin l1 /\ first_block = section * BLOCKS_PER_SECTION + first
      BY <1>1, <3>2 DEF LoopInv, ControlInv
    <3>4. ControlInv'
      BY <1>2, <1>3, <2>1, <3>1, <3>2, <3>3 DEF ControlInv, Allocating, Walking
    <3>5. MarkedInv'
      <4>1. PICK b \in Offsets : Marked(b)
        BY <3>2 DEF LoopInv, MarkedInv
      <4>2. Marked(b)'
        BY <1>1, <1>2, <2>1, <3>1, <4>1 DEF Marked
      <4> QED BY <4>2 DEF MarkedInv
    <3> QED BY <1>4, <2>2, <2>3, <3>4, <3>5 DEF LoopInv
  <2> QED BY <2>4, <2>5
<1> QED BY <1>5, <1>6

(* A program that ends leaves nothing to be shown.                         *)
LEMMA EndKeepsInv ==
  ASSUME LoopInv, pc' = "idle",
         UNCHANGED <<call, section, first_block, update_l1, loopVars, met>>
  PROVE  LoopInv'
<1>1. ScanTypeOK'
  BY DEF LoopInv, ScanTypeOK, loopVars
<1>2. ControlInv'
  BY DEF ControlInv, Allocating, Walking, HasBlock
<1>3. SearchInv' /\ MarkInv' /\ MarkedInv' /\ PassedInv' /\ ClearInv'
  BY DEF SearchInv, Searching, MarkInv, MarkedInv, HasBlock, PassedInv, Allocating,
         Walking, ClearInv
<1> QED BY <1>1, <1>2, <1>3 DEF LoopInv

-----------------------------------------------------------------------------
(* Clearing the blocks of a page.                                          *)

(* An invalidation of an id that is in the index begins.                   *)
LEMMA StartInvalidateKeepsInv ==
  ASSUME TableTypeOK, LoopInv, NEW id \in Ids, StartInvalidate(id)
  PROVE  LoopInv'
<1> DEFINE e == hash_table[EntryIndex(id)]
           o == OFFSET_FROM_BLOCK(e.block)
           s == L2_SECTION_FROM_BLOCK(e.block)
           W == L2_BITS_PER_ENTRY
<1>1. /\ LookupHit(id) /\ pc' = "clear" /\ call' = [id |-> id, length |-> e.length]
      /\ section' = s /\ l2_entries' = l2[s]
      /\ l2_entry' = o \div W /\ bit' = o % W /\ found' = 0 /\ met' = {}
      /\ UNCHANGED <<tableVars, first_block, update_l1, first, check_l2>>
  BY DEF StartInvalidate
<1>2. e.block \in Blocks /\ e.length \in Lengths
  BY <1>1, HitTyped
<1>3. s \in Sections /\ o \in Offsets
  BY <1>2, BlockDecode
<1>4. W \in Nat \ {0} /\ BLOCKS_PER_SECTION \in Nat /\ L2_ENTRIES_PER_SECTION \in Nat
      /\ o \in Nat /\ o < BLOCKS_PER_SECTION
  <2> HIDE DEF o
  <2> QED BY <1>3, SectionSizes DEF Offsets
<1>5. /\ l2_entry' \in Nat /\ l2_entry' \in Int /\ bit' \in 0 .. W - 1
      /\ o = W * l2_entry' + bit'
  <2>1. o \div W \in Nat /\ o % W \in 0 .. W - 1 /\ o = W * (o \div W) + (o % W)
    <3> HIDE DEF o, W
    <3> QED BY <1>4, Division
  <2> DEFINE q == o \div W
             r == o % W
  <2>2. q \in Nat /\ r \in 0 .. W - 1 /\ o = W * q + r /\ l2_entry' = q /\ bit' = r
    BY <1>1, <2>1
  <2> HIDE DEF o, W, q, r
  <2> QED BY <2>2
<1>6. Here' = o
  <2> HIDE DEF o
  <2> QED BY <1>4, <1>5 DEF Here, Position
<1>7. l2_entry' < L2_ENTRIES_PER_SECTION
  <2>1. Here' < BLOCKS_PER_SECTION
    <3> HIDE DEF o
    <3> QED BY <1>4, <1>6
  <2>2. Position(l2_entry', bit') < BLOCKS_PER_SECTION
    BY <2>1 DEF Here
  <2> QED BY <1>5, <2>2, PositionRange
<1>8. l2[s] \subseteq Offsets
  <2> HIDE DEF s
  <2> QED BY <1>3 DEF TableTypeOK
<1>9. ScanTypeOK'
  <2>1. call' \in [id : Ids, length : Lengths]
    BY <1>1, <1>2
  <2>2. l2_entry' \in -1 .. L2_ENTRIES_PER_SECTION
    BY <1>4, <1>5, <1>7
  <2> HIDE DEF e, s, o
  <2> QED
    BY <1>1, <1>3, <1>5, <1>8, <2>1, <2>2 DEF LoopInv, ScanTypeOK
<1>10. ControlInv'
  <2>1. l2_entry' >= 0 /\ l2_entry' # L2_ENTRIES_PER_SECTION
    BY <1>4, <1>5, <1>7
  <2> QED BY <1>1, <2>1 DEF ControlInv, Allocating, Walking, HasBlock
<1>11. SearchInv' /\ MarkInv' /\ MarkedInv' /\ PassedInv'
  BY <1>1 DEF SearchInv, Searching, MarkInv, MarkedInv, HasBlock, PassedInv,
              Allocating, Walking
<1>12. ClearInv'
  <2>1. /\ call'.id = id /\ call'.length = e.length /\ hash_table' = hash_table
        /\ section' = s
    BY <1>1 DEF tableVars
  <2>2. num_blocks' \in Nat
    <3>1. NumBlocks(e.length) \in Nat
      BY <1>1, HitTyped
    <3> QED BY <2>1, <3>1 DEF num_blocks
  <2>3. Here' = o + found' /\ found' <= num_blocks'
    <3> HIDE DEF o
    <3> QED BY <1>1, <1>4, <1>6, <2>2
  <2>4. l2_entries' = FreeBlocksL2(l2'[section'], found', o)
    <3> HIDE DEF o, s
    <3>1. l2' = l2
      BY <1>1 DEF tableVars
    <3>2. FreeBlocksL2(l2[s], 0, o) = l2[s]
      BY <1>4, <1>8, ClearNext
    <3> QED BY <1>1, <3>1, <3>2
  <2>5. LookupHit(call.id)'
    BY <1>1, <2>1 DEF LookupHit
  <2> QED BY <2>1, <2>3, <2>4, <2>5 DEF ClearInv
<1> QED BY <1>9, <1>10, <1>11, <1>12 DEF LoopInv

(* What the clearing loop knows where it is.                               *)
LEMMA ClearTyped ==
  ASSUME TableTypeOK, LoopInv, pc = "clear"
  PROVE  LET e == hash_table[EntryIndex(call.id)]
             o == OFFSET_FROM_BLOCK(e.block)
         IN  /\ call.id \in Ids /\ LookupHit(call.id)
             /\ call.length = e.length /\ section = L2_SECTION_FROM_BLOCK(e.block)
             /\ o \in Nat /\ l2[section] \in SUBSET Offsets
             /\ Here = o + found /\ found <= num_blocks
             /\ l2_entries = FreeBlocksL2(l2[section], found, o)
             /\ num_blocks \in Nat \ {0} /\ found \in Nat
             /\ l2_entry \in 0 .. L2_ENTRIES_PER_SECTION
             /\ bit \in 0 .. L2_BITS_PER_ENTRY - 1
             /\ l2_entry = L2_ENTRIES_PER_SECTION => bit = 0
<1> DEFINE e == hash_table[EntryIndex(call.id)]
           o == OFFSET_FROM_BLOCK(e.block)
<1>1. call.id \in Ids /\ num_blocks \in Nat \ {0}
  BY CallTyped DEF LoopInv
<1>2. /\ LookupHit(call.id)
      /\ call.length = e.length /\ section = L2_SECTION_FROM_BLOCK(e.block)
      /\ Here = o + found /\ found <= num_blocks
      /\ l2_entries = FreeBlocksL2(l2[section], found, o)
  BY DEF LoopInv, ClearInv
<1>3. o \in Nat
  <2>1. e.block \in Blocks
    BY <1>1, <1>2, HitTyped
  <2>2. o \in Offsets
    BY <2>1, BlockDecode
  <2> HIDE DEF o
  <2> QED BY <2>2, SectionSizes DEF Offsets
<1>4. /\ found \in Nat /\ bit \in 0 .. L2_BITS_PER_ENTRY - 1 /\ section \in Sections
      /\ l2_entry \in 0 .. L2_ENTRIES_PER_SECTION
      /\ l2_entry = L2_ENTRIES_PER_SECTION => bit = 0
  BY SectionSizes DEF LoopInv, ScanTypeOK, ControlInv
<1>5. l2[section] \in SUBSET Offsets
  BY <1>4 DEF TableTypeOK
<1> HIDE DEF o
<1> QED BY <1>1, <1>2, <1>3, <1>4, <1>5 DEF o

(* One block is cleared.                                                   *)
LEMMA ClearKeepsInv ==
  ASSUME TableTypeOK, LoopInv, Clear
  PROVE  LoopInv'
<1> DEFINE e == hash_table[EntryIndex(call.id)]
           o == OFFSET_FROM_BLOCK(e.block)
           W == L2_BITS_PER_ENTRY
<1>1. /\ pc = "clear" /\ pc' = "clear" /\ found < num_blocks
      /\ l2_entry < L2_ENTRIES_PER_SECTION
      /\ found' = found + 1 /\ l2_entries' = l2_entries \ {Here}
      /\ UNCHANGED <<tableVars, call, section, first_block, update_l1, first,
                     check_l2, met>>
  BY DEF Clear
<1>2. /\ call.id \in Ids /\ LookupHit(call.id)
      /\ call.length = e.length /\ section = L2_SECTION_FROM_BLOCK(e.block)
      /\ o \in Nat /\ l2[section] \in SUBSET Offsets
      /\ Here = o + found
      /\ l2_entries = FreeBlocksL2(l2[section], found, o)
      /\ num_blocks \in Nat \ {0} /\ found \in Nat
      /\ l2_entry \in 0 .. L2_ENTRIES_PER_SECTION
      /\ bit \in 0 .. W - 1
  BY <1>1, ClearTyped
<1>3. /\ W \in Nat \ {0} /\ L2_ENTRIES_PER_SECTION \in Nat /\ l2_entry \in Int
      /\ bit \in Int /\ num_blocks' = num_blocks
  BY <1>1, <1>2, SectionSizes DEF num_blocks
<1>4. /\ l2_entry' \in 0 .. L2_ENTRIES_PER_SECTION
      /\ bit' \in 0 .. W - 1
      /\ l2_entry' = L2_ENTRIES_PER_SECTION => bit' = 0
      /\ Here' = Here + 1
  <2>1. CASE bit + 1 = W
    <3>1. l2_entry' = l2_entry + 1 /\ bit' = 0 /\ bit = W - 1
      BY <1>3, <2>1 DEF Clear
    <3>2. Here' = Here + 1
      BY <1>3, <3>1, PositionStep DEF Here
    <3> QED BY <1>1, <1>2, <1>3, <3>1, <3>2
  <2>2. CASE bit + 1 # W
    <3>1. l2_entry' = l2_entry /\ bit' = bit + 1
      BY <2>2 DEF Clear
    <3>2. Here' = Here + 1
      BY <1>3, <3>1, PositionStep DEF Here
    <3> QED BY <1>1, <1>2, <1>3, <2>2, <3>1, <3>2
  <2> QED BY <2>1, <2>2
<1>5. ScanTypeOK'
  <2>1. l2_entry' \in -1 .. L2_ENTRIES_PER_SECTION /\ found' \in Nat
    BY <1>1, <1>2, <1>3, <1>4
  <2> QED
    BY <1>1, <1>4, <2>1 DEF LoopInv, ScanTypeOK
<1>6. ControlInv'
  <2>1. l2_entry' >= 0
    BY <1>3, <1>4
  <2> QED BY <1>1, <1>4, <2>1 DEF ControlInv, Allocating, Walking, HasBlock
<1>7. SearchInv' /\ MarkInv' /\ MarkedInv' /\ PassedInv'
  BY <1>1 DEF SearchInv, Searching, MarkInv, MarkedInv, HasBlock, PassedInv,
              Allocating, Walking
<1>8. ClearInv'
  <2>1. UNCHANGED <<hash_table, l2, call, section>>
    BY <1>1 DEF tableVars
  <2>2. LookupHit(call.id)'
    BY <1>2, <2>1 DEF LookupHit
  <2> HIDE DEF o
  <2>3. Here' = o + found' /\ found' <= num_blocks'
    BY <1>1, <1>2, <1>3, <1>4
  <2>4. l2_entries' = FreeBlocksL2(l2[section], found', o)
    BY <1>1, <1>2, ClearNext
  <2> QED BY <1>2, <2>1, <2>2, <2>3, <2>4 DEF ClearInv, o
<1> QED BY <1>5, <1>6, <1>7, <1>8 DEF LoopInv

-----------------------------------------------------------------------------
(* The program implements the operators of AllocTable.                     *)

(* What is written when a block is returned is an allocation.              *)
LEMMA ReturnBlockAllocates ==
  ASSUME TableTypeOK, LoopInv, ReturnBlock
  PROVE  AllocPageStatic(call.id, call.length, first_block) /\ first_block \in Blocks
         /\ call.id \in Ids /\ call.length \in Lengths
<1>1. /\ pc = "return"
      /\ l2' = IF "uninit" \in met THEN l2 ELSE [l2 EXCEPT ![section] = l2_entries]
      /\ l1' = IF update_l1 THEN l1 \cup {section} ELSE l1
      /\ RecordPage(call.id, call.length, first_block, met)
  BY DEF ReturnBlock
<1>2. /\ first_block \in Blocks /\ stats.pages < MaxPages
      /\ call.id \in Ids /\ call.length \in Lengths
      /\ num_blocks \in Nat \ {0} /\ section \in Sections /\ section \in Nat
  BY <1>1, CallTyped, Places DEF LoopInv, ControlInv, Allocating
<1>3. CASE met = {"uninit"}
  <2>1. section \in l1 /\ \A s \in Sections : L1_ENTRY_FROM_SECTION(s) = 0 => s \in l1
    BY <1>1, <1>3 DEF LoopInv, ControlInv
  <2>2. UNCHANGED <<l1, l2>>
    BY <1>1, <1>3, <2>1
  <2>3. AllocUninit(call.id, call.length, first_block)
    BY <1>1, <1>3, <2>1, <2>2 DEF AllocUninit
  <2> QED BY <1>2, <2>3 DEF AllocPageStatic
<1>4. CASE met # {"uninit"}
  <2>1. HasBlock
    BY <1>1, <1>2, <1>4 DEF HasBlock
  <2>2. /\ section \notin l1 /\ first_block = section * BLOCKS_PER_SECTION + first
        /\ first \in Offsets
    BY <1>1, <2>1, MarkedTyped DEF LoopInv, ControlInv
  <2>3. L2_SECTION_FROM_BLOCK(first_block) = section /\ OFFSET_FROM_BLOCK(first_block) = first
    BY <1>2, <2>2, BlockEncode
  <2>4. PICK b \in Offsets : Marked(b)
    BY <2>1 DEF LoopInv, MarkedInv
  <2> DEFINE bits == l2[section]
             marked == MarkedBlocks(num_blocks, b)
  <2>5. /\ FindFreeBlocksL2(bits, num_blocks, first, b)
        /\ l2_entries = bits \cup marked
        /\ met = IF b - first + 1 # num_blocks THEN {"carry"} ELSE {}
        /\ update_l1 <=> UpdateL1(bits, marked)
    BY <1>1, <2>4 DEF Marked
  <2>6. first \notin bits
    BY <2>5 DEF FindFreeBlocksL2, IsRun
  <2>7. \A t \in Sections \ l1 : t < section => ~HasRun(l2[t], num_blocks)
    <3>1. Passed = 0 .. section - 1
      BY <1>1 DEF Passed
    <3>2. \A t \in Sections : t < section => t \in 0 .. section - 1
      BY <1>2, Sizes DEF Sections
    <3> QED BY <1>1, <3>1, <3>2 DEF LoopInv, PassedInv, Allocating
  <2>8. l2' = [l2 EXCEPT ![section] = @ \cup marked]
    BY <1>1, <2>5
  <2>9. l1' = IF UpdateL1(bits, marked) THEN l1 \cup {section} ELSE l1
    BY <1>1, <2>5
  <2>10. AllocFound(call.id, call.length, first_block)
    <3>1. NumBlocks(call.length) = num_blocks
      BY DEF num_blocks
    <3> HIDE DEF bits, marked
    <3>2. RecordPage(call.id, call.length, first_block,
                     IF b - first + 1 # num_blocks THEN {"carry"} ELSE {})
      BY <1>1, <2>5
    <3> QED
      BY <2>2, <2>3, <2>5, <2>6, <2>7, <2>8, <2>9, <3>1, <3>2
         DEF AllocFound, bits, marked
  <2> QED BY <1>2, <2>10 DEF AllocPageStatic
<1> QED BY <1>3, <1>4

(* What is written when the blocks are cleared is an invalidation.         *)
LEMMA ClearDoneInvalidates ==
  ASSUME TableTypeOK, LoopInv, ClearDone
  PROVE  InvalidateId(call.id) /\ call.id \in Ids
<1> DEFINE e == hash_table[EntryIndex(call.id)]
           o == OFFSET_FROM_BLOCK(e.block)
<1>1. /\ pc = "clear"
      /\ found = num_blocks \/ l2_entry = L2_ENTRIES_PER_SECTION
      /\ l2' = [l2 EXCEPT ![section] = l2_entries]
      /\ l1' = l1 \ {section}
      /\ stats' = [pages  |-> stats.pages - 1,
                   blocks |-> stats.blocks - num_blocks,
                   bytes  |-> stats.bytes - call.length]
      /\ InsertIndexHash(call.id, 0, 0)
      /\ UNCHANGED faults
  BY DEF ClearDone
<1>2. /\ call.id \in Ids /\ LookupHit(call.id)
      /\ call.length = e.length /\ section = L2_SECTION_FROM_BLOCK(e.block)
      /\ o \in Nat /\ l2[section] \in SUBSET Offsets
      /\ Here = o + found /\ found <= num_blocks
      /\ l2_entries = FreeBlocksL2(l2[section], found, o)
      /\ num_blocks \in Nat \ {0} /\ found \in Nat
      /\ bit \in 0 .. L2_BITS_PER_ENTRY - 1
      /\ l2_entry = L2_ENTRIES_PER_SECTION => bit = 0
  BY <1>1, ClearTyped
<1>3. l2_entries = FreeBlocksL2(l2[section], num_blocks, o)
  <2>1. CASE found = num_blocks
    BY <2>1, <1>2
  <2>2. CASE found # num_blocks
    <3>1. l2_entry = L2_ENTRIES_PER_SECTION /\ bit = 0
      BY <1>1, <1>2, <2>2
    <3>2. L2_ENTRIES_PER_SECTION \in Int
      BY SectionSizes
    <3>3. Here = BLOCKS_PER_SECTION
      BY <1>2, <3>1, <3>2, PositionRange DEF Here
    <3> HIDE DEF o
    <3>4. o + found >= BLOCKS_PER_SECTION
      BY <1>2, <3>3, SectionSizes
    <3>5. \A bits \in SUBSET Offsets, k, a, n \in Nat :
            k <= n /\ a + k >= BLOCKS_PER_SECTION
              => FreeBlocksL2(bits, n, a) = FreeBlocksL2(bits, k, a)
      BY ClearNext
    <3>6. num_blocks \in Nat
      BY <1>2
    <3>7. FreeBlocksL2(l2[section], num_blocks, o) = FreeBlocksL2(l2[section], found, o)
      BY <1>2, <3>4, <3>5, <3>6
    <3> QED BY <1>2, <3>7
  <2> QED BY <2>1, <2>2
<1>4. NumBlocks(e.length) = num_blocks
  BY <1>2 DEF num_blocks
<1>5. FreePageStatic(call.id)
  <2>1. l2' = [l2 EXCEPT ![section] = FreeBlocksL2(@, num_blocks, o)]
    BY <1>1, <1>3
  <2> QED BY <1>1, <1>2, <1>4, <2>1 DEF FreePageStatic
<1> QED BY <1>1, <1>2, <1>5 DEF InvalidateId

(* Every step writes what a step of AllocTable writes, or nothing.         *)
LEMMA StepRefines ==
  ASSUME TableTypeOK, LoopInv, [ScanNext]_scanVars
  PROVE  [TableNext]_tableVars
<1>1. CASE UNCHANGED tableVars
  BY <1>1
<1>2. CASE ReturnBlock
  BY <1>2, ReturnBlockAllocates DEF TableNext
<1>3. CASE ClearDone
  BY <1>3, ClearDoneInvalidates DEF TableNext
<1>4. UNCHANGED tableVars \/ ReturnBlock \/ ClearDone
  <2>1. CASE UNCHANGED scanVars
    BY <2>1 DEF scanVars
  <2>2. CASE ScanNext
    <3>1. CASE \E id \in Ids, length \in Lengths : StartAlloc(id, length)
      BY <3>1 DEF StartAlloc
    <3>2. CASE \E id \in Ids : StartInvalidate(id)
      BY <3>2 DEF StartInvalidate
    <3>3. CASE ScanStep
      BY <3>3 DEF ScanStep, L1BitSet, L1BitClear, Compare, ReturnNull, SkipFull,
                  EnterEntry, BitFree, BitUsed, NotFound, Mark, MarkDone, CheckEntry,
                  Found, Clear
    <3> QED BY <2>2, <3>1, <3>2, <3>3 DEF ScanNext
  <2> QED BY <2>1, <2>2
<1> QED BY <1>1, <1>2, <1>3, <1>4

(* Every step keeps the loop invariants.                                   *)
LEMMA StepKeepsInv ==
  ASSUME TableTypeOK, LoopInv, [ScanNext]_scanVars
  PROVE  LoopInv'
<1>1. CASE UNCHANGED scanVars
  <2>1. /\ UNCHANGED <<l1, l2, hash_table, stats>>
        /\ UNCHANGED <<pc, call, section, first_block, update_l1, met>>
        /\ UNCHANGED <<l2_entries, l2_entry, bit, found, first, check_l2>>
    BY <1>1 DEF scanVars, tableVars, callVars, loopVars
  <2>2. /\ Here' = Here /\ num_blocks' = num_blocks
        /\ \A e : Full(e)' <=> Full(e)
        /\ Walking' <=> Walking
        /\ HasBlock' <=> HasBlock
        /\ Passed' = Passed
        /\ \A id : LookupHit(id)' <=> LookupHit(id)
    BY <2>1 DEF Here, num_blocks, Full, Walking, HasBlock, Passed, LookupHit
  <2>3. ScanTypeOK' /\ ControlInv' /\ SearchInv' /\ MarkInv'
    BY <2>1, <2>2 DEF LoopInv, ScanTypeOK, ControlInv, SearchInv, MarkInv, Allocating,
                      Searching
  <2>4. MarkedInv'
    <3>1. \A b : Marked(b)' <=> Marked(b)
      BY <2>1, <2>2 DEF Marked
    <3> QED BY <2>2, <3>1 DEF LoopInv, MarkedInv
  <2>5. PassedInv' /\ ClearInv'
    BY <2>1, <2>2 DEF LoopInv, PassedInv, ClearInv, Allocating
  <2> QED BY <2>3, <2>4, <2>5 DEF LoopInv
<1>2. CASE \E id \in Ids, length \in Lengths : StartAlloc(id, length)
  BY <1>2, StartAllocKeepsInv
<1>3. CASE \E id \in Ids : StartInvalidate(id)
  BY <1>3, StartInvalidateKeepsInv
<1>4. CASE ScanStep
  <2>1. CASE L1BitSet \/ L1BitClear \/ Compare
    BY <2>1, L1BitSetKeepsInv, L1BitClearKeepsInv, CompareKeepsInv
  <2>2. CASE ReturnNull \/ ReturnBlock \/ ClearDone
    BY <2>2, EndKeepsInv DEF ReturnNull, ReturnBlock, ClearDone
  <2>3. CASE SkipFull \/ EnterEntry \/ BitFree \/ BitUsed \/ NotFound
    BY <2>3, SkipFullKeepsInv, EnterEntryKeepsInv, BitFreeKeepsInv, BitUsedKeepsInv,
       NotFoundKeepsInv
  <2>4. CASE Mark \/ MarkDone \/ CheckEntry \/ Found
    BY <2>4, MarkKeepsInv, MarkDoneKeepsInv, CheckEntryKeepsInv, FoundKeepsInv
  <2>5. CASE Clear
    BY <2>5, ClearKeepsInv
  <2> QED BY <1>4, <2>1, <2>2, <2>3, <2>4, <2>5 DEF ScanStep
<1> QED BY <1>1, <1>2, <1>3, <1>4 DEF ScanNext

(* No program runs at first.                                               *)
LEMMA ScanInitInv == ScanInit => LoopInv
<1> SUFFICES ASSUME ScanInit PROVE LoopInv
  OBVIOUS
<1>1. ScanTypeOK
  <2>1. 0 \in Sections /\ 0 \in 0 .. L2_BITS_PER_ENTRY - 1
        /\ 0 \in -1 .. L2_ENTRIES_PER_SECTION
    BY Sizes, SectionSizes DEF Sections
  <2> QED BY <2>1 DEF ScanInit, ScanTypeOK
<1>2. ControlInv /\ SearchInv /\ MarkInv
  BY DEF ScanInit, ControlInv, Allocating, Walking, HasBlock, SearchInv, Searching, MarkInv
<1>3. MarkedInv /\ PassedInv /\ ClearInv
  BY DEF ScanInit, MarkedInv, HasBlock, PassedInv, Allocating, Walking, ClearInv
<1> QED BY <1>1, <1>2, <1>3 DEF LoopInv

(* A step of AllocTable keeps the types.                                   *)
LEMMA TableStepTyped ==
  ASSUME TableTypeOK, [TableNext]_tableVars
  PROVE  TableTypeOK'
<1>1. CASE UNCHANGED tableVars
  BY <1>1 DEF tableVars, TableTypeOK
<1>2. CASE \E id \in Ids, length \in Lengths, block \in Blocks \cup {NULL} :
             AllocPageStatic(id, length, block)
  BY <1>2, AllocTyped
<1>3. CASE \E id \in Ids : InvalidateId(id)
  BY <1>3, InvalidateTyped
<1> QED BY <1>1, <1>2, <1>3 DEF TableNext

(* The loops of pimswap_alloc_page_static, find_free_blocks_l2 and         *)
(* free_blocks_l2 have, after every turn, done their share of what the     *)
(* operators of AllocTable say, whatever the geometry of the tables, the   *)
(* contents of the bitmaps and the lengths of the pages.                   *)
THEOREM LoopsCorrect == ScanSpec => [](TableTypeOK /\ LoopInv)
<1>1. ScanInit => TableTypeOK /\ LoopInv
  BY InitTyped, ScanInitInv DEF ScanInit
<1>2. TableTypeOK /\ LoopInv /\ [ScanNext]_scanVars => (TableTypeOK /\ LoopInv)'
  <2> SUFFICES ASSUME TableTypeOK, LoopInv, [ScanNext]_scanVars
               PROVE  TableTypeOK' /\ LoopInv'
    OBVIOUS
  <2> QED BY StepKeepsInv, StepRefines, TableStepTyped
<1> QED BY <1>1, <1>2, PTL DEF ScanSpec

(* The program with its loops implements the one-step operations of        *)
(* AllocTable: what is checked and proved of AllocTable holds of the loops.*)
THEOREM ScanImplements == ScanSpec => TableSpec
<1>1. ScanInit => TableInit
  BY DEF ScanInit
<1>2. TableTypeOK /\ LoopInv /\ [ScanNext]_scanVars => [TableNext]_tableVars
  BY StepRefines
<1> QED BY <1>1, <1>2, LoopsCorrect, PTL DEF ScanSpec, TableSpec

(* So pages stored and removed by the loops share no block, and no block   *)
(* of a page is handed out again, unless one of the two known faults was   *)
(* met.                                                                    *)
THEOREM LoopsNeverOverlap == ScanSpec => []NoOverlap
  BY ScanImplements, PagesNeverOverlap, PTL
=============================================================================
