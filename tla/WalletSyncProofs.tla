-------------------------- MODULE WalletSyncProofs --------------------------
(***************************************************************************)
(* Proofs about WalletSync, for any accounts, addresses, notes, chunks and *)
(* heights: the types, what a run that reports its height has done, and,   *)
(* on a chain that does not reorganize, what the rows promise.             *)
(***************************************************************************)
EXTENDS WalletSync, WellFoundedInduction, TLAPS

-----------------------------------------------------------------------------
\* Least and greatest elements.

\* A nonempty set of naturals has a least element.
LEMMA NatLeast ==
    ASSUME NEW S \in SUBSET Nat, S # {}
    PROVE  \E x \in S : \A y \in S : x <= y
<1> DEFINE R == OpToRel(<, Nat)
<1>1. IsWellFoundedOn(R, Nat)
  BY NatLessThanWellFounded, Zenon
<1>2. \A y, x \in Nat : y < x => <<y, x>> \in R
  BY DEF OpToRel
<1> HIDE DEF R
<1>3. PICK x \in S : \A y \in S : ~(<<y, x>> \in R)
  BY <1>1, WFMin
<1>4. ASSUME NEW y \in S PROVE x <= y
  <2>1. y \in Nat /\ x \in Nat
    OBVIOUS
  <2>2. ~(<<y, x>> \in R)
    BY <1>3
  <2>3. ~(y < x)
    BY <1>2, <2>1, <2>2
  <2> QED  BY <2>1, <2>3
<1> QED  BY <1>4

\* Min of a nonempty set of naturals is its least element.
LEMMA MinLeast ==
    ASSUME NEW S \in SUBSET Nat, S # {}
    PROVE  Min(S) \in S /\ \A y \in S : Min(S) <= y
<1>1. PICK x \in S : \A y \in S : x <= y
  BY NatLeast
<1> QED  BY <1>1 DEF Min

\* Max of a nonempty bounded set of naturals is its greatest element.
LEMMA MaxGreatest ==
    ASSUME NEW N \in Nat, NEW S \in SUBSET (0 .. N), S # {}
    PROVE  Max(S) \in S /\ \A y \in S : y <= Max(S)
<1> DEFINE D == {N - x : x \in S}
<1>0. \A x \in S : x \in Nat /\ x <= N /\ N - x \in Nat
  OBVIOUS
<1>1. D \in SUBSET Nat /\ D # {}
  BY <1>0
<1>2. PICK d \in D : \A e \in D : d <= e
  BY <1>1, NatLeast
<1>3. PICK x \in S : d = N - x
  OBVIOUS
<1>4. \A y \in S : N - x <= N - y
  BY <1>2, <1>3
<1>5. \A y \in S : x >= y
  BY <1>4
<1>6. Max(S) \in S /\ \A y \in S : Max(S) >= y
  BY <1>5 DEF Max
<1> QED  BY <1>6

\* The checkpoint of an account is its lowest pool's.
LEMMA LowestType ==
    ASSUME TypeOK, NEW a \in Accounts
    PROVE  /\ Lowest(a) \in 0 .. MaxHeight
           /\ \A p \in Pools(a) : Lowest(a) <= heights[a][p]
           /\ \E p \in Pools(a) : Lowest(a) = heights[a][p]
<1> DEFINE S == {heights[a][p] : p \in Pools(a)}
<1>1. heights[a] \in [Pools(a) -> 0 .. MaxHeight]
  BY DEF TypeOK
<1>2. Pools(a) # {}
  BY DEF Pools, Accounts
<1>3. S \in SUBSET Nat /\ S # {}
  BY <1>1, <1>2, SyncAssumption
<1>4. Min(S) \in S /\ \A y \in S : Min(S) <= y
  BY <1>3, MinLeast
<1>5. Lowest(a) = Min(S)
  BY DEF Lowest
<1> HIDE DEF S
<1>6. \A p \in Pools(a) : heights[a][p] \in S
  BY DEF S
<1>7. \E p \in Pools(a) : Min(S) = heights[a][p]
  BY <1>4 DEF S
<1> QED  BY <1>1, <1>4, <1>5, <1>6, <1>7

\* A rewind goes to 0 or to a height that has witnesses, below h.
LEMMA CheckpointType ==
    ASSUME TypeOK, NEW a \in Accounts, NEW h \in Nat
    PROVE  /\ CheckpointBefore(a, h) \in 0 .. MaxHeight
           /\ h > 0 => CheckpointBefore(a, h) < h
           /\ \/ CheckpointBefore(a, h) = 0
              \/ \E w \in witnesses[a] : w[2] = CheckpointBefore(a, h)
           /\ \A w \in witnesses[a] : w[2] < h => w[2] <= CheckpointBefore(a, h)
<1> DEFINE W == {x \in witnesses[a] : x[2] < h}
           S == {w[2] : w \in W} \cup {0}
<1>1. \A w \in witnesses[a] : w[2] \in 1 .. MaxHeight
  BY DEF TypeOK, Heights
<1>2. S \in SUBSET (0 .. MaxHeight) /\ S # {} /\ MaxHeight \in Nat
  BY <1>1, SyncAssumption
<1>3. Max(S) \in S /\ \A y \in S : y <= Max(S)
  BY <1>2, MaxGreatest
<1>4. CheckpointBefore(a, h) = Max(S)
  BY DEF CheckpointBefore
<1>5. Max(S) = 0 \/ \E w \in W : w[2] = Max(S)
  BY <1>3
<1>6. \A w \in witnesses[a] : w[2] < h => w[2] \in S
  OBVIOUS
<1> HIDE DEF S
<1>7. Max(S) \in 0 .. MaxHeight
  BY <1>2, <1>3
<1> QED  BY <1>3, <1>4, <1>5, <1>6, <1>7

\* The current range is the first of what is left of the plan.
LEMMA CurrentFirst ==
    ASSUME TypeOK, ranges # {}
    PROVE  Current \in ranges /\ \A o \in ranges : Current.start <= o.start
<1> DEFINE S == {r.start : r \in ranges}
<1>1. \A r \in ranges : r.start \in Nat
  BY SyncAssumption DEF TypeOK, Heights
<1>2. S \in SUBSET Nat /\ S # {}
  BY <1>1
<1>3. PICK x \in S : \A y \in S : x <= y
  BY <1>2, NatLeast
<1>4. PICK r \in ranges : r.start = x
  OBVIOUS
<1>5. \A o \in ranges : r.start <= o.start
  BY <1>3, <1>4
<1> QED  BY <1>5 DEF Current

-----------------------------------------------------------------------------
\* The plan.

\* Ranges do not overlap, an account that a range scans is in all the later
\* ones, and each range but the last is followed by the next height's.
Ordered(R, top) ==
    /\ \A r \in R : 1 <= r.start /\ r.start <= r.end /\ r.end <= top
    /\ \A r, o \in R : r.start = o.start => r = o
    /\ \A r, o \in R : r.start < o.start => r.end < o.start /\ r.accounts \subseteq o.accounts
    /\ \A r \in R : r.end = top \/ \E o \in R : o.start = r.end + 1

\* plan_sync: what a plan is, and which accounts are in it.
LEMMA PlanOrdered ==
    ASSUME TypeOK
    PROVE  /\ PlanSync \subseteq [start : Heights, end : Heights, accounts : SUBSET Accounts]
           /\ Ordered(PlanSync, target)
           /\ \A a \in accounts : Lowest(a) < target =>
                  \E r \in PlanSync : r.start = Lowest(a) + 1
           /\ \A r \in PlanSync : r.accounts = {a \in accounts : Lowest(a) < r.start}
           /\ \A r \in PlanSync : \E a \in accounts : r.start = Lowest(a) + 1
<1> DEFINE starts == {Lowest(a) + 1 : a \in accounts} \cap 1 .. target
           E(s) == {t - 1 : t \in {u \in starts : u > s}} \cup {target}
           range(s) == [start |-> s, end |-> Min(E(s)),
                        accounts |-> {a \in accounts : Lowest(a) < s}]
<1>1. PlanSync = {range(s) : s \in starts}
  BY DEF PlanSync
<1>2. target \in 0 .. MaxHeight /\ MaxHeight \in Nat /\ accounts \subseteq Accounts
  BY SyncAssumption DEF TypeOK
<1>3. \A a \in accounts : Lowest(a) \in 0 .. MaxHeight
  BY <1>2, LowestType
<1>4. \A s \in starts : s \in 1 .. target
  OBVIOUS
<1>5. ASSUME NEW s \in starts
      PROVE  /\ Min(E(s)) \in E(s)
             /\ \A y \in E(s) : Min(E(s)) <= y
             /\ Min(E(s)) \in s .. target
  <2>1. \A y \in E(s) : y \in s .. target
    BY <1>2, <1>4
  <2>2. E(s) \in SUBSET Nat /\ E(s) # {}
    BY <2>1, <1>2, <1>4
  <2> HIDE DEF E
  <2>3. Min(E(s)) \in E(s) /\ \A y \in E(s) : Min(E(s)) <= y
    BY <2>2, MinLeast
  <2> QED  BY <2>1, <2>3
<1>6. \A s \in starts : Min(E(s)) = target \/ Min(E(s)) + 1 \in starts
  <2> SUFFICES ASSUME NEW s \in starts PROVE Min(E(s)) = target \/ Min(E(s)) + 1 \in starts
    OBVIOUS
  <2>1. Min(E(s)) \in E(s)
    BY <1>5
  <2>2. CASE Min(E(s)) = target
    BY <2>2
  <2>3. CASE \E t \in starts : Min(E(s)) = t - 1
    <3>1. PICK t \in starts : Min(E(s)) = t - 1
      BY <2>3
    <3>2. t - 1 + 1 = t
      BY <1>2, <1>4
    <3> QED  BY <3>1, <3>2
  <2> QED  BY <2>1, <2>2, <2>3
<1>7. \A s, t \in starts : s < t => Min(E(s)) < t
  <2> SUFFICES ASSUME NEW s \in starts, NEW t \in starts, s < t PROVE Min(E(s)) < t
    OBVIOUS
  <2>1. t - 1 \in E(s)
    BY <1>2, <1>4
  <2>2. Min(E(s)) <= t - 1
    BY <1>5, <2>1
  <2>3. Min(E(s)) \in s .. target
    BY <1>5
  <2>4. s \in Nat /\ t \in Nat /\ target \in Nat
    BY <1>2, <1>4
  <2> HIDE DEF E
  <2> QED  BY <2>2, <2>3, <2>4
<1> HIDE DEF E
<1>8. \A a \in accounts : Lowest(a) < target => Lowest(a) + 1 \in starts
  BY <1>2, <1>3
<1>9. \A s \in starts : \E a \in accounts : s = Lowest(a) + 1
  OBVIOUS
<1> HIDE DEF starts
<1>10. \A s, t \in starts : s < t =>
          {a \in accounts : Lowest(a) < s} \subseteq {a \in accounts : Lowest(a) < t}
  BY <1>2, <1>3, <1>4
<1>11. PlanSync \subseteq [start : Heights, end : Heights, accounts : SUBSET Accounts]
  BY <1>1, <1>2, <1>4, <1>5 DEF Heights
<1>12. Ordered(PlanSync, target)
  <2>1. \A r \in PlanSync : 1 <= r.start /\ r.start <= r.end /\ r.end <= target
    BY <1>1, <1>2, <1>4, <1>5
  <2>2. \A r, o \in PlanSync : r.start = o.start => r = o
    BY <1>1
  <2>3. \A r, o \in PlanSync :
            r.start < o.start => r.end < o.start /\ r.accounts \subseteq o.accounts
    <3> SUFFICES ASSUME NEW r \in PlanSync, NEW o \in PlanSync, r.start < o.start
                 PROVE  r.end < o.start /\ r.accounts \subseteq o.accounts
      OBVIOUS
    <3>1. PICK s \in starts : r = range(s)
      BY <1>1
    <3>2. PICK t \in starts : o = range(t)
      BY <1>1
    <3>3. s < t
      BY <3>1, <3>2
    <3>4. Min(E(s)) < t
      BY <1>7, <3>3
    <3>5. {a \in accounts : Lowest(a) < s} \subseteq {a \in accounts : Lowest(a) < t}
      BY <1>10, <3>3
    <3>6. r.end = Min(E(s)) /\ o.start = t
      BY <3>1, <3>2
    <3>7. r.accounts = {a \in accounts : Lowest(a) < s}
      BY <3>1
    <3>8. o.accounts = {a \in accounts : Lowest(a) < t}
      BY <3>2
    <3> QED  BY <3>4, <3>5, <3>6, <3>7, <3>8
  <2>4. \A r \in PlanSync : r.end = target \/ \E o \in PlanSync : o.start = r.end + 1
    <3> SUFFICES ASSUME NEW r \in PlanSync, r.end # target
                 PROVE  \E o \in PlanSync : o.start = r.end + 1
      OBVIOUS
    <3>1. PICK s \in starts : r = range(s)
      BY <1>1
    <3>2. r.end = Min(E(s))
      BY <3>1
    <3>3. r.end + 1 \in starts
      BY <1>6, <3>2
    <3>4. range(r.end + 1) \in PlanSync /\ range(r.end + 1).start = r.end + 1
      BY <1>1, <3>3
    <3> QED  BY <3>4
  <2> QED  BY ONLY <2>1, <2>2, <2>3, <2>4 DEF Ordered
<1>13. \A a \in accounts : Lowest(a) < target => \E r \in PlanSync : r.start = Lowest(a) + 1
  <2> SUFFICES ASSUME NEW a \in accounts, Lowest(a) < target
               PROVE  \E r \in PlanSync : r.start = Lowest(a) + 1
    OBVIOUS
  <2>1. Lowest(a) + 1 \in starts
    BY <1>8
  <2>2. range(Lowest(a) + 1) \in PlanSync /\ range(Lowest(a) + 1).start = Lowest(a) + 1
    BY <1>1, <2>1
  <2> QED  BY <2>2
<1>14. \A r \in PlanSync : r.accounts = {a \in accounts : Lowest(a) < r.start}
  BY <1>1
<1>15. \A r \in PlanSync : \E a \in accounts : r.start = Lowest(a) + 1
  BY <1>1, <1>9
<1> QED  BY <1>11, <1>12, <1>13, <1>14, <1>15

\* The rest of a plan is a plan, and goes on where its first range ended.
LEMMA RestOrdered ==
    ASSUME TypeOK, ranges # {}, Ordered(ranges, target)
    PROVE  /\ Ordered(ranges \ {Current}, target)
           /\ \A o \in ranges \ {Current} : Current.start < o.start
           /\ Current.end = target \/ \E o \in ranges \ {Current} : o.start = Current.end + 1
<1>1. Current \in ranges /\ \A o \in ranges : Current.start <= o.start
  BY CurrentFirst
<1>2. \A r \in ranges : r.start \in Nat /\ r.end \in Nat
  BY SyncAssumption DEF TypeOK, Heights
<1>3. \A o \in ranges \ {Current} : Current.start < o.start
  BY <1>1, <1>2 DEF Ordered
<1>4. \A r \in ranges, o \in ranges : o.start = r.end + 1 => o # Current
  <2> SUFFICES ASSUME NEW r \in ranges, NEW o \in ranges, o.start = r.end + 1, o = Current
               PROVE  FALSE
    OBVIOUS
  <2>1. Current.start <= r.start /\ r.start <= r.end
    BY <1>1 DEF Ordered
  <2> QED  BY <1>2, <2>1
<1> QED  BY <1>1, <1>3, <1>4 DEF Ordered

\* What is in a sequence is of its type.
LEMMA ElementType ==
    ASSUME NEW S, NEW q \in Seq(S)
    PROVE  \A i \in 1 .. Len(q) : q[i] \in S
OBVIOUS

\* Appending leaves something.
LEMMA AppendNotEmpty ==
    ASSUME NEW S, NEW q \in Seq(S), NEW e
    PROVE  Append(q, e) # <<>>
<1> DEFINE T == S \cup {e}
<1>1. q \in Seq(T) /\ e \in T
  <2>1. Len(q) \in Nat /\ \A i \in 1 .. Len(q) : q[i] \in S
    BY ElementType
  <2>2. \A i \in 1 .. Len(q) : q[i] \in T
    BY <2>1
  <2>3. q = [i \in 1 .. Len(q) |-> q[i]]
    OBVIOUS
  <2> QED  BY <2>1, <2>2, <2>3
<1> HIDE DEF T
<1>2. Len(Append(q, e)) = Len(q) + 1 /\ Len(q) \in Nat
  BY <1>1
<1>3. Len(<<>>) = 0
  OBVIOUS
<1> QED  BY <1>2, <1>3

\* A part of a sequence is a sequence of the same type.
LEMMA SubSeqType ==
    ASSUME NEW S, NEW q \in Seq(S), NEW n \in Nat, n <= Len(q)
    PROVE  SubSeq(q, 1, n) \in Seq(S)
OBVIOUS

-----------------------------------------------------------------------------
\* The types and the control of a run.

TablesOK ==
    /\ DOMAIN heights = Accounts
    /\ \A a \in Accounts : heights[a] \in [Pools(a) -> 0 .. MaxHeight]
    /\ headers \in [Accounts -> SUBSET Blocks]
    /\ notes \in [Accounts -> SUBSET Blocks]
    /\ spends \in [Accounts -> SUBSET (Blocks \X Blocks)]
    /\ witnesses \in [Accounts -> SUBSET (Blocks \X Heights)]
    /\ scanned \in [Accounts -> [Addresses -> SUBSET Heights]]

\* Where a run is in its plan, its range and its chunk.
Control ==
    /\ Ordered(ranges, target)
    /\ pc \in {"idle", "prune", "recover"} => ranges = {}
    /\ pc \in {"prune", "recover"} => todo \subseteq accounts
    /\ pc \in {"transparent", "open", "scan"} => ranges # {}
    /\ pc = "transparent" => todo \subseteq (Current.accounts \cap Transparent) \X Addresses
    /\ pc \in {"open", "scan"} => from \in Current.start .. Current.end
    /\ pc = "scan" => Scanning \cap Shielded # {} /\ next \in from .. ChunkEnd + 1
    /\ read # <<>> => pc = "scan" /\ next > from /\ Last(read)[1] = next - 1

\* trim_to keeps the tables' types.
LEMMA TrimType ==
    ASSUME TypeOK, NEW as \in SUBSET Accounts, NEW to \in [as -> 0 .. MaxHeight], Trim(as, to)
    PROVE  TablesOK'
<1> USE DEF Trim
<1>1. headers' \in [Accounts -> SUBSET Blocks]
  BY DEF TypeOK
<1>2. notes' \in [Accounts -> SUBSET Blocks]
  BY DEF TypeOK
<1>3. spends' \in [Accounts -> SUBSET (Blocks \X Blocks)]
  BY DEF TypeOK
<1>4. witnesses' \in [Accounts -> SUBSET (Blocks \X Heights)]
  BY DEF TypeOK
<1>5. scanned' \in [Accounts -> [Addresses -> SUBSET Heights]]
  BY DEF TypeOK
<1>6. DOMAIN heights' = Accounts
  OBVIOUS
<1>7. \A a \in Accounts : heights'[a] \in [Pools(a) -> 0 .. MaxHeight]
  BY DEF TypeOK
<1> QED  BY <1>1, <1>2, <1>3, <1>4, <1>5, <1>6, <1>7 DEF TablesOK

\* Rewinding keeps the tables' types.
LEMMA RewindType ==
    ASSUME TypeOK, NEW as \in SUBSET Accounts, NEW h \in Nat, Rewind(as, h)
    PROVE  TablesOK'
<1> DEFINE to == [a \in as |-> CheckpointBefore(a, h)]
<1>1. to \in [as -> 0 .. MaxHeight]
  BY CheckpointType
<1>2. Trim(as, to)
  BY DEF Rewind
<1> HIDE DEF to
<1> QED  BY <1>1, <1>2, TrimType

\* The chunk is a part of the current range.
LEMMA ChunkInRange ==
    ASSUME TypeOK, ranges # {}, from \in Current.start .. Current.end
    PROVE  /\ Current \in ranges
           /\ Current.start \in Heights /\ Current.end \in Heights
           /\ Current.accounts \subseteq Accounts
           /\ ChunkEnd \in from .. Current.end
<1>1. Current \in ranges
  BY CurrentFirst
<1>2. Current.start \in Heights /\ Current.end \in Heights /\ Current.accounts \subseteq Accounts
  BY <1>1 DEF TypeOK
<1> DEFINE S == {from + ChunkSize - 1, Current.end}
<1>3. from \in Nat /\ Current.end \in Nat /\ ChunkSize \in Nat \ {0}
  BY <1>2, SyncAssumption DEF TypeOK, Heights
<1>4. S \in SUBSET Nat /\ S # {}
  BY <1>3
<1>5. Min(S) \in S /\ \A y \in S : Min(S) <= y
  BY <1>4, MinLeast
<1>6. Min(S) \in from .. Current.end
  BY <1>3, <1>5
<1> QED  BY <1>1, <1>2, <1>6 DEF ChunkEnd

\* A run that is over is idle.
LEMMA RunOverControl ==
    ASSUME RunOver
    PROVE  Control'
<1>1. ranges' = {} /\ pc' = "idle" /\ read' = <<>>
  BY DEF RunOver, ScanOver
<1> QED  BY <1>1 DEF Control, Ordered

\* What a run does not change keeps its types.
LEMMA RunOverType ==
    ASSUME TypeOK, RunOver, TablesOK', UNCHANGED <<chain, stems>>,
           outcome' \in {"none", "synced", "cancelled", "failed", "gaveup", "clash"}
    PROVE  TypeOK'
<1> USE SyncAssumption DEF RunOver, ScanOver
<1>1. chain' \in Seq(0 .. MaxBranch) /\ Len(chain') \in Heights
  BY DEF TypeOK
<1>2. stems' \in Seq(Seq(0 .. MaxBranch)) /\ Len(stems') <= MaxBranch
  BY DEF TypeOK
<1>3. pc' \in Phases /\ accounts' \subseteq Accounts /\ target' \in 0 .. MaxHeight
  BY DEF Phases
<1>4. ranges' \subseteq [start : Heights, end : Heights, accounts : SUBSET Accounts]
  OBVIOUS
<1>5. from' \in 0 .. MaxHeight /\ next' \in 0 .. MaxHeight + 1
  OBVIOUS
<1>6. read' \in Seq(Blocks) /\ prev' \subseteq Blocks
  OBVIOUS
<1>7. reorgAt' \in 1 .. NoReorg /\ cancelled' \in BOOLEAN
  <2>1. NoReorg \in 1 .. NoReorg
    BY DEF NoReorg
  <2>2. FALSE \in BOOLEAN
    OBVIOUS
  <2> QED  BY <2>1, <2>2, Zenon
<1>8. tracked' \in [Accounts -> SUBSET Blocks]
  BY DEF Nothing
<1>9. outcome' \in {"none", "synced", "cancelled", "failed", "gaveup", "clash"}
  OBVIOUS
<1> HIDE DEF RunOver, ScanOver
<1> QED  BY <1>1, <1>2, <1>3, <1>4, <1>5, <1>6, <1>7, <1>8, <1>9, Zenon DEF TypeOK, TablesOK

\* While the plan does not change, neither does the current range.
LEMMA SameRange ==
    ASSUME ranges' = ranges
    PROVE  Current' = Current /\ Scanning' = Scanning
<1>1. Current' = Current
  BY DEF Current
<1> QED  BY <1>1 DEF Scanning

\* A rewind ends below the block it rewinds from, for an account with a pool.
LEMMA RewindLowest ==
    ASSUME TypeOK, NEW as \in SUBSET Accounts, as # {}, NEW h \in Nat, Rewind(as, h)
    PROVE  LET low == Min(UNION {{heights'[a][p] : p \in Pools(a)} : a \in as})
           IN  low \in 0 .. MaxHeight /\ (h > 0 => low < h) /\ (h = 0 => low = 0)
<1> DEFINE V(a) == {heights'[a][p] : p \in Pools(a)}
           U == UNION {V(a) : a \in as}
<1>2. \A a \in as : \A p \in Pools(a) : heights'[a][p] = CheckpointBefore(a, h)
  <2> DEFINE to == [a \in as |-> CheckpointBefore(a, h)]
  <2>1. Trim(as, to)
    BY DEF Rewind
  <2>2. \A a \in as : to[a] = CheckpointBefore(a, h)
    OBVIOUS
  <2> HIDE DEF to
  <2>3. \A a \in as : heights'[a] = [p \in Pools(a) |-> to[a]]
    BY <2>1 DEF Trim
  <2>4. \A a \in as : \A p \in Pools(a) : heights'[a][p] = to[a]
    BY <2>3
  <2> QED  BY <2>2, <2>4
<1>3. \A a \in as : Pools(a) # {}
  BY DEF Pools, Accounts
<1>4. \A a \in as : CheckpointBefore(a, h) \in 0 .. MaxHeight /\ (h > 0 => CheckpointBefore(a, h) < h)
  BY CheckpointType
<1>5. \A a \in as : h = 0 => CheckpointBefore(a, h) = 0
  <2> SUFFICES ASSUME NEW a \in as, h = 0 PROVE CheckpointBefore(a, h) = 0
    OBVIOUS
  <2>0. a \in Accounts
    OBVIOUS
  <2>1. \A w \in witnesses[a] : w[2] \in 1 .. MaxHeight
    BY <2>0 DEF TypeOK, Heights
  <2>2. CheckpointBefore(a, h) = 0 \/ \E w \in witnesses[a] : w[2] = CheckpointBefore(a, h) /\ w[2] < h
    <3>1. {w[2] : w \in {x \in witnesses[a] : x[2] < h}} = {}
      BY <2>1, SyncAssumption
    <3>2. {w[2] : w \in {x \in witnesses[a] : x[2] < h}} \cup {0} = {0}
      BY <3>1
    <3>3. Max({0}) \in {0}
      BY MaxGreatest
    <3> QED  BY <3>2, <3>3 DEF CheckpointBefore
  <2> QED  BY <2>1, <2>2, SyncAssumption
<1>6. \A u \in U : u \in 0 .. MaxHeight /\ (h > 0 => u < h) /\ (h = 0 => u = 0)
  <2> SUFFICES ASSUME NEW u \in U
               PROVE  u \in 0 .. MaxHeight /\ (h > 0 => u < h) /\ (h = 0 => u = 0)
    OBVIOUS
  <2>1. PICK a \in as : u \in V(a)
    OBVIOUS
  <2>2. u = CheckpointBefore(a, h)
    BY <1>2, <2>1
  <2> QED  BY <1>4, <1>5, <2>2
<1>7. U \in SUBSET Nat /\ U # {}
  <2>1. PICK a \in as : TRUE
    OBVIOUS
  <2>2. PICK p \in Pools(a) : TRUE
    BY <1>3
  <2>3. heights'[a][p] \in V(a)
    BY <2>2
  <2>4. V(a) \in {V(c) : c \in as}
    BY <2>1
  <2> HIDE DEF V
  <2>5. U # {}
    BY <2>3, <2>4
  <2>6. MaxHeight \in Nat
    BY SyncAssumption
  <2> HIDE DEF U
  <2> QED  BY <1>6, <2>5, <2>6
<1>8. Min(U) \in U
  BY <1>7, MinLeast
<1> HIDE DEF U
<1>9. Min(U) \in 0 .. MaxHeight /\ (h > 0 => Min(U) < h) /\ (h = 0 => Min(U) = 0)
  BY <1>6, <1>8
<1> QED  BY <1>9 DEF U

\* Where the scan starts again after a reorg: in its range, at or below the
\* block that did not connect.
LEMMA RestartInRange ==
    ASSUME TypeOK, Control, pc = "scan", next <= ChunkEnd, Rewind(Scanning, next - 1)
    PROVE  LET lowest == Min(UNION {{heights'[a][p] : p \in Pools(a)} : a \in Scanning})
               again == Max({lowest + 1, Current.start})
           IN  again \in Current.start .. Current.end /\ again <= next
<1>1. ranges # {} /\ from \in Current.start .. Current.end /\ next \in from .. ChunkEnd + 1
  BY DEF Control
<1>2. /\ Current.start \in Heights /\ Current.end \in Heights
      /\ ChunkEnd \in from .. Current.end /\ Scanning \subseteq Accounts
  BY <1>1, ChunkInRange DEF Scanning
<1>3. Scanning # {}
  BY DEF Control
<1>4. next \in Nat /\ next >= 1 /\ next - 1 \in Nat /\ next <= Current.end /\ Current.start <= next
  BY <1>1, <1>2, SyncAssumption DEF Heights
<1> DEFINE lowest == Min(UNION {{heights'[a][p] : p \in Pools(a)} : a \in Scanning})
           S == {lowest + 1, Current.start}
<1>5. /\ lowest \in 0 .. MaxHeight
      /\ next - 1 > 0 => lowest < next - 1
      /\ next - 1 = 0 => lowest = 0
  BY <1>2, <1>3, <1>4, RewindLowest
<1> HIDE DEF lowest
<1>6. S \in SUBSET (0 .. (MaxHeight + 1)) /\ S # {} /\ MaxHeight + 1 \in Nat
  BY <1>2, <1>5, SyncAssumption DEF Heights
<1>7. Max(S) \in S /\ \A y \in S : y <= Max(S)
  BY <1>6, MaxGreatest
<1>8. lowest + 1 <= next /\ lowest + 1 \in Nat
  BY <1>4, <1>5
<1>9. Max(S) \in Current.start .. Current.end /\ Max(S) <= next
  BY <1>2, <1>4, <1>7, <1>8 DEF Heights
<1> QED  BY <1>9 DEF lowest

\* A run keeps the types.
LEMMA RunTypes ==
    ASSUME TypeOK, Control, RunStep
    PROVE  TypeOK'
<1>0. MaxHeight \in Nat \ {0} /\ MaxBranch \in Nat
  BY SyncAssumption
<1>t. TablesOK
  BY DEF TypeOK, TablesOK
<1>1. ASSUME NEW a \in Accounts, Prune(a) PROVE TypeOK'
  <2>1. witnesses' \in [Accounts -> SUBSET (Blocks \X Heights)]
    BY <1>1 DEF Prune, TypeOK
  <2>2. pc' \in Phases
    BY <1>1 DEF Prune, Phases
  <2>3. UNCHANGED <<chain, stems, heights, headers, notes, spends, scanned, accounts,
                    target, ranges, scan, cancelled, outcome>>
    BY <1>1 DEF Prune
  <2> QED  BY <2>1, <2>2, <2>3 DEF TypeOK, scan
<1>2. ASSUME NEW a \in Accounts, Recover(a) PROVE TypeOK'
  <2> DEFINE to == [b \in {a} |-> Lowest(b)]
  <2>1. Trim({a}, to)
    BY <1>2 DEF Recover
  <2>2. to \in [{a} -> 0 .. MaxHeight]
    BY LowestType
  <2> HIDE DEF to
  <2>3. TablesOK'
    BY <2>1, <2>2, TrimType
  <2>4. UNCHANGED <<chain, stems, pc, accounts, target, ranges, scan, cancelled, outcome>>
    BY <1>2 DEF Recover
  <2> QED  BY <2>3, <2>4 DEF TypeOK, TablesOK, scan
<1>3. ASSUME Plan PROVE TypeOK'
  <2>1. ranges' \subseteq [start : Heights, end : Heights, accounts : SUBSET Accounts]
    BY <1>3, PlanOrdered DEF Plan
  <2>2. pc' \in Phases
    BY <1>3 DEF Plan, Phases
  <2> QED  BY <1>3, <2>1, <2>2 DEF Plan, TypeOK, tables, scan
<1>4. ASSUME StartRange PROVE TypeOK'
  <2>1. pc' \in Phases
    BY <1>4 DEF StartRange, Phases
  <2> QED  BY <1>4, <2>1 DEF StartRange, TypeOK, tables, scan
<1>5. ASSUME NEW a \in Transparent, NEW x \in Addresses, ScanAddress(a, x) PROVE TypeOK'
  <2>1. a \in Accounts /\ "T" \in Pools(a)
    BY DEF Accounts, Pools
  <2>2. Current \in ranges
    BY <1>5, CurrentFirst DEF ScanAddress, Control
  <2>3. Current.start \in Heights /\ Current.end \in Heights
    BY <2>2 DEF TypeOK
  <2>4. Current.start .. Current.end \subseteq Heights
    BY <1>0, <2>3 DEF Heights
  <2>5. scanned' \in [Accounts -> [Addresses -> SUBSET Heights]]
    <3>1. scanned[a] \in [Addresses -> SUBSET Heights]
      BY <2>1 DEF TypeOK
    <3>2. scanned[a][x] \cup Current.start .. Current.end \in SUBSET Heights
      BY <2>4, <3>1
    <3> DEFINE more == scanned[a][x] \cup Current.start .. Current.end
    <3>3. scanned' = [scanned EXCEPT ![a][x] = more]
      BY <1>5 DEF ScanAddress
    <3> HIDE DEF more
    <3>4. more \in SUBSET Heights
      BY <3>2 DEF more
    <3> QED  BY <3>1, <3>3, <3>4 DEF TypeOK
  <2>6. DOMAIN heights' = Accounts
    BY <1>5 DEF ScanAddress, TypeOK
  <2>7. \A b \in Accounts : heights'[b] \in [Pools(b) -> 0 .. MaxHeight]
    <3>1. heights' = [heights EXCEPT ![a] = [@ EXCEPT !["T"] = Current.end]]
      BY <1>5 DEF ScanAddress
    <3>2. Current.end \in 0 .. MaxHeight
      BY <1>0, <2>3 DEF Heights
    <3> QED  BY <2>1, <3>1, <3>2 DEF TypeOK
  <2> QED  BY <1>5, <2>5, <2>6, <2>7 DEF ScanAddress, TypeOK, scan
<1>6. ASSUME EndTransparent PROVE TypeOK'
  <2>1. Current \in ranges
    BY <1>6, CurrentFirst DEF EndTransparent, Control
  <2>2. from' \in 0 .. MaxHeight
    BY <1>0, <1>6, <2>1 DEF EndTransparent, TypeOK, Heights
  <2>3. reorgAt' \in 1 .. NoReorg
    BY <1>0, <1>6 DEF EndTransparent, NoReorg
  <2>4. pc' \in Phases
    BY <1>6 DEF EndTransparent, Phases
  <2> QED  BY <1>6, <2>2, <2>3, <2>4 DEF EndTransparent, TypeOK, tables
<1>7. ASSUME SkipRange \/ EndRange PROVE TypeOK'
  <2>1. /\ from' = 0 /\ next' = 0 /\ read' = <<>> /\ prev' = {} /\ tracked' = Nothing
        /\ reorgAt' = NoReorg /\ pc' = "range" /\ ranges' \subseteq ranges
    BY <1>7 DEF SkipRange, EndRange, ScanOver
  <2>2. UNCHANGED <<chain, stems, tables, accounts, target, todo, cancelled, outcome>>
    BY <1>7 DEF SkipRange, EndRange
  <2>3. reorgAt' \in 1 .. NoReorg
    BY <1>0, <2>1 DEF NoReorg
  <2>4. tracked' \in [Accounts -> SUBSET Blocks]
    BY <2>1 DEF Nothing
  <2>5. from' \in 0 .. MaxHeight /\ next' \in 0 .. MaxHeight + 1
    BY <1>0, <2>1
  <2>6. pc' \in Phases
    BY <2>1 DEF Phases
  <2>7. read' \in Seq(Blocks) /\ prev' \subseteq Blocks
    BY <2>1
  <2> QED  BY <2>1, <2>2, <2>3, <2>4, <2>5, <2>6, <2>7 DEF TypeOK, tables
<1>8. ASSUME OpenScan PROVE TypeOK'
  <2>1. pc = "open" /\ ranges # {} /\ from \in Current.start .. Current.end
    BY <1>8 DEF OpenScan, Control
  <2>2. from \in Heights
    BY <1>0, <2>1, ChunkInRange DEF Heights
  <2>3. tracked' \in [Accounts -> SUBSET Blocks]
    <3>1. \A a \in Accounts : Trackable(a) \subseteq Blocks
      BY DEF Trackable, TypeOK
    <3> QED  BY <1>8, <3>1 DEF OpenScan
  <2>4. prev' \subseteq Blocks
    <3>1. Scanning \subseteq Accounts
      BY <2>1, ChunkInRange DEF Scanning
    <3> QED  BY <1>8, <3>1 DEF OpenScan, TypeOK
  <2>5. next' \in 0 .. MaxHeight + 1
    BY <1>0, <1>8, <2>2 DEF OpenScan, Heights
  <2>6. pc' \in Phases
    BY <1>8 DEF OpenScan, Phases
  <2>7. read' \in Seq(Blocks)
    BY <1>8 DEF OpenScan
  <2> QED  BY <1>8, <2>3, <2>4, <2>5, <2>6, <2>7 DEF OpenScan, TypeOK, tables
<1>9. ASSUME ReadBlock PROVE TypeOK'
  <2>1. ranges # {} /\ from \in Current.start .. Current.end /\ next \in from .. ChunkEnd + 1
    BY <1>9 DEF ReadBlock, Control
  <2>2. next \in Heights /\ next <= Len(chain)
    <3>1. ChunkEnd \in from .. Current.end /\ Current.start \in Heights /\ Current.end \in Heights
      BY <2>1, ChunkInRange
    <3> QED  BY <1>0, <1>9, <2>1, <3>1 DEF ReadBlock, Heights
  <2>3. chain[next] \in 0 .. MaxBranch
    BY <1>0, <2>2 DEF TypeOK, Heights
  <2>4. Block(next) \in Blocks
    BY <2>2, <2>3 DEF Block, Blocks
  <2>5. read' \in Seq(Blocks) /\ prev' \subseteq Blocks
    BY <1>9, <2>4 DEF ReadBlock, TypeOK
  <2>6. next' \in 0 .. MaxHeight + 1
    BY <1>0, <1>9, <2>2 DEF ReadBlock, Heights
  <2> QED  BY <1>9, <2>5, <2>6 DEF ReadBlock, TypeOK, tables
<1>10. ASSUME NextChunk PROVE TypeOK'
  <2>1. ranges # {} /\ from \in Current.start .. Current.end
    BY <1>10 DEF NextChunk, Control
  <2>2. ChunkEnd \in from .. Current.end /\ Current.start \in Heights /\ Current.end \in Heights
    BY <2>1, ChunkInRange
  <2>3. from' \in 0 .. MaxHeight
    BY <1>0, <1>10, <2>1, <2>2 DEF NextChunk, Heights
  <2>4. pc' \in Phases
    BY <1>10 DEF NextChunk, Phases
  <2>5. UNCHANGED <<chain, stems, tables, accounts, target, todo, ranges, next, read, prev,
                    tracked, reorgAt, cancelled, outcome>>
    BY <1>10 DEF NextChunk
  <2> QED  BY <2>3, <2>4, <2>5 DEF TypeOK, tables
<1>11. ASSUME Commit PROVE TypeOK'
  <2>1. pc = "scan" /\ read # <<>> /\ UNCHANGED <<chain, stems>>
    BY <1>11 DEF Commit
  <2>2. ranges # {} /\ from \in Current.start .. Current.end
    BY <2>1 DEF Control
  <2>3. Scanning \subseteq Accounts
    BY <2>2, ChunkInRange DEF Scanning
  <2>4. Last(read) \in Blocks /\ Last(read)[1] \in Heights
    <3>1. read \in Seq(Blocks)
      BY DEF TypeOK
    <3>2. Len(read) \in 1 .. Len(read)
      BY <2>1, <3>1
    <3>3. Last(read) = read[Len(read)]
      BY DEF Last
    <3> QED  BY <3>1, <3>2, <3>3 DEF Blocks
  <2>5. \A a \in Accounts : NewNotes(a) \subseteq ToSet(read) /\ ToSet(read) \subseteq Blocks
    BY DEF NewNotes, ToSet, TypeOK
  <2> DEFINE as == Scanning \cap Shielded
             h == Last(read)[1]
             mine == [a \in Accounts |-> IF a \in as THEN tracked[a] \cup NewNotes(a) ELSE {}]
             gone == [a \in Accounts |-> NewSpends(a, mine[a])]
  <2>6. \A a \in Accounts : mine[a] \subseteq Blocks
    BY <2>5 DEF TypeOK
  <2>7. \A a \in Accounts : gone[a] \subseteq Blocks \X Blocks
    BY <2>5, <2>6 DEF NewSpends
  <2>8. CASE Clash(as)
    <3>1. EndsAs("clash") /\ RunOver /\ UNCHANGED tables
      BY <1>11, <2>8 DEF Commit
    <3>2. TablesOK'
      BY <1>t, <3>1 DEF TablesOK, tables
    <3>3. outcome' \in {"none", "synced", "cancelled", "failed", "gaveup", "clash"}
      BY <3>1 DEF EndsAs
    <3> QED  BY <2>1, <3>1, <3>2, <3>3, RunOverType
  <2>9. CASE ~Clash(as)
    <3>0. /\ notes' = [a \in Accounts |-> notes[a] \cup (mine[a] \ tracked[a])]
          /\ witnesses' = [a \in Accounts |-> witnesses[a] \cup mine[a] \X {h}]
          /\ spends' = [a \in Accounts |-> spends[a] \cup gone[a]]
          /\ tracked' = [a \in Accounts |-> mine[a] \ {s[1] : s \in gone[a]}]
          /\ heights' = [a \in Accounts |->
                IF a \in as THEN [heights[a] EXCEPT !["S"] = h] ELSE heights[a]]
          /\ \E rel \in [Accounts -> BOOLEAN] : headers' = [a \in Accounts |->
                IF rel[a] THEN headers[a] \cup {Last(read)} ELSE headers[a]]
          /\ read' = <<>>
          /\ UNCHANGED <<scanned, pc, accounts, target, todo, ranges, from, next, prev,
                         reorgAt, cancelled, outcome>>
      <4> DEFINE relevant(a) == /\ a \in Scanning
                                /\ \A b \in headers[a] : b[1] # h
                                /\ a \in as \/ heights[a]["T"] = h
                 rel == [a \in Accounts |-> relevant(a)]
      <4>1. headers' = [a \in Accounts |->
                          IF relevant(a) THEN headers[a] \cup {Last(read)} ELSE headers[a]]
        BY <1>11, <2>9 DEF Commit
      <4>2. rel \in [Accounts -> BOOLEAN] /\ \A a \in Accounts : rel[a] = relevant(a)
        BY Zenon
      <4> HIDE DEF relevant, rel
      <4>3. headers' = [a \in Accounts |->
                          IF rel[a] THEN headers[a] \cup {Last(read)} ELSE headers[a]]
        BY <4>1, <4>2
      <4> QED  BY <1>11, <2>9, <4>2, <4>3 DEF Commit
    <3> HIDE DEF mine, gone
    <3>1. notes' \in [Accounts -> SUBSET Blocks]
      BY <2>6, <3>0 DEF TypeOK
    <3>2. witnesses' \in [Accounts -> SUBSET (Blocks \X Heights)]
      BY <2>4, <2>6, <3>0 DEF TypeOK
    <3>3. spends' \in [Accounts -> SUBSET (Blocks \X Blocks)]
      BY <2>7, <3>0 DEF TypeOK
    <3>4. tracked' \in [Accounts -> SUBSET Blocks]
      BY <2>6, <3>0
    <3>5. DOMAIN heights' = Accounts
      BY <3>0
    <3>6. \A a \in Accounts : heights'[a] \in [Pools(a) -> 0 .. MaxHeight]
      <4>1. h \in 0 .. MaxHeight
        BY <1>0, <2>4 DEF Heights
      <4> HIDE DEF h, as
      <4> QED  BY <3>0, <4>1 DEF TypeOK
    <3>7. headers' \in [Accounts -> SUBSET Blocks]
      BY <2>4, <3>0 DEF TypeOK
    <3>8. read' \in Seq(Blocks)
      BY <3>0
    <3>9. UNCHANGED <<scanned, pc, accounts, target, todo, ranges, from, next, prev,
                      reorgAt, cancelled, outcome>>
      BY <3>0
    <3> QED  BY <2>1, <3>1, <3>2, <3>3, <3>4, <3>5, <3>6, <3>7, <3>8, <3>9 DEF TypeOK
  <2> QED  BY <2>8, <2>9, Zenon
<1>12. ASSUME DetectReorg PROVE TypeOK'
  <2> DEFINE lowest == Min(UNION {{heights'[a][p] : p \in Pools(a)} : a \in Scanning})
             again == Max({lowest + 1, Current.start})
  <2>1. /\ pc = "scan" /\ next <= ChunkEnd /\ Rewind(Scanning, next - 1)
        /\ UNCHANGED <<chain, stems>>
        /\ \/ /\ next < reorgAt /\ reorgAt' = next /\ from' = again
              /\ read' = <<>> /\ pc' = "open"
              /\ UNCHANGED <<accounts, target, todo, ranges, next, prev, tracked, cancelled,
                             outcome>>
           \/ EndsAs("gaveup") /\ RunOver
    BY <1>12 DEF DetectReorg
  <2>2. ranges # {} /\ from \in Current.start .. Current.end /\ next \in from .. ChunkEnd + 1
    BY <2>1 DEF Control
  <2>3. /\ Current.start \in Heights /\ Current.end \in Heights
        /\ ChunkEnd \in from .. Current.end /\ Scanning \subseteq Accounts
    BY <2>2, ChunkInRange DEF Scanning
  <2>4. next \in 1 .. MaxHeight /\ next - 1 \in Nat
    BY <1>0, <2>1, <2>2, <2>3 DEF Heights
  <2>5. TablesOK'
    BY <2>1, <2>3, <2>4, RewindType
  <2>6. again \in Current.start .. Current.end
    BY <2>1, RestartInRange
  <2>7. again \in 0 .. MaxHeight
    BY <1>0, <2>3, <2>6 DEF Heights
  <2> HIDE DEF again
  <2>8. CASE EndsAs("gaveup") /\ RunOver
    <3>1. outcome' \in {"none", "synced", "cancelled", "failed", "gaveup", "clash"}
      BY <2>8 DEF EndsAs
    <3> QED  BY <2>1, <2>5, <2>8, <3>1, RunOverType
  <2>9. CASE /\ next < reorgAt /\ reorgAt' = next /\ from' = again
             /\ read' = <<>> /\ pc' = "open"
             /\ UNCHANGED <<accounts, target, todo, ranges, next, prev, tracked, cancelled,
                            outcome>>
    <3>1. reorgAt' \in 1 .. NoReorg
      BY <1>0, <2>4, <2>9 DEF NoReorg
    <3>2. pc' \in Phases
      BY <2>9 DEF Phases
    <3>3. read' \in Seq(Blocks)
      BY <2>9
    <3>4. from' \in 0 .. MaxHeight
      BY <2>7, <2>9
    <3>5. UNCHANGED <<chain, stems, accounts, target, todo, ranges, next, prev, tracked,
                      cancelled, outcome>>
      BY <2>1, <2>9
    <3> QED  BY <2>5, <3>1, <3>2, <3>3, <3>4, <3>5 DEF TypeOK, TablesOK
  <2> QED  BY <2>1, <2>8, <2>9
<1>13. ASSUME Finish \/ Stop PROVE TypeOK'
  <2>1. RunOver /\ UNCHANGED <<chain, stems, tables>>
    BY <1>13 DEF Finish, Stop
  <2>2. outcome' \in {"none", "synced", "cancelled", "failed", "gaveup", "clash"}
    BY <1>13 DEF Finish, Stop, EndsAs
  <2>3. TablesOK'
    BY <1>t, <2>1 DEF TablesOK, tables
  <2> QED  BY <2>1, <2>2, <2>3, RunOverType
<1> QED
  BY <1>1, <1>2, <1>3, <1>4, <1>5, <1>6, <1>7, <1>8, <1>9, <1>10, <1>11, <1>12, <1>13
     DEF RunStep

\* The server and the user keep the types.
LEMMA OutsideTypes ==
    ASSUME TypeOK,
           \/ Mine \/ \E h \in Heights : Reorganize(h)
           \/ \E as \in SUBSET Accounts \ {{}} : StartSync(as)
           \/ \E a \in Accounts, h \in RewindHeights : UserRewind(a, h)
           \/ Cancel \/ Abort
    PROVE  TypeOK'
<1>0. MaxHeight \in Nat \ {0} /\ MaxBranch \in Nat
  BY SyncAssumption
<1>1. ASSUME Mine PROVE TypeOK'
  <2>1. Len(stems) \in 0 .. MaxBranch
    BY <1>0 DEF TypeOK
  <2>2. chain' \in Seq(0 .. MaxBranch) /\ Len(chain') \in Heights
    BY <1>0, <1>1, <2>1 DEF Mine, TypeOK, Heights
  <2> QED  BY <1>1, <2>2 DEF Mine, TypeOK, tables, scan
<1>2. ASSUME NEW h \in Heights, Reorganize(h) PROVE TypeOK'
  <2> DEFINE k == Len(chain) + 1
  <2>1. /\ Len(stems) < MaxBranch /\ h < k /\ k <= MaxHeight
        /\ stems' = Append(stems, SubSeq(chain, 1, h - 1))
        /\ chain' = [i \in 1 .. k |-> IF i < h THEN chain[i] ELSE Len(stems) + 1]
        /\ UNCHANGED <<tables, pc, accounts, target, todo, ranges, scan, cancelled, outcome>>
    BY <1>2 DEF Reorganize
  <2>2. h \in Nat /\ h >= 1 /\ k \in Nat /\ Len(chain) \in Nat /\ Len(stems) \in Nat
    BY <1>0 DEF TypeOK, Heights
  <2>3. chain' \in Seq(0 .. MaxBranch) /\ Len(chain') \in Heights
    <3>1. \A i \in 1 .. k : (IF i < h THEN chain[i] ELSE Len(stems) + 1) \in 0 .. MaxBranch
      <4>1. \A i \in 1 .. k : i < h => i \in 1 .. Len(chain)
        BY <2>1, <2>2
      <4>2. \A i \in 1 .. Len(chain) : chain[i] \in 0 .. MaxBranch
        <5>1. chain \in Seq(0 .. MaxBranch)
          BY DEF TypeOK
        <5> QED  BY <5>1, ElementType, Zenon
      <4>3. Len(stems) + 1 \in 0 .. MaxBranch
        BY <1>0, <2>1, <2>2
      <4> QED  BY ONLY <4>1, <4>2, <4>3
    <3> DEFINE f(i) == IF i < h THEN chain[i] ELSE Len(stems) + 1
    <3> HIDE DEF f, k
    <3>2. [i \in 1 .. k |-> f(i)] \in Seq(0 .. MaxBranch) /\ Len([i \in 1 .. k |-> f(i)]) = k
      <4>1. \A i \in 1 .. k : f(i) \in 0 .. MaxBranch
        BY <3>1 DEF f
      <4> QED  BY <2>2, <4>1
    <3>3. chain' = [i \in 1 .. k |-> f(i)]
      BY <2>1 DEF f
    <3>4. k \in Heights
      BY <1>0, <2>1, <2>2 DEF Heights, k
    <3> QED  BY <3>2, <3>3, <3>4
  <2>4. SubSeq(chain, 1, h - 1) \in Seq(0 .. MaxBranch)
    <3>1. h - 1 \in Nat /\ h - 1 <= Len(chain)
      BY <2>1, <2>2
    <3>2. chain \in Seq(0 .. MaxBranch)
      BY DEF TypeOK
    <3> QED  BY <3>1, <3>2, SubSeqType
  <2>5. stems' \in Seq(Seq(0 .. MaxBranch)) /\ Len(stems') <= MaxBranch
    BY <1>0, <2>1, <2>2, <2>4 DEF TypeOK
  <2> QED  BY <2>1, <2>3, <2>5 DEF TypeOK, tables, scan
<1>3. ASSUME NEW as \in SUBSET Accounts \ {{}}, StartSync(as) PROVE TypeOK'
  <2>1. target' \in 0 .. MaxHeight
    BY <1>0, <1>3 DEF StartSync, TypeOK, Heights
  <2>2. pc' \in Phases /\ accounts' \subseteq Accounts
    BY <1>3 DEF StartSync, Phases
  <2> QED  BY <1>3, <2>1, <2>2 DEF StartSync, TypeOK, tables, scan
<1>4. ASSUME NEW a \in Accounts, NEW h \in RewindHeights, UserRewind(a, h) PROVE TypeOK'
  <2>1. h \in Nat
    BY SyncAssumption DEF Heights
  <2>2. TablesOK'
    BY <1>4, <2>1, RewindType DEF UserRewind
  <2> QED  BY <1>4, <2>2 DEF UserRewind, TypeOK, TablesOK, scan
<1>5. ASSUME Cancel PROVE TypeOK'
  BY <1>5 DEF Cancel, TypeOK, tables, scan
<1>6. ASSUME Abort PROVE TypeOK'
  <2>1. outcome' \in {"none", "synced", "cancelled", "failed", "gaveup", "clash"}
    BY <1>6 DEF Abort, EndsAs
  <2>2. TablesOK'
    BY <1>6 DEF Abort, TypeOK, TablesOK, tables
  <2> QED  BY <1>6, <2>1, <2>2, RunOverType DEF Abort
<1> QED  BY <1>1, <1>2, <1>3, <1>4, <1>5, <1>6

\* While the chunk does not change, neither does its end.
LEMMA SameChunk ==
    ASSUME ranges' = ranges, from' = from
    PROVE  ChunkEnd' = ChunkEnd
BY SameRange DEF ChunkEnd

\* Steps outside the run's plan keep the control.
LEMMA SameControl ==
    ASSUME Control, UNCHANGED <<pc, accounts, target, todo, ranges, scan>>
    PROVE  Control'
<1>1. Current' = Current /\ Scanning' = Scanning /\ ChunkEnd' = ChunkEnd
  BY SameRange, SameChunk DEF scan
<1> QED  BY <1>1 DEF Control, Ordered, scan

\* Every step keeps the control.
LEMMA StepControl ==
    ASSUME TypeOK, Control, Next
    PROVE  Control'
<1>1. ASSUME \/ Mine \/ \E h \in Heights : Reorganize(h)
             \/ \E a \in Accounts, h \in RewindHeights : UserRewind(a, h)
             \/ Cancel
      PROVE  Control'
  <2>1. UNCHANGED <<pc, accounts, target, todo, ranges, scan>>
    BY <1>1 DEF Mine, Reorganize, UserRewind, Cancel
  <2> QED  BY <2>1, SameControl
<1>2. ASSUME NEW as \in SUBSET Accounts \ {{}}, StartSync(as) PROVE Control'
  <2>1. pc = "idle" /\ pc' = "prune" /\ accounts' = as /\ todo' = as /\ ranges' = ranges /\ read' = read
    BY <1>2 DEF StartSync, scan
  <2>2. ranges = {} /\ read = <<>>
    BY <2>1 DEF Control
  <2> QED  BY <2>1, <2>2 DEF Control, Ordered
<1>3. ASSUME NEW a \in Accounts, Prune(a) \/ Recover(a) PROVE Control'
  <2>1. /\ pc \in {"prune", "recover"} /\ pc' \in {"prune", "recover"}
        /\ todo' = accounts \/ todo' = todo \ {a}
        /\ accounts' = accounts /\ ranges' = ranges /\ read' = read
    BY <1>3 DEF Prune, Recover, scan
  <2>2. ranges = {} /\ read = <<>> /\ todo \subseteq accounts
    BY <2>1 DEF Control
  <2> QED  BY <2>1, <2>2 DEF Control, Ordered
<1>4. ASSUME Plan PROVE Control'
  <2>1. pc = "recover" /\ pc' = "range" /\ ranges' = PlanSync /\ target' = target /\ read' = read
    BY <1>4 DEF Plan, scan
  <2>2. Ordered(PlanSync, target)
    BY PlanOrdered
  <2>3. Ordered(ranges, target)'
    BY <2>1, <2>2 DEF Ordered
  <2>4. read = <<>>
    BY <2>1 DEF Control
  <2> QED  BY <2>1, <2>3, <2>4 DEF Control
<1>5. ASSUME StartRange PROVE Control'
  <2>1. /\ pc = "range" /\ pc' = "transparent" /\ ranges # {}
        /\ todo' = (Current.accounts \cap Transparent) \X Addresses
        /\ target' = target /\ ranges' = ranges /\ read' = read
    BY <1>5 DEF StartRange, scan
  <2>2. Current' = Current
    BY <2>1, SameRange
  <2>3. Ordered(ranges, target)' /\ read = <<>>
    BY <2>1 DEF Control, Ordered
  <2> QED  BY <2>1, <2>2, <2>3 DEF Control
<1>6. ASSUME NEW a \in Transparent, NEW x \in Addresses, ScanAddress(a, x) PROVE Control'
  <2>1. /\ pc = "transparent" /\ pc' = pc /\ todo' \subseteq todo
        /\ target' = target /\ ranges' = ranges /\ read' = read
    BY <1>6 DEF ScanAddress, scan
  <2>2. Current' = Current
    BY <2>1, SameRange
  <2>3. Ordered(ranges, target)' /\ read = <<>> /\ ranges # {}
    BY <2>1 DEF Control, Ordered
  <2> QED  BY <2>1, <2>2, <2>3 DEF Control
<1>7. ASSUME EndTransparent PROVE Control'
  <2>1. /\ pc = "transparent" /\ pc' = "open" /\ from' = Current.start
        /\ target' = target /\ ranges' = ranges /\ read' = read
    BY <1>7 DEF EndTransparent
  <2>2. Current' = Current
    BY <2>1, SameRange
  <2>3. Ordered(ranges, target)' /\ read = <<>> /\ ranges # {}
    BY <2>1 DEF Control, Ordered
  <2>4. Current \in ranges
    BY <2>3, CurrentFirst
  <2>5. Current.start \in Nat /\ Current.end \in Nat /\ Current.start <= Current.end
    BY <2>4, SyncAssumption DEF TypeOK, Heights, Control, Ordered
  <2>6. from' \in Current'.start .. Current'.end
    BY <2>1, <2>2, <2>5
  <2> QED  BY <2>1, <2>3, <2>6 DEF Control
<1>8. ASSUME SkipRange \/ EndRange PROVE Control'
  <2>1. /\ pc \in {"open", "scan"} /\ pc' = "range" /\ ranges' = ranges \ {Current}
        /\ target' = target /\ read' = <<>>
    BY <1>8 DEF SkipRange, EndRange, ScanOver
  <2>2. ranges # {} /\ Ordered(ranges, target)
    BY <2>1 DEF Control
  <2>3. Ordered(ranges \ {Current}, target)
    BY <2>2, RestOrdered
  <2>4. Ordered(ranges, target)'
    BY <2>1, <2>3 DEF Ordered
  <2> QED  BY <2>1, <2>4 DEF Control
<1>9. ASSUME OpenScan PROVE Control'
  <2>1. /\ pc = "open" /\ pc' = "scan" /\ Scanning \cap Shielded # {}
        /\ next' = from /\ from' = from /\ target' = target /\ ranges' = ranges
        /\ read' = <<>>
    BY <1>9 DEF OpenScan
  <2>2. Current' = Current /\ Scanning' = Scanning /\ ChunkEnd' = ChunkEnd
    BY <2>1, SameRange, SameChunk
  <2>3. Ordered(ranges, target)' /\ ranges # {} /\ from \in Current.start .. Current.end
    BY <2>1 DEF Control, Ordered
  <2>4. ChunkEnd \in from .. Current.end
    BY <2>3, ChunkInRange
  <2>5. next' \in from' .. ChunkEnd' + 1
    BY <2>1, <2>2, <2>4, SyncAssumption DEF TypeOK
  <2> QED  BY <2>1, <2>2, <2>3, <2>5 DEF Control
<1>10. ASSUME ReadBlock PROVE Control'
  <2>1. /\ pc = "scan" /\ pc' = pc /\ next <= ChunkEnd
        /\ read' = Append(read, Block(next)) /\ next' = next + 1 /\ from' = from
        /\ target' = target /\ ranges' = ranges
    BY <1>10 DEF ReadBlock
  <2>2. Current' = Current /\ Scanning' = Scanning /\ ChunkEnd' = ChunkEnd
    BY <2>1, SameRange, SameChunk
  <2>3. /\ Ordered(ranges, target)' /\ ranges # {} /\ from \in Current.start .. Current.end
        /\ Scanning \cap Shielded # {} /\ next \in from .. ChunkEnd + 1
    BY <2>1 DEF Control, Ordered
  <2>4. ChunkEnd \in from .. Current.end /\ from \in Nat /\ next \in Nat /\ ChunkEnd \in Nat
    BY <2>3, ChunkInRange, SyncAssumption DEF TypeOK
  <2>5. next' \in from' .. ChunkEnd' + 1 /\ next' > from' /\ next' - 1 = next
    BY <2>1, <2>2, <2>3, <2>4
  <2>6. Last(read')[1] = next
    <3>1. read \in Seq(Blocks)
      BY DEF TypeOK
    <3>2. Last(Append(read, Block(next))) = Block(next)
      BY <3>1 DEF Last
    <3> QED  BY <2>1, <3>2 DEF Block
  <2> QED  BY <2>1, <2>2, <2>3, <2>5, <2>6 DEF Control
<1>11. ASSUME Commit PROVE Control'
  <2>1. CASE RunOver
    BY <2>1, RunOverControl
  <2>2. CASE read' = <<>> /\ UNCHANGED <<pc, accounts, target, todo, ranges, from, next>>
    <3>1. Current' = Current /\ Scanning' = Scanning /\ ChunkEnd' = ChunkEnd
      BY <2>2, SameRange, SameChunk
    <3> QED  BY <2>2, <3>1 DEF Control, Ordered
  <2> QED  BY <1>11, <2>1, <2>2 DEF Commit
<1>12. ASSUME NextChunk PROVE Control'
  <2>1. /\ pc = "scan" /\ pc' = "open" /\ read = <<>> /\ read' = read
        /\ ChunkEnd < Current.end /\ from' = ChunkEnd + 1
        /\ target' = target /\ ranges' = ranges
    BY <1>12 DEF NextChunk
  <2>2. Current' = Current
    BY <2>1, SameRange
  <2>3. Ordered(ranges, target)' /\ ranges # {} /\ from \in Current.start .. Current.end
    BY <2>1 DEF Control, Ordered
  <2>4. /\ ChunkEnd \in from .. Current.end /\ from \in Nat
        /\ Current.start \in Nat /\ Current.end \in Nat
    BY <2>3, ChunkInRange, SyncAssumption DEF TypeOK, Heights
  <2>5. from' \in Current'.start .. Current'.end
    BY <2>1, <2>2, <2>3, <2>4
  <2> QED  BY <2>1, <2>3, <2>5 DEF Control
<1>13. ASSUME DetectReorg PROVE Control'
  <2> DEFINE lowest == Min(UNION {{heights'[a][p] : p \in Pools(a)} : a \in Scanning})
             again == Max({lowest + 1, Current.start})
  <2>1. /\ pc = "scan" /\ next <= ChunkEnd /\ Rewind(Scanning, next - 1)
        /\ \/ /\ from' = again /\ read' = <<>> /\ pc' = "open"
              /\ UNCHANGED <<target, ranges>>
           \/ RunOver
    BY <1>13 DEF DetectReorg
  <2>2. CASE RunOver
    BY <2>2, RunOverControl
  <2>3. CASE /\ from' = again /\ read' = <<>> /\ pc' = "open"
             /\ UNCHANGED <<target, ranges>>
    <3>1. again \in Current.start .. Current.end
      BY <2>1, RestartInRange
    <3> HIDE DEF again
    <3>2. Current' = Current
      BY <2>3, SameRange
    <3>3. Ordered(ranges, target)' /\ ranges # {}
      BY <2>1, <2>3 DEF Control, Ordered
    <3>4. from' \in Current'.start .. Current'.end
      BY <2>3, <3>1, <3>2
    <3> QED  BY <2>3, <3>3, <3>4 DEF Control
  <2> QED  BY <2>1, <2>2, <2>3
<1>14. ASSUME Finish \/ Stop \/ Abort PROVE Control'
  BY <1>14, RunOverControl DEF Finish, Stop, Abort
<1> QED
  BY <1>1, <1>2, <1>3, <1>4, <1>5, <1>6, <1>7, <1>8, <1>9, <1>10, <1>11, <1>12, <1>13, <1>14
     DEF Next, RunStep

\* The first state has the types.
LEMMA InitTyped ==
    ASSUME Init
    PROVE  TypeOK /\ Control
<1>0. MaxHeight \in Nat \ {0} /\ MaxBranch \in Nat
  BY SyncAssumption
<1>1. chain \in Seq(0 .. MaxBranch) /\ Len(chain) \in Heights /\ stems \in Seq(Seq(0 .. MaxBranch))
  BY <1>0 DEF Init, Heights
<1>2. Len(stems) <= MaxBranch
  BY <1>0 DEF Init
<1>3. DOMAIN heights = Accounts /\ \A a \in Accounts : heights[a] \in [Pools(a) -> 0 .. MaxHeight]
  BY <1>0 DEF Init
<1>4. /\ headers \in [Accounts -> SUBSET Blocks]
      /\ notes \in [Accounts -> SUBSET Blocks]
      /\ tracked \in [Accounts -> SUBSET Blocks]
  BY DEF Init, Nothing
<1>5. /\ spends \in [Accounts -> SUBSET (Blocks \X Blocks)]
      /\ witnesses \in [Accounts -> SUBSET (Blocks \X Heights)]
  BY DEF Init, Nothing
<1>6. scanned \in [Accounts -> [Addresses -> SUBSET Heights]]
  BY DEF Init
<1>7. reorgAt \in 1 .. NoReorg /\ target \in 0 .. MaxHeight /\ from \in 0 .. MaxHeight
      /\ next \in 0 .. MaxHeight + 1
  BY <1>0 DEF Init, NoReorg
<1>8. Control
  BY DEF Init, Control, Ordered
<1>9. /\ pc \in Phases /\ accounts \subseteq Accounts /\ prev \subseteq Blocks
      /\ ranges \subseteq [start : Heights, end : Heights, accounts : SUBSET Accounts]
      /\ outcome \in {"none", "synced", "cancelled", "failed", "gaveup", "clash"}
  BY DEF Init, Phases
<1>10. read \in Seq(Blocks)
  BY DEF Init
<1>11. cancelled \in BOOLEAN
  BY Zenon DEF Init
<1>12. TypeOK
  BY <1>1, <1>2, <1>3, <1>4, <1>5, <1>6, <1>7, <1>9, <1>10, <1>11 DEF TypeOK
<1> QED  BY <1>8, <1>12

\* Every step keeps them.
LEMMA StepTyped ==
    ASSUME TypeOK, Control, [Next]_vars
    PROVE  TypeOK' /\ Control'
<1>1. CASE Next
  <2>1. TypeOK'
    BY <1>1, RunTypes, OutsideTypes DEF Next
  <2> QED  BY <1>1, <2>1, StepControl
<1>2. CASE UNCHANGED vars
  <2>1. TypeOK'
    BY <1>2 DEF vars, tables, scan, TypeOK
  <2>2. Control'
    BY <1>2, SameControl DEF vars
  <2> QED  BY <2>1, <2>2
<1> QED  BY <1>1, <1>2

\* The types hold in every run, for any wallet, chunk and chain.
THEOREM WalletTypes == Spec => []TypeOK
<1>1. Init => TypeOK /\ Control
  BY InitTyped
<1>2. TypeOK /\ Control /\ [Next]_vars => TypeOK' /\ Control'
  BY StepTyped
<1> QED  BY <1>1, <1>2, PTL DEF Spec

-----------------------------------------------------------------------------
\* What a run that reports its height has done.

\* Every shielded account of the run is at its target or in a range that is
\* left; after a commit the accounts scanned are where the stream is.
Reach ==
    /\ pc \in {"range", "transparent", "open", "scan"} => \A a \in accounts \cap Shielded :
          heights[a]["S"] >= target \/ \E r \in ranges : a \in r.accounts
    /\ pc = "scan" /\ read = <<>> /\ next > from => \A a \in Scanning \cap Shielded :
          heights[a]["S"] = next - 1

\* Every step keeps it.
LEMMA StepReach ==
    ASSUME TypeOK, Control, Reach, Next
    PROVE  Reach'
<1>0. \A a \in Shielded : a \in Accounts /\ "S" \in Pools(a) /\ heights[a]["S"] \in 0 .. MaxHeight
  BY DEF Accounts, Pools, TypeOK
<1>1. ASSUME pc' \in {"idle", "prune", "recover"} PROVE Reach'
  BY <1>1 DEF Reach
<1>2. ASSUME pc' = pc, UNCHANGED <<heights, accounts, target, ranges, scan>> PROVE Reach'
  <2>1. Scanning' = Scanning
    BY <1>2, SameRange
  <2> QED  BY <1>2, <2>1 DEF Reach, scan
<1>3. ASSUME Plan PROVE Reach'
  <2>1. /\ pc' = "range" /\ ranges' = PlanSync
        /\ UNCHANGED <<heights, accounts, target>>
    BY <1>3 DEF Plan, tables
  <2>2. ASSUME NEW a \in accounts \cap Shielded, ~(heights[a]["S"] >= target)
        PROVE  \E r \in PlanSync : a \in r.accounts
    <3>1. Lowest(a) <= heights[a]["S"] /\ Lowest(a) \in Nat /\ target \in Nat
      BY <1>0, LowestType, SyncAssumption DEF TypeOK
    <3>2. Lowest(a) < target
      BY <1>0, <2>2, <3>1, SyncAssumption
    <3>3. PICK r \in PlanSync : r.start = Lowest(a) + 1
      BY <3>2, PlanOrdered
    <3>4. r.accounts = {b \in accounts : Lowest(b) < r.start}
      BY PlanOrdered
    <3>5. a \in r.accounts
      BY <3>1, <3>3, <3>4
    <3> QED  BY <3>5
  <2> QED  BY <2>1, <2>2 DEF Reach
<1>4. ASSUME StartRange \/ EndTransparent \/ OpenScan \/ NextChunk PROVE Reach'
  <2>1. /\ pc \in {"range", "transparent", "open", "scan"}
        /\ UNCHANGED <<heights, accounts, target, ranges>>
        /\ pc' = "scan" => next' = from' /\ from \in Current.start .. Current.end /\ ranges # {}
    BY <1>4 DEF StartRange, EndTransparent, OpenScan, NextChunk, tables, Control
  <2>2. pc' = "scan" => ~(next' > from')
    <3>1. pc' = "scan" => next' \in Nat
      BY <1>4, SyncAssumption DEF StartRange, EndTransparent, OpenScan, NextChunk, TypeOK
    <3> QED  BY <2>1, <3>1
  <2> QED  BY <2>1, <2>2 DEF Reach
<1>5. ASSUME NEW a \in Transparent, NEW x \in Addresses, ScanAddress(a, x) PROVE Reach'
  <2>1. /\ pc = "transparent" /\ pc' = pc /\ UNCHANGED <<accounts, target, ranges>>
        /\ heights' = [heights EXCEPT ![a]["T"] = Current.end]
    BY <1>5 DEF ScanAddress
  <2>2. \A b \in Shielded : heights'[b]["S"] = heights[b]["S"]
    BY <1>0, <2>1 DEF TypeOK
  <2> QED  BY <2>1, <2>2 DEF Reach
<1>6. ASSUME SkipRange PROVE Reach'
  <2>1. /\ pc = "open" /\ pc' = "range" /\ Scanning \cap Shielded = {}
        /\ ranges' = ranges \ {Current} /\ UNCHANGED <<heights, accounts, target>>
    BY <1>6 DEF SkipRange, tables
  <2>2. \A a \in accounts \cap Shielded : a \notin Current.accounts
    BY <2>1 DEF Scanning
  <2> QED  BY <2>1, <2>2 DEF Reach
<1>7. ASSUME ReadBlock PROVE Reach'
  <2>1. /\ pc = "scan" /\ pc' = pc /\ read' # <<>>
        /\ UNCHANGED <<heights, accounts, target, ranges>>
    <3>1. read \in Seq(Blocks)
      BY DEF TypeOK
    <3>2. Append(read, Block(next)) # <<>>
      BY <3>1, AppendNotEmpty
    <3> QED  BY <1>7, <3>2 DEF ReadBlock, tables
  <2> QED  BY <2>1 DEF Reach
<1>8. ASSUME Commit, ~RunOver PROVE Reach'
  <2> DEFINE as == Scanning \cap Shielded
             h == Last(read)[1]
  <2>1. /\ pc = "scan" /\ read # <<>> /\ pc' = pc
        /\ heights' = [a \in Accounts |->
              IF a \in as THEN [heights[a] EXCEPT !["S"] = h] ELSE heights[a]]
        /\ UNCHANGED <<accounts, target, ranges, next>>
    BY <1>8 DEF Commit
  <2>2. Scanning' = Scanning /\ h = next - 1 /\ ranges # {}
    BY <2>1, SameRange DEF Control
  <2>3. Current \in ranges
    BY <2>2, CurrentFirst
  <2>4. \A a \in as : heights'[a]["S"] = next - 1
    BY <1>0, <2>1, <2>2 DEF TypeOK
  <2>5. \A a \in Shielded \ as : heights'[a] = heights[a]
    BY <1>0, <2>1
  <2>6. \A a \in as : \E r \in ranges : a \in r.accounts
    BY <2>3 DEF Scanning
  <2> QED  BY <2>1, <2>2, <2>4, <2>5, <2>6 DEF Reach
<1>9. ASSUME EndRange PROVE Reach'
  <2>1. /\ pc = "scan" /\ pc' = "range" /\ read = <<>> /\ next > ChunkEnd
        /\ ChunkEnd = Current.end
        /\ ranges' = ranges \ {Current} /\ UNCHANGED <<heights, accounts, target>>
    BY <1>9 DEF EndRange, tables
  <2>2. /\ ranges # {} /\ from \in Current.start .. Current.end
        /\ next \in from .. ChunkEnd + 1 /\ Ordered(ranges, target)
    BY <2>1 DEF Control
  <2>3. ChunkEnd \in from .. Current.end /\ from \in Nat /\ next \in Nat /\ Current.end \in Nat
    BY <2>2, ChunkInRange, SyncAssumption DEF TypeOK, Heights
  <2>4. next > from /\ next - 1 = Current.end
    BY <2>1, <2>2, <2>3
  <2>5. \A a \in Scanning \cap Shielded : heights[a]["S"] = Current.end
    BY <2>1, <2>4 DEF Reach
  <2>6. \/ Current.end = target
        \/ \E o \in ranges \ {Current} : Current.accounts \subseteq o.accounts
    <3>1. Current \in ranges
      BY <2>2, CurrentFirst
    <3>2. CASE \E o \in ranges \ {Current} : o.start = Current.end + 1
      <4>1. PICK o \in ranges \ {Current} : o.start = Current.end + 1
        BY <3>2
      <4>2. Current.start < o.start
        BY <2>2, RestOrdered
      <4> QED  BY <2>2, <3>1, <4>1, <4>2 DEF Ordered
    <3> QED  BY <2>2, <3>2, RestOrdered
  <2>7. ASSUME NEW a \in accounts \cap Shielded
        PROVE  heights[a]["S"] >= target \/ \E r \in ranges \ {Current} : a \in r.accounts
    <3>1. CASE a \in Current.accounts
      <4>1. a \in Scanning \cap Shielded
        BY <3>1 DEF Scanning
      <4>2. heights[a]["S"] = Current.end
        BY <2>5, <4>1
      <4> QED  BY <2>3, <2>6, <3>1, <4>2
    <3>2. CASE a \notin Current.accounts
      BY <2>1, <3>2 DEF Reach
    <3> QED  BY <3>1, <3>2
  <2> QED  BY <2>1, <2>7 DEF Reach
<1>10. ASSUME DetectReorg, ~RunOver PROVE Reach'
  <2>1. /\ pc = "scan" /\ pc' = "open" /\ Rewind(Scanning, next - 1)
        /\ UNCHANGED <<accounts, target, ranges>>
    BY <1>10 DEF DetectReorg
  <2>2. ranges # {}
    BY <2>1 DEF Control
  <2>3. Current \in ranges
    BY <2>2, CurrentFirst
  <2>4. \A a \in Shielded \ Scanning : heights'[a] = heights[a]
    BY <1>0, <2>1 DEF Rewind, Trim
  <2>5. \A a \in Scanning : \E r \in ranges : a \in r.accounts
    BY <2>3 DEF Scanning
  <2> QED  BY <2>1, <2>4, <2>5 DEF Reach
<1>11. CASE Mine \/ Cancel \/ \E h \in Heights : Reorganize(h)
  BY <1>2, <1>11 DEF Mine, Reorganize, Cancel, tables
<1>12. CASE \/ \E as \in SUBSET Accounts \ {{}} : StartSync(as)
            \/ \E a \in Accounts, h \in RewindHeights : UserRewind(a, h)
            \/ \E a \in Accounts : Prune(a) \/ Recover(a)
            \/ Finish \/ Stop \/ Abort
  BY <1>1, <1>12 DEF StartSync, UserRewind, Prune, Recover, Finish, Stop, Abort, RunOver
<1>13. CASE RunOver
  BY <1>1, <1>13 DEF RunOver
<1> QED
  BY <1>3, <1>4, <1>5, <1>6, <1>7, <1>8, <1>9, <1>10, <1>11, <1>12, <1>13 DEF Next, RunStep

\* Only the end of a plan reports the height.
LEMMA SyncedStep ==
    ASSUME TypeOK, Control, Reach, Next, pc # "idle", pc' = "idle", outcome' = "synced"
    PROVE  \A a \in accounts \cap Shielded : heights[a]["S"] >= target
<1>1. Finish
  <2>1. ASSUME EndsAs("failed") \/ EndsAs("clash") \/ EndsAs("gaveup") PROVE FALSE
    BY <2>1 DEF EndsAs
  <2>2. ASSUME Stop \/ Abort \/ (Commit /\ RunOver) \/ (DetectReorg /\ RunOver) PROVE FALSE
    <3>1. ASSUME Commit /\ RunOver PROVE FALSE
      <4>1. pc = "scan" /\ (pc' = pc \/ EndsAs("clash"))
        BY <3>1 DEF Commit
      <4> QED  BY <2>1, <4>1
    <3>2. ASSUME DetectReorg /\ RunOver PROVE FALSE
      <4>1. pc' = "open" \/ EndsAs("gaveup")
        BY <3>2 DEF DetectReorg
      <4> QED  BY <2>1, <4>1
    <3> QED  BY <2>1, <2>2, <3>1, <3>2 DEF Stop, Abort
  <2>3. Commit => RunOver
    BY DEF Commit
  <2>4. DetectReorg => RunOver
    BY DEF DetectReorg
  <2>5. ~(\E a \in Accounts : Prune(a) \/ Recover(a)) /\ ~Plan /\ ~StartRange
    BY DEF Prune, Recover, Plan, StartRange
  <2>6. ~(\E a \in Transparent, x \in Addresses : ScanAddress(a, x)) /\ ~EndTransparent /\ ~SkipRange
    BY DEF ScanAddress, EndTransparent, SkipRange
  <2>7. ~OpenScan /\ ~ReadBlock /\ ~NextChunk /\ ~EndRange /\ ~Mine /\ ~Cancel
    BY DEF OpenScan, ReadBlock, NextChunk, EndRange, Mine, Cancel
  <2>8. /\ ~\E h \in Heights : Reorganize(h)
        /\ ~\E as \in SUBSET Accounts \ {{}} : StartSync(as)
        /\ ~\E a \in Accounts, h \in RewindHeights : UserRewind(a, h)
    BY DEF Reorganize, StartSync, UserRewind
  <2> QED  BY <2>2, <2>3, <2>4, <2>5, <2>6, <2>7, <2>8 DEF Next, RunStep
<1>2. pc = "range" /\ ranges = {}
  BY <1>1 DEF Finish
<1> QED  BY <1>2 DEF Reach

\* A run that reports its height brought every shielded account to it, for any
\* plan, chunks, reorganizations and rewinds.
THEOREM RunReaches == Spec => SyncedReached
<1>1. Init => TypeOK /\ Control /\ Reach
  BY InitTyped DEF Init, Reach
<1>2. TypeOK /\ Control /\ Reach /\ [Next]_vars => (TypeOK /\ Control /\ Reach)'
  <2>1. ASSUME TypeOK, Control, Reach, UNCHANGED vars PROVE Reach'
    <3>1. Scanning' = Scanning
      BY <2>1, SameRange DEF vars
    <3> QED  BY <2>1, <3>1 DEF Reach, vars, tables, scan
  <2> QED  BY <2>1, StepTyped, StepReach
<1>3. TypeOK /\ Control /\ Reach /\ [Next]_vars =>
        [pc # "idle" /\ pc' = "idle" /\ outcome' = "synced" =>
           \A a \in accounts \cap Shielded : heights[a]["S"] >= target]_vars
  BY SyncedStep
<1> QED  BY <1>1, <1>2, <1>3, PTL DEF Spec, SyncedReached

-----------------------------------------------------------------------------
(***************************************************************************)
(* What the rows promise on a chain that does not reorganize, for any      *)
(* accounts, notes, plans, chunks, rewinds, failures and cancels.  Every   *)
(* pool's checkpoint names what its account has: the notes and the spends  *)
(* up to it and no other, and every checkpoint that still has a witness    *)
(* has all of its own.                                                     *)
(***************************************************************************)

\* The block at height k.
B(k) == <<k, 0>>

\* What account a has when it stands at height h.
NotesTo(a, h) == {B(k) : k \in {j \in Receives[a] : j <= h}}
SpendsTo(a, h) == {<<B(SpentNote[a][k]), B(k)>> : k \in {j \in DOMAIN SpentNote[a] : j <= h}}

\* The heights of the notes of a that are unspent at height h.
Open(a, h) == {k \in Receives[a] :
    k <= h /\ \A j \in DOMAIN SpentNote[a] : SpentNote[a][j] = k => j > h}

\* A height that an account can be taken back to.
Level(a, h) ==
    /\ h > 0 => B(h) \in headers[a]
    /\ \A k \in Open(a, h) : <<B(k), h>> \in witnesses[a]

RowsOf(a) ==
    /\ notes[a] = NotesTo(a, heights[a]["S"])
    /\ spends[a] = SpendsTo(a, heights[a]["S"])
    /\ \A w \in witnesses[a] : w[2] <= heights[a]["S"] /\ Level(a, w[2])
    /\ Level(a, heights[a]["S"])

Rows == \A a \in Shielded : RowsOf(a)

-----------------------------------------------------------------------------
\* Without reorganizations, a height is a block.

\* On one chain a height names one block.
LEMMA OneBlock ==
    ASSUME MaxBranch = 0
    PROVE  /\ \A b \in Blocks : b[1] \in Heights /\ b = B(b[1])
           /\ \A k \in Heights : B(k) \in Blocks
BY DEF Blocks, B

\* Without a second branch the chain never reorganizes.
LEMMA OneChain ==
    ASSUME MaxBranch = 0, TypeOK
    PROVE  /\ \A k \in 1 .. Len(chain) : Block(k) = B(k)
           /\ \A h, k \in Nat : Ancestor(B(h), k) = B(k)
           /\ ~\E h \in Heights : Reorganize(h)
<1>1. \A k \in 1 .. Len(chain) : chain[k] = 0
  <2>1. chain \in Seq(0 .. MaxBranch)
    BY DEF TypeOK
  <2>2. \A k \in 1 .. Len(chain) : chain[k] \in 0 .. MaxBranch
    BY <2>1, ElementType
  <2> QED  BY <2>2
<1>2. Len(stems) = 0
  BY DEF TypeOK
<1>3. \A h, k \in Nat : Ancestor(B(h), k) = B(k)
  BY DEF Ancestor, B
<1>4. \A k \in 1 .. Len(chain) : Block(k) = B(k)
  BY <1>1 DEF Block, B
<1>5. ~\E h \in Heights : Reorganize(h)
  <2> SUFFICES ASSUME NEW h \in Heights, Reorganize(h) PROVE FALSE
    OBVIOUS
  <2>1. Len(stems) < MaxBranch
    BY DEF Reorganize
  <2> QED  BY <1>2, <2>1
<1> QED  BY <1>3, <1>4, <1>5

\* What SyncAssumption says of an account's notes.
LEMMA WalletFacts ==
    ASSUME NEW a \in Shielded
    PROVE  /\ a \in Accounts /\ "S" \in Pools(a)
           /\ Receives[a] \subseteq Heights /\ DOMAIN SpentNote[a] \subseteq Heights
           /\ \A h \in DOMAIN SpentNote[a] :
                 SpentNote[a][h] \in Receives[a] /\ SpentNote[a][h] <= h
           /\ \A h, k \in DOMAIN SpentNote[a] : SpentNote[a][h] = SpentNote[a][k] => h = k
           /\ \A h \in Heights : h \in Nat /\ h >= 1 /\ h <= MaxHeight
<1>1. a \in Accounts /\ "S" \in Pools(a)
  BY DEF Accounts, Pools
<1> QED  BY <1>1, SyncAssumption DEF Heights

\* Nothing is held at the birth.
LEMMA OpenAtBirth ==
    ASSUME NEW a \in Shielded
    PROVE  NotesTo(a, 0) = {} /\ SpendsTo(a, 0) = {} /\ Open(a, 0) = {} /\ Level(a, 0)
<1>1. \A k \in Receives[a] : ~(k <= 0)
  BY WalletFacts
<1>2. \A k \in DOMAIN SpentNote[a] : ~(k <= 0)
  BY WalletFacts
<1> QED  BY <1>1, <1>2 DEF NotesTo, SpendsTo, Open, Level

-----------------------------------------------------------------------------
\* Going back.

\* A height that account a is taken back to: it has its rows.
Stays(a, h) == h = 0 \/ h = heights[a]["S"] \/ \E w \in witnesses[a] : w[2] = h

\* A trim to a level an account had keeps its rows true of it.
LEMMA TrimRows ==
    ASSUME MaxBranch = 0, TypeOK, Rows, NEW as \in SUBSET Accounts,
           NEW to \in [as -> 0 .. MaxHeight], Trim(as, to),
           \A a \in as \cap Shielded : Stays(a, to[a])
    PROVE  Rows'
<1> SUFFICES ASSUME NEW a \in Shielded PROVE RowsOf(a)'
  BY DEF Rows
<1>0. /\ a \in Accounts /\ "S" \in Pools(a) /\ RowsOf(a)
      /\ Receives[a] \subseteq Heights /\ DOMAIN SpentNote[a] \subseteq Heights
      /\ \A h \in Heights : h \in Nat
      /\ heights[a]["S"] \in Nat
  BY WalletFacts, SyncAssumption DEF Rows, TypeOK
<1>1. CASE a \notin as
  <2>1. /\ notes'[a] = notes[a] /\ spends'[a] = spends[a] /\ witnesses'[a] = witnesses[a]
        /\ headers'[a] = headers[a] /\ heights'[a] = heights[a]
    BY <1>0, <1>1 DEF Trim
  <2> QED  BY <1>0, <2>1 DEF RowsOf, Level
<1>2. CASE a \in as
  <2> DEFINE l == to[a]
  <2>1. /\ notes'[a] = {n \in notes[a] : n[1] <= l}
        /\ spends'[a] = {s \in spends[a] : s[2][1] <= l}
        /\ witnesses'[a] = {w \in witnesses[a] : w[2] <= l}
        /\ headers'[a] = {b \in headers[a] : b[1] <= l}
        /\ heights'[a] = [p \in Pools(a) |-> l]
    BY <1>0, <1>2 DEF Trim
  <2>a. l \in 0 .. MaxHeight /\ Stays(a, l)
    BY <1>2, Zenon
  <2> HIDE DEF l
  <2>2. l \in Nat /\ Stays(a, l)
    BY <2>a, SyncAssumption
  <2>3. l <= heights[a]["S"] /\ Level(a, l)
    BY <1>0, <2>2, OpenAtBirth DEF Stays, RowsOf
  <2>4. heights'[a]["S"] = l
    BY <1>0, <2>1
  <2>5. notes'[a] = NotesTo(a, l)
    <3>1. \A n \in notes[a] : \E k \in Receives[a] : k <= heights[a]["S"] /\ n = B(k) /\ n[1] = k
      BY <1>0 DEF RowsOf, NotesTo, B
    <3>2. \A k \in Receives[a] : k <= l => B(k) \in notes[a] /\ B(k)[1] = k
      BY <1>0, <2>2, <2>3 DEF RowsOf, NotesTo, B
    <3> QED  BY <2>1, <3>1, <3>2 DEF NotesTo
  <2>6. spends'[a] = SpendsTo(a, l)
    <3> DEFINE sp(k) == <<B(SpentNote[a][k]), B(k)>>
    <3>1. \A k : sp(k)[2][1] = k
      BY DEF B
    <3>2. spends[a] = {sp(k) : k \in {j \in DOMAIN SpentNote[a] : j <= heights[a]["S"]}}
      BY <1>0 DEF RowsOf, SpendsTo
    <3>3. SpendsTo(a, l) = {sp(k) : k \in {j \in DOMAIN SpentNote[a] : j <= l}}
      BY DEF SpendsTo
    <3> HIDE DEF sp
    <3>4. \A k \in DOMAIN SpentNote[a] : k <= l => k <= heights[a]["S"]
      BY <1>0, <2>2, <2>3
    <3> QED  BY <2>1, <3>1, <3>2, <3>3, <3>4
  <2>7. ASSUME NEW h \in Nat, h <= l, Level(a, h) PROVE Level(a, h)'
    BY <2>1, <2>2, <2>7 DEF Level, B
  <2>8. \A w \in witnesses'[a] : w[2] \in Nat /\ w[2] <= l /\ Level(a, w[2])
    BY <1>0, <2>1, SyncAssumption DEF RowsOf, TypeOK, Heights
  <2> QED  BY <2>2, <2>3, <2>4, <2>5, <2>6, <2>7, <2>8 DEF RowsOf
<1> QED  BY <1>1, <1>2

\* A rewind takes an account to 0 or to a height that has witnesses.
LEMMA RewindRows ==
    ASSUME MaxBranch = 0, TypeOK, Rows, NEW as \in SUBSET Accounts, NEW h \in Nat, Rewind(as, h)
    PROVE  Rows'
<1> DEFINE to == [a \in as |-> CheckpointBefore(a, h)]
<1>1. to \in [as -> 0 .. MaxHeight]
  BY CheckpointType
<1>2. Trim(as, to)
  BY DEF Rewind
<1>3. \A a \in as : to[a] = CheckpointBefore(a, h)
  OBVIOUS
<1> HIDE DEF to
<1>4. \A a \in as \cap Shielded : Stays(a, to[a])
  BY <1>3, CheckpointType DEF Stays
<1> QED  BY <1>1, <1>2, <1>4, TrimRows

-----------------------------------------------------------------------------
\* Going on: what the blocks from s to h add to an account that stands at s.

Gained(a, s, h) == {k \in Receives[a] : s < k /\ k <= h}
Lost(a, s, h) == {j \in DOMAIN SpentNote[a] : s < j /\ j <= h}

\* What an account has grows by what a stretch of the chain brings.
LEMMA Growth ==
    ASSUME NEW a \in Shielded, NEW s \in Nat, NEW h \in Nat, s < h
    PROVE  /\ NotesTo(a, s) \cup {B(k) : k \in Gained(a, s, h)} = NotesTo(a, h)
           /\ SpendsTo(a, s) \cup {<<B(SpentNote[a][j]), B(j)>> : j \in Lost(a, s, h)} =
                 SpendsTo(a, h)
           /\ Open(a, h) = {k \in Open(a, s) \cup Gained(a, s, h) :
                              \A j \in Lost(a, s, h) : SpentNote[a][j] # k}
           /\ \A j \in Lost(a, s, h) : SpentNote[a][j] \in Open(a, s) \cup Gained(a, s, h)
<1>0. /\ \A k \in Receives[a] : k \in Nat
      /\ \A j \in DOMAIN SpentNote[a] : j \in Nat
      /\ \A j \in DOMAIN SpentNote[a] : SpentNote[a][j] \in Receives[a] /\ SpentNote[a][j] <= j
      /\ \A j, k \in DOMAIN SpentNote[a] : SpentNote[a][j] = SpentNote[a][k] => j = k
  BY WalletFacts
<1>1. NotesTo(a, s) \cup {B(k) : k \in Gained(a, s, h)} = NotesTo(a, h)
  <2>1. \A k \in Receives[a] : k <= h <=> k <= s \/ (s < k /\ k <= h)
    BY <1>0
  <2> QED  BY <2>1 DEF NotesTo, Gained
<1>2. SpendsTo(a, s) \cup {<<B(SpentNote[a][j]), B(j)>> : j \in Lost(a, s, h)} = SpendsTo(a, h)
  <2> DEFINE sp(j) == <<B(SpentNote[a][j]), B(j)>>
  <2>1. \A j \in DOMAIN SpentNote[a] : j <= h <=> j <= s \/ (s < j /\ j <= h)
    BY <1>0
  <2>2. \A k : SpendsTo(a, k) = {sp(j) : j \in {i \in DOMAIN SpentNote[a] : i <= k}}
    BY DEF SpendsTo
  <2> HIDE DEF sp
  <2>3. SpendsTo(a, s) \cup {sp(j) : j \in Lost(a, s, h)} = SpendsTo(a, h)
    BY <2>1, <2>2 DEF Lost
  <2> QED  BY <2>3 DEF sp
<1>3. Open(a, h) = {k \in Open(a, s) \cup Gained(a, s, h) :
                      \A j \in Lost(a, s, h) : SpentNote[a][j] # k}
  <2>1. ASSUME NEW k \in Open(a, h)
        PROVE  /\ k \in Open(a, s) \cup Gained(a, s, h)
               /\ \A j \in Lost(a, s, h) : SpentNote[a][j] # k
    BY <1>0 DEF Open, Gained, Lost
  <2>2. ASSUME NEW k \in Open(a, s) \cup Gained(a, s, h),
               \A j \in Lost(a, s, h) : SpentNote[a][j] # k
        PROVE  k \in Open(a, h)
    <3>1. k \in Receives[a] /\ k <= h /\ k \in Nat
      BY <1>0 DEF Open, Gained
    <3>2. ASSUME NEW j \in DOMAIN SpentNote[a], SpentNote[a][j] = k PROVE j > h
      <4>1. j > s
        BY <1>0, <3>1, <3>2 DEF Open, Gained
      <4>2. j \notin Lost(a, s, h)
        BY <2>2, <3>2
      <4> QED  BY <1>0, <4>1, <4>2 DEF Lost
    <3> QED  BY <3>1, <3>2 DEF Open
  <2> QED  BY <2>1, <2>2
<1>4. \A j \in Lost(a, s, h) : SpentNote[a][j] \in Open(a, s) \cup Gained(a, s, h)
  <2> SUFFICES ASSUME NEW j \in Lost(a, s, h)
               PROVE  SpentNote[a][j] \in Open(a, s) \cup Gained(a, s, h)
    OBVIOUS
  <2>1. /\ j \in DOMAIN SpentNote[a] /\ j \in Nat /\ s < j /\ j <= h
        /\ SpentNote[a][j] \in Receives[a] /\ SpentNote[a][j] \in Nat /\ SpentNote[a][j] <= j
    BY <1>0 DEF Lost
  <2>2. CASE SpentNote[a][j] <= s
    <3>1. \A i \in DOMAIN SpentNote[a] : SpentNote[a][i] = SpentNote[a][j] => i > s
      BY <1>0, <2>1
    <3> QED  BY <2>1, <2>2, <3>1 DEF Open
  <2>3. CASE ~(SpentNote[a][j] <= s)
    BY <2>1, <2>3 DEF Gained
  <2> QED  BY <2>2, <2>3
<1> QED  BY <1>1, <1>2, <1>3, <1>4

-----------------------------------------------------------------------------
\* Where the accounts of a run stand.

\* The next of the ranges left that has account a starts where pool p ends.
Fits(a, p) == \A r \in ranges : a \in r.accounts =>
    /\ heights[a][p] < r.start
    /\ \E o \in ranges : a \in o.accounts /\ o.start = heights[a][p] + 1

\* The scanner holds the blocks above what is committed, and the notes open
\* there.
Holds(a) ==
    /\ heights[a]["S"] < next
    /\ ToSet(read) = {B(k) : k \in heights[a]["S"] + 1 .. next - 1}
    /\ tracked[a] = {B(k) : k \in Open(a, heights[a]["S"])}

Fitting ==
    /\ pc \in {"range", "transparent"} => \A a \in Shielded : Fits(a, "S")
    /\ pc \in {"open", "scan"} => \A a \in Shielded \ Current.accounts : Fits(a, "S")
    /\ pc = "open" => \A a \in Scanning \cap Shielded : heights[a]["S"] = from - 1
    /\ pc = "scan" => prev \subseteq {B(next - 1)} /\ \A a \in Scanning \cap Shielded : Holds(a)

\* The transparent pool of an account is never behind its shielded one.
Ahead ==
    /\ \A a \in Shielded \cap Transparent : heights[a]["S"] <= heights[a]["T"]
    /\ pc = "transparent" => \A a \in Current.accounts \cap Transparent :
          heights[a]["T"] = Current.end \/ \E x \in Addresses : <<a, x>> \in todo
    /\ pc \in {"open", "scan"} => \A a \in Current.accounts \cap Transparent :
          heights[a]["T"] = Current.end

\* The shielded checkpoint of an account is its lowest.
LEMMA LowestShielded ==
    ASSUME TypeOK, Ahead, NEW a \in Shielded
    PROVE  Lowest(a) = heights[a]["S"]
<1>1. a \in Accounts /\ "S" \in Pools(a) /\ Pools(a) \subseteq {"S", "T"}
  BY DEF Accounts, Pools
<1>2. /\ Lowest(a) <= heights[a]["S"] /\ Lowest(a) \in 0 .. MaxHeight
      /\ \E p \in Pools(a) : Lowest(a) = heights[a][p]
  BY <1>1, LowestType
<1>3. \A p \in Pools(a) : heights[a][p] \in 0 .. MaxHeight
  BY <1>1 DEF TypeOK
<1>4. \A p \in Pools(a) : heights[a]["S"] <= heights[a][p]
  <2>1. "T" \in Pools(a) => a \in Transparent
    BY DEF Pools
  <2> QED  BY <1>1, <1>3, <2>1, SyncAssumption DEF Ahead
<1> QED  BY <1>1, <1>2, <1>3, <1>4, SyncAssumption

-----------------------------------------------------------------------------
\* A commit.

\* What a commit is about to write for an account it scans.
LEMMA CommitGain ==
    ASSUME MaxBranch = 0, TypeOK, Control, Rows, Fitting, pc = "scan", read # <<>>,
           NEW a \in Scanning \cap Shielded
    PROVE  LET s == heights[a]["S"]
               h == next - 1
               mine == tracked[a] \cup NewNotes(a)
           IN  /\ s \in Nat /\ h \in Heights /\ s < h /\ Last(read) = B(h)
               /\ NewNotes(a) = {B(k) : k \in Gained(a, s, h)}
               /\ mine = {B(k) : k \in Open(a, s) \cup Gained(a, s, h)}
               /\ mine \ tracked[a] = NewNotes(a)
               /\ NewSpends(a, mine) = {<<B(SpentNote[a][j]), B(j)>> : j \in Lost(a, s, h)}
<1> DEFINE s == heights[a]["S"]
           h == next - 1
           mine == tracked[a] \cup NewNotes(a)
<1>0. /\ a \in Shielded /\ a \in Accounts /\ "S" \in Pools(a)
      /\ Receives[a] \subseteq Heights /\ DOMAIN SpentNote[a] \subseteq Heights
      /\ \A j \in DOMAIN SpentNote[a] :
            SpentNote[a][j] \in Receives[a] /\ SpentNote[a][j] <= j
      /\ \A k \in Heights : k \in Nat
  BY WalletFacts
<1>1. Holds(a)
  BY DEF Fitting
<1>2. s \in Nat /\ next \in Nat /\ s < next
  BY <1>0, <1>1, SyncAssumption DEF TypeOK, Holds
<1>3. read \in Seq(Blocks) /\ Last(read) \in ToSet(read)
  <2>1. read \in Seq(Blocks)
    BY DEF TypeOK
  <2>2. Len(read) \in 1 .. Len(read)
    BY <2>1
  <2> QED  BY <2>1, <2>2 DEF Last, ToSet
<1>4. ToSet(read) = {B(k) : k \in s + 1 .. h}
  BY <1>1 DEF Holds
<1>5. s < h /\ h \in Nat
  <2>1. PICK k \in s + 1 .. h : TRUE
    BY <1>3, <1>4
  <2> QED  BY <1>2, <2>1
<1>6. Last(read) = B(h)
  <2>1. Last(read)[1] = h
    BY DEF Control
  <2>2. PICK k \in s + 1 .. h : Last(read) = B(k)
    BY <1>3, <1>4
  <2> QED  BY <2>1, <2>2 DEF B
<1>7. h \in Heights
  <2>1. Last(read) \in Blocks
    <3>1. Len(read) \in 1 .. Len(read)
      BY <1>3
    <3> QED  BY <1>3, <3>1 DEF Last
  <2> QED  BY <1>6, <2>1 DEF Blocks, B
<1>8. tracked[a] = {B(k) : k \in Open(a, s)}
  BY <1>1 DEF Holds
<1> HIDE DEF s, h
<1>9. NewNotes(a) = {B(k) : k \in Gained(a, s, h)}
  <2>1. \A k \in s + 1 .. h : B(k)[1] = k /\ (k \in Receives[a] => k \in Gained(a, s, h))
    BY <1>2, <1>5 DEF B, Gained
  <2>2. \A k \in Gained(a, s, h) : k \in s + 1 .. h /\ k \in Receives[a] /\ B(k)[1] = k
    BY <1>0, <1>2, <1>5 DEF B, Gained
  <2> QED  BY <1>4, <2>1, <2>2 DEF NewNotes
<1>10. mine = {B(k) : k \in Open(a, s) \cup Gained(a, s, h)}
  BY <1>8, <1>9
<1>11. mine \ tracked[a] = NewNotes(a)
  <2>1. \A k \in Open(a, s), i \in Gained(a, s, h) : B(k) # B(i)
    BY <1>0, <1>2, <1>5 DEF Open, Gained, B
  <2> QED  BY <1>8, <1>9, <2>1
<1> HIDE DEF mine
<1>12. NewSpends(a, mine) = {<<B(SpentNote[a][j]), B(j)>> : j \in Lost(a, s, h)}
  <2>1. ASSUME NEW e \in NewSpends(a, mine)
        PROVE  \E j \in Lost(a, s, h) : e = <<B(SpentNote[a][j]), B(j)>>
    <3>1. PICK n \in mine, b \in ToSet(read) : e = <<n, b>>
      BY <2>1 DEF NewSpends
    <3>2. PICK j \in s + 1 .. h : b = B(j)
      BY <1>4, <3>1
    <3>3. j \in DOMAIN SpentNote[a] /\ n = Ancestor(B(j), SpentNote[a][j])
      BY <2>1, <3>1, <3>2 DEF NewSpends, B
    <3>4. j \in Nat /\ SpentNote[a][j] \in Nat
      BY <1>0, <3>3
    <3>5. n = B(SpentNote[a][j])
      BY <3>3, <3>4, OneChain
    <3>6. j \in Lost(a, s, h)
      BY <1>2, <1>5, <3>2, <3>3 DEF Lost
    <3> QED  BY <3>1, <3>2, <3>5, <3>6
  <2>2. ASSUME NEW j \in Lost(a, s, h)
        PROVE  <<B(SpentNote[a][j]), B(j)>> \in NewSpends(a, mine)
    <3>1. j \in DOMAIN SpentNote[a] /\ j \in s + 1 .. h /\ j \in Nat /\ SpentNote[a][j] \in Nat
      BY <1>0, <1>2, <1>5 DEF Lost
    <3>2. B(j) \in ToSet(read)
      BY <1>4, <3>1
    <3>3. B(SpentNote[a][j]) \in mine
      BY <1>0, <1>2, <1>5, <1>10, Growth
    <3>4. Ancestor(B(j), SpentNote[a][j]) = B(SpentNote[a][j])
      BY <3>1, OneChain
    <3>5. B(j)[1] = j
      BY DEF B
    <3> QED  BY <3>1, <3>2, <3>3, <3>4, <3>5 DEF NewSpends
  <2> QED  BY <2>1, <2>2
<1> QED  BY <1>2, <1>5, <1>6, <1>7, <1>9, <1>10, <1>11, <1>12 DEF s, h, mine

\* No row of a commit is there already.
LEMMA NeverClashes ==
    ASSUME MaxBranch = 0, TypeOK, Control, Rows, Fitting, pc = "scan", read # <<>>
    PROVE  ~Clash(Scanning \cap Shielded)
<1> SUFFICES ASSUME NEW a \in Scanning \cap Shielded
             PROVE  /\ NewNotes(a) \cap notes[a] = {}
                    /\ ~\E w \in witnesses[a] : w[2] = next - 1 /\ w[1] \in tracked[a]
  BY DEF Clash
<1>1. RowsOf(a) /\ \A k \in Receives[a] : k \in Nat
  BY WalletFacts DEF Rows
<1> DEFINE s == heights[a]["S"]
           h == next - 1
<1>2. s \in Nat /\ h \in Heights /\ s < h /\ NewNotes(a) = {B(k) : k \in Gained(a, s, h)}
  BY CommitGain
<1>3. notes[a] = NotesTo(a, s) /\ \A w \in witnesses[a] : w[2] <= s
  BY <1>1 DEF RowsOf
<1> HIDE DEF s, h
<1>4. \A k \in Gained(a, s, h) : B(k) \notin NotesTo(a, s)
  BY <1>1, <1>2 DEF Gained, NotesTo, B
<1>5. NewNotes(a) \cap notes[a] = {}
  BY <1>2, <1>3, <1>4
<1>6. \A w \in witnesses[a] : w[2] # h
  <2>1. \A w \in witnesses[a] : w[2] \in Nat
    BY WalletFacts, SyncAssumption DEF TypeOK, Heights
  <2> QED  BY <1>2, <1>3, <2>1, SyncAssumption DEF Heights
<1> QED  BY <1>5, <1>6 DEF h

\* What a commit does, for each account, when no row is there already.
LEMMA CommitShape ==
    ASSUME MaxBranch = 0, TypeOK, Control, Rows, Fitting, Commit
    PROVE  /\ pc = "scan" /\ read # <<>> /\ read' = <<>>
           /\ UNCHANGED <<chain, stems, scanned, pc, accounts, target, todo, ranges, from, next,
                          prev, reorgAt, cancelled, outcome>>
           /\ \A a \in Scanning \cap Shielded : LET mine == tracked[a] \cup NewNotes(a) IN
                 /\ notes'[a] = notes[a] \cup (mine \ tracked[a])
                 /\ witnesses'[a] = witnesses[a] \cup mine \X {next - 1}
                 /\ spends'[a] = spends[a] \cup NewSpends(a, mine)
                 /\ tracked'[a] = mine \ {e[1] : e \in NewSpends(a, mine)}
                 /\ heights'[a] = [heights[a] EXCEPT !["S"] = next - 1]
                 /\ headers[a] \subseteq headers'[a] /\ B(next - 1) \in headers'[a]
           /\ \A a \in Shielded \ Scanning :
                 /\ notes'[a] = notes[a] /\ witnesses'[a] = witnesses[a]
                 /\ spends'[a] = spends[a] /\ heights'[a] = heights[a]
                 /\ headers'[a] = headers[a]
           /\ \A a \in Accounts \ Shielded :
                 heights'[a] = heights[a] /\ witnesses'[a] = witnesses[a]
<1> DEFINE as == Scanning \cap Shielded
           last == Last(read)
           h == last[1]
           mine == [a \in Accounts |-> IF a \in as THEN tracked[a] \cup NewNotes(a) ELSE {}]
           gone == [a \in Accounts |-> NewSpends(a, mine[a])]
           relevant(a) == /\ a \in Scanning
                          /\ \A b \in headers[a] : b[1] # h
                          /\ a \in as \/ heights[a]["T"] = h
<1>1. pc = "scan" /\ read # <<>>
  BY DEF Commit
<1>2. ~Clash(as)
  BY <1>1, NeverClashes
<1>3. /\ notes' = [a \in Accounts |-> notes[a] \cup (mine[a] \ tracked[a])]
      /\ witnesses' = [a \in Accounts |-> witnesses[a] \cup mine[a] \X {h}]
      /\ spends' = [a \in Accounts |-> spends[a] \cup gone[a]]
      /\ tracked' = [a \in Accounts |-> mine[a] \ {s[1] : s \in gone[a]}]
      /\ heights' = [a \in Accounts |->
            IF a \in as THEN [heights[a] EXCEPT !["S"] = h] ELSE heights[a]]
      /\ headers' = [a \in Accounts |->
            IF relevant(a) THEN headers[a] \cup {last} ELSE headers[a]]
      /\ read' = <<>>
      /\ UNCHANGED <<chain, stems, scanned, pc, accounts, target, todo, ranges, from, next, prev,
                     reorgAt, cancelled, outcome>>
  BY <1>2, Zenon DEF Commit
<1>4. Shielded \subseteq Accounts
  BY DEF Accounts
<1>5. h = next - 1
  BY <1>1 DEF Control
<1>6. \A a \in as : mine[a] = tracked[a] \cup NewNotes(a)
  BY <1>4
<1>7. \A a \in Accounts \ as : mine[a] = {}
  OBVIOUS
<1>8. \A a \in Accounts : gone[a] = NewSpends(a, mine[a])
  OBVIOUS
<1>9. \A a : NewSpends(a, {}) = {}
  BY DEF NewSpends
<1> HIDE DEF mine, gone
<1>10. ASSUME NEW a \in as
       PROVE  LET m == tracked[a] \cup NewNotes(a) IN
                 /\ notes'[a] = notes[a] \cup (m \ tracked[a])
                 /\ witnesses'[a] = witnesses[a] \cup m \X {next - 1}
                 /\ spends'[a] = spends[a] \cup NewSpends(a, m)
                 /\ tracked'[a] = m \ {e[1] : e \in NewSpends(a, m)}
                 /\ heights'[a] = [heights[a] EXCEPT !["S"] = next - 1]
  <2>1. a \in Accounts /\ mine[a] = tracked[a] \cup NewNotes(a)
    BY <1>4, <1>6
  <2>2. gone[a] = NewSpends(a, tracked[a] \cup NewNotes(a))
    BY <1>8, <2>1
  <2>3. tracked'[a] = mine[a] \ {e[1] : e \in gone[a]}
    BY <1>3, <2>1
  <2> HIDE DEF as, h, last
  <2>4. /\ notes'[a] = notes[a] \cup (mine[a] \ tracked[a])
        /\ witnesses'[a] = witnesses[a] \cup mine[a] \X {h}
        /\ spends'[a] = spends[a] \cup gone[a]
        /\ heights'[a] = [heights[a] EXCEPT !["S"] = h]
    BY <1>3, <2>1
  <2> QED  BY <1>5, <2>1, <2>2, <2>3, <2>4
<1>11. ASSUME NEW a \in as
       PROVE  headers[a] \subseteq headers'[a] /\ B(next - 1) \in headers'[a]
  <2>1. headers'[a] = IF relevant(a) THEN headers[a] \cup {last} ELSE headers[a]
    BY <1>3, <1>4
  <2>2. last = B(next - 1)
    BY <1>1, CommitGain
  <2>3. CASE relevant(a)
    BY <2>1, <2>2, <2>3
  <2>4. CASE ~relevant(a)
    <3>1. PICK b \in headers[a] : b[1] = h
      BY <2>4
    <3>2. b \in Blocks
      BY <1>4 DEF TypeOK
    <3>3. b = B(h)
      BY <3>1, <3>2, OneBlock
    <3> QED  BY <1>5, <2>1, <2>4, <3>1, <3>3
  <2> QED  BY <2>3, <2>4
<1>12. ASSUME NEW a \in Accounts \ as
       PROVE  /\ notes'[a] = notes[a] /\ witnesses'[a] = witnesses[a]
              /\ spends'[a] = spends[a] /\ heights'[a] = heights[a]
  <2>1. mine[a] = {} /\ gone[a] = {}
    BY <1>7, <1>8, <1>9
  <2>2. /\ notes'[a] = notes[a] \cup (mine[a] \ tracked[a])
        /\ witnesses'[a] = witnesses[a] \cup mine[a] \X {h}
        /\ spends'[a] = spends[a] \cup gone[a]
        /\ heights'[a] = heights[a]
    BY <1>3
  <2> HIDE DEF h, as
  <2> QED  BY <2>1, <2>2
<1>13. ASSUME NEW a \in Shielded \ Scanning PROVE headers'[a] = headers[a]
  BY <1>3, <1>4
<1> HIDE DEF relevant, last, h
<1> QED  BY <1>1, <1>3, <1>4, <1>10, <1>11, <1>12, <1>13

\* A commit takes its accounts to the last block read, with all of its rows.
LEMMA CommitRows ==
    ASSUME MaxBranch = 0, TypeOK, Control, Rows, Fitting, Commit
    PROVE  Rows' /\ \A a \in Scanning \cap Shielded : Holds(a)'
<1>1. ASSUME NEW a \in Shielded \ Scanning PROVE RowsOf(a)'
  <2>1. /\ notes'[a] = notes[a] /\ witnesses'[a] = witnesses[a] /\ spends'[a] = spends[a]
        /\ heights'[a] = heights[a] /\ headers'[a] = headers[a]
    BY CommitShape
  <2> QED  BY <2>1 DEF Rows, RowsOf, Level
<1>2. ASSUME NEW a \in Scanning \cap Shielded PROVE RowsOf(a)' /\ Holds(a)'
  <2> DEFINE s == heights[a]["S"]
             h == next - 1
             mine == tracked[a] \cup NewNotes(a)
             all == Open(a, s) \cup Gained(a, s, h)
  <2>1. /\ pc = "scan" /\ read # <<>> /\ read' = <<>> /\ next' = next
        /\ notes'[a] = notes[a] \cup (mine \ tracked[a])
        /\ witnesses'[a] = witnesses[a] \cup mine \X {h}
        /\ spends'[a] = spends[a] \cup NewSpends(a, mine)
        /\ tracked'[a] = mine \ {e[1] : e \in NewSpends(a, mine)}
        /\ heights'[a] = [heights[a] EXCEPT !["S"] = h]
        /\ headers[a] \subseteq headers'[a] /\ B(h) \in headers'[a]
    BY CommitShape
  <2>2. /\ s \in Nat /\ h \in Heights /\ s < h
        /\ NewNotes(a) = {B(k) : k \in Gained(a, s, h)}
        /\ mine = {B(k) : k \in all}
        /\ mine \ tracked[a] = NewNotes(a)
        /\ NewSpends(a, mine) = {<<B(SpentNote[a][j]), B(j)>> : j \in Lost(a, s, h)}
    BY <2>1, CommitGain
  <2>3. RowsOf(a) /\ a \in Accounts /\ "S" \in Pools(a)
    BY WalletFacts DEF Rows
  <2>4. heights'[a]["S"] = h
    BY <2>1, <2>3 DEF TypeOK
  <2>5. h \in Nat /\ next \in Nat
    BY <2>2, SyncAssumption DEF Heights, TypeOK
  <2> HIDE DEF s, h, mine
  <2>6. notes'[a] = NotesTo(a, h)
    BY <2>1, <2>2, <2>3, <2>5, Growth DEF RowsOf, s
  <2>7. spends'[a] = SpendsTo(a, h)
    BY <2>1, <2>2, <2>3, <2>5, Growth DEF RowsOf, s
  <2>8. Open(a, h) = {k \in all : \A j \in Lost(a, s, h) : SpentNote[a][j] # k}
    BY <2>2, <2>5, Growth
  <2> HIDE DEF all
  <2>9. tracked'[a] = {B(k) : k \in Open(a, h)}
    <3>1. {e[1] : e \in NewSpends(a, mine)} = {B(SpentNote[a][j]) : j \in Lost(a, s, h)}
      <4> DEFINE sp(j) == <<B(SpentNote[a][j]), B(j)>>
      <4>1. NewSpends(a, mine) = {sp(j) : j \in Lost(a, s, h)}
        BY <2>2
      <4>2. \A j : sp(j)[1] = B(SpentNote[a][j])
        OBVIOUS
      <4> HIDE DEF sp
      <4> QED  BY <4>1, <4>2
    <3>2. \A k, i : B(k) = B(i) => k = i
      BY DEF B
    <3>3. tracked'[a] = {B(k) : k \in all} \ {B(SpentNote[a][j]) : j \in Lost(a, s, h)}
      BY <2>1, <2>2, <3>1
    <3>4. ASSUME NEW b \in tracked'[a] PROVE \E k \in Open(a, h) : b = B(k)
      <4>1. PICK k \in all : b = B(k)
        BY <3>3
      <4>2. \A j \in Lost(a, s, h) : SpentNote[a][j] # k
        BY <3>3, <4>1
      <4> QED  BY <2>8, <4>1, <4>2
    <3>5. ASSUME NEW k \in Open(a, h) PROVE B(k) \in tracked'[a]
      <4>1. k \in all /\ \A j \in Lost(a, s, h) : SpentNote[a][j] # k
        BY <2>8
      <4>2. \A j \in Lost(a, s, h) : B(SpentNote[a][j]) # B(k)
        BY <3>2, <4>1
      <4> QED  BY <3>3, <4>1, <4>2
    <3> QED  BY <3>4, <3>5
  <2> DEFINE Kept(k) == /\ k > 0 => B(k) \in headers'[a]
                        /\ \A i \in Open(a, k) : <<B(i), k>> \in witnesses'[a]
  <2>10. Kept(h)
    <3>1. Open(a, h) \subseteq all
      BY <2>8
    <3>2. \A k \in Open(a, h) : <<B(k), h>> \in witnesses'[a]
      BY <2>1, <2>2, <3>1
    <3> QED  BY <2>1, <3>2
  <2>11. \A w \in witnesses'[a] : w[2] <= h /\ Kept(w[2])
    <3>1. ASSUME NEW w \in witnesses[a] PROVE w[2] <= h /\ Kept(w[2])
      <4>1. w[2] <= s /\ Level(a, w[2]) /\ w[2] \in Nat
        BY <2>3, SyncAssumption DEF RowsOf, TypeOK, Heights, s
      <4>2. \A k \in Open(a, w[2]) : <<B(k), w[2]>> \in witnesses'[a]
        BY <2>1, <4>1 DEF Level
      <4>3. w[2] > 0 => B(w[2]) \in headers'[a]
        BY <2>1, <4>1 DEF Level
      <4> QED  BY <2>2, <2>5, <4>1, <4>2, <4>3 DEF s
    <3>2. ASSUME NEW w \in mine \X {h} PROVE w[2] <= h /\ Kept(w[2])
      <4>1. w[2] = h
        BY <3>2
      <4> HIDE DEF Kept
      <4> QED  BY <2>5, <2>10, <4>1
    <3> QED  BY <2>1, <3>1, <3>2
  <2>12. RowsOf(a)'
    BY <2>4, <2>6, <2>7, <2>10, <2>11 DEF RowsOf, Level
  <2>13. Holds(a)'
    <3>1. ToSet(read') = {}
      BY <2>1 DEF ToSet
    <3>2. {B(k) : k \in h + 1 .. next - 1} = {}
      BY <2>5 DEF h
    <3>3. h < next
      BY <2>5 DEF h
    <3> QED  BY <2>1, <2>4, <2>9, <3>1, <3>2, <3>3 DEF Holds
  <2> QED  BY <2>12, <2>13
<1> QED  BY <1>1, <1>2 DEF Rows

-----------------------------------------------------------------------------
\* Where the plan takes the accounts.

\* An account of the current range stands right before it.
LEMMA FirstFits ==
    ASSUME TypeOK, ranges # {}, NEW a \in Accounts, NEW p \in Pools(a),
           a \in Current.accounts, Fits(a, p)
    PROVE  heights[a][p] = Current.start - 1
<1>1. Current \in ranges /\ \A o \in ranges : Current.start <= o.start
  BY CurrentFirst
<1>2. heights[a][p] < Current.start /\ \E o \in ranges : o.start = heights[a][p] + 1
  BY <1>1 DEF Fits
<1>3. heights[a][p] \in Nat /\ Current.start \in Nat
  BY <1>1, SyncAssumption DEF TypeOK, Heights
<1> QED  BY <1>1, <1>2, <1>3

\* The accounts of a range that is done stand right before the next one.
LEMMA RestFits ==
    ASSUME TypeOK, ranges # {}, Ordered(ranges, target), NEW a \in Accounts, NEW p \in Pools(a),
           a \in Current.accounts => heights[a][p] = Current.end,
           a \notin Current.accounts => Fits(a, p),
           ranges' = ranges \ {Current}, heights' = heights
    PROVE  Fits(a, p)'
<1>1. Current \in ranges
  BY CurrentFirst
<1>2. CASE a \in Current.accounts
  <2>1. heights[a][p] = Current.end
    BY <1>2
  <2> SUFFICES ASSUME NEW r \in ranges \ {Current}
               PROVE  /\ Current.end < r.start
                      /\ \E o \in ranges \ {Current} :
                            a \in o.accounts /\ o.start = Current.end + 1
    BY <2>1 DEF Fits
  <2>2. Current.start < r.start
    BY RestOrdered
  <2>3. Current.end < r.start
    BY <1>1, <2>2 DEF Ordered
  <2>4. Current.end # target
    <3>1. r.start <= r.end /\ r.end <= target
      BY DEF Ordered
    <3>2. r.start \in Nat /\ r.end \in Nat /\ target \in Nat /\ Current.end \in Nat
      BY <1>1, SyncAssumption DEF TypeOK, Heights
    <3> QED  BY <2>3, <3>1, <3>2
  <2>5. PICK o \in ranges \ {Current} : o.start = Current.end + 1
    BY <2>4, RestOrdered
  <2>6. Current.start < o.start
    BY RestOrdered
  <2>7. Current.accounts \subseteq o.accounts
    BY <1>1, <2>6 DEF Ordered
  <2> QED  BY <1>2, <2>3, <2>5, <2>7
<1>3. CASE a \notin Current.accounts
  BY <1>3 DEF Fits
<1> QED  BY <1>2, <1>3

\* An account of a plan stands right before its first range.
LEMMA PlanFits ==
    ASSUME TypeOK, NEW a \in Accounts, NEW p \in Pools(a), a \in accounts => Lowest(a) = heights[a][p],
           ranges' = PlanSync, heights' = heights
    PROVE  Fits(a, p)'
<1> SUFFICES ASSUME NEW r \in PlanSync, a \in r.accounts
             PROVE  /\ heights[a][p] < r.start
                    /\ \E o \in PlanSync : a \in o.accounts /\ o.start = heights[a][p] + 1
  BY DEF Fits
<1>1. a \in accounts /\ Lowest(a) < r.start
  BY PlanOrdered
<1>2. r.start \in Nat /\ r.end \in Nat /\ r.start <= r.end /\ r.end <= target
  BY PlanOrdered, SyncAssumption DEF Heights, Ordered
<1>3. Lowest(a) \in Nat /\ target \in Nat
  BY LowestType, SyncAssumption DEF TypeOK
<1>4. Lowest(a) < target
  BY <1>1, <1>2, <1>3
<1>5. PICK o \in PlanSync : o.start = Lowest(a) + 1
  BY <1>1, <1>4, PlanOrdered
<1>6. o.accounts = {b \in accounts : Lowest(b) < o.start}
  BY PlanOrdered
<1>7. a \in o.accounts
  BY <1>1, <1>3, <1>5, <1>6
<1> QED  BY <1>1, <1>5, <1>7

\* On a chain that does not reorganize every block connects.
LEMMA AlwaysConnects ==
    ASSUME MaxBranch = 0, TypeOK, Control, Fitting
    PROVE  ~DetectReorg
<1> SUFFICES ASSUME DetectReorg PROVE FALSE
  OBVIOUS
<1>1. pc = "scan" /\ next <= Len(chain) /\ ~Connects /\ prev \subseteq {B(next - 1)}
  BY DEF DetectReorg, Fitting
<1>2. next \in Nat /\ next >= 1 /\ Len(chain) \in Nat
  <2>1. ranges # {} /\ from \in Current.start .. Current.end /\ next \in from .. ChunkEnd + 1
    BY <1>1 DEF Control
  <2> QED  BY <2>1, ChunkInRange, SyncAssumption DEF TypeOK, Heights
<1>3. Block(next) = B(next)
  BY <1>1, <1>2, OneChain
<1>4. Ancestor(Block(next), next - 1) = B(next - 1)
  BY <1>2, <1>3, OneChain
<1> QED  BY <1>1, <1>4 DEF Connects

-----------------------------------------------------------------------------
\* Every step keeps the rows, and where the accounts stand.

\* Every step keeps the rows true of their checkpoint.
LEMMA StepRows ==
    ASSUME MaxBranch = 0, TypeOK, Control, Rows, Fitting, Ahead, Next
    PROVE  Rows'
<1>1. ASSUME UNCHANGED <<heights, headers, notes, spends, witnesses>> PROVE Rows'
  BY <1>1 DEF Rows, RowsOf, Level
<1>2. ASSUME NEW a \in Accounts, NEW h \in RewindHeights, UserRewind(a, h) PROVE Rows'
  BY <1>2, RewindRows, SyncAssumption DEF UserRewind, Heights
<1>3. ASSUME NEW a \in Accounts, Prune(a) PROVE Rows'
  <2> DEFINE kept == CheckpointBefore(a, Max({0, target - CheckpointAge}))
  <2>1. /\ witnesses' = [witnesses EXCEPT ![a] = {w \in @ : w[2] >= kept}]
        /\ UNCHANGED <<heights, headers, notes, spends>>
    BY <1>3 DEF Prune
  <2> SUFFICES ASSUME NEW c \in Shielded PROVE RowsOf(c)'
    BY DEF Rows
  <2>2. c \in Accounts /\ "S" \in Pools(c) /\ RowsOf(c) /\ heights[c]["S"] \in Nat
    BY WalletFacts, SyncAssumption DEF Rows, TypeOK
  <2>3. CASE c # a
    <3>1. witnesses'[c] = witnesses[c]
      BY <2>1, <2>2, <2>3 DEF TypeOK
    <3> QED  BY <2>1, <2>2, <3>1 DEF RowsOf, Level
  <2>4. CASE c = a
    <3>1. Max({0, target - CheckpointAge}) \in Nat
      <4>1. CASE target - CheckpointAge \in Nat
        <5>1. {0, target - CheckpointAge} \in SUBSET (0 .. (target - CheckpointAge))
          BY <4>1
        <5> QED  BY <4>1, <5>1, MaxGreatest
      <4>2. CASE target - CheckpointAge \notin Nat
        <5>1. target - CheckpointAge \in Int /\ target - CheckpointAge < 0
          BY <4>2, SyncAssumption DEF TypeOK
        <5>2. Max({0, target - CheckpointAge}) = 0
          BY <5>1 DEF Max
        <5> QED  BY <5>2
      <4> QED  BY <4>1, <4>2
    <3>2. kept \in Nat /\ (kept = 0 \/ \E w \in witnesses[a] : w[2] = kept)
      <4>1. /\ kept \in 0 .. MaxHeight
            /\ kept = 0 \/ \E w \in witnesses[a] : w[2] = kept
        BY <3>1, CheckpointType
      <4> HIDE DEF kept
      <4> QED  BY <4>1, SyncAssumption
    <3> HIDE DEF kept
    <3>3. kept <= heights[c]["S"]
      BY <2>2, <2>4, <3>2 DEF RowsOf
    <3>4. witnesses'[c] = {w \in witnesses[c] : w[2] >= kept}
      BY <2>1, <2>2, <2>4 DEF TypeOK
    <3>5. ASSUME NEW h \in Nat, h >= kept, Level(c, h) PROVE Level(c, h)'
      BY <2>1, <3>4, <3>5 DEF Level
    <3>6. \A w \in witnesses'[c] : w[2] \in Nat
      BY <2>2, <3>4, SyncAssumption DEF TypeOK, Heights
    <3> QED  BY <2>1, <2>2, <3>2, <3>3, <3>4, <3>5, <3>6 DEF RowsOf
  <2> QED  BY <2>3, <2>4
<1>4. ASSUME NEW a \in Accounts, Recover(a) PROVE Rows'
  <2> DEFINE to == [b \in {a} |-> Lowest(b)]
  <2>1. Trim({a}, to)
    BY <1>4 DEF Recover
  <2>2. to \in [{a} -> 0 .. MaxHeight] /\ to[a] = Lowest(a)
    BY LowestType
  <2> HIDE DEF to
  <2>3. \A b \in {a} \cap Shielded : Stays(b, to[b])
    BY <2>2, LowestShielded DEF Stays
  <2> QED  BY <2>1, <2>2, <2>3, TrimRows
<1>5. ASSUME NEW a \in Transparent, NEW x \in Addresses, ScanAddress(a, x) PROVE Rows'
  <2>1. /\ heights' = [heights EXCEPT ![a]["T"] = Current.end]
        /\ UNCHANGED <<headers, notes, spends, witnesses>>
    BY <1>5 DEF ScanAddress
  <2>2. \A c \in Shielded : heights'[c]["S"] = heights[c]["S"]
    BY <2>1, WalletFacts DEF TypeOK
  <2> QED  BY <2>1, <2>2 DEF Rows, RowsOf, Level
<1>6. ASSUME Commit PROVE Rows'
  BY <1>6, CommitRows
<1>7. ~DetectReorg /\ ~\E h \in Heights : Reorganize(h)
  BY AlwaysConnects, OneChain
<1>8. CASE \/ Mine \/ Plan \/ StartRange \/ EndTransparent \/ SkipRange \/ OpenScan \/ ReadBlock
           \/ NextChunk \/ EndRange
  BY <1>1, <1>8 DEF Mine, Plan, StartRange, EndTransparent, SkipRange, OpenScan, ReadBlock,
                    NextChunk, EndRange, tables
<1>9. CASE \/ \E as \in SUBSET Accounts \ {{}} : StartSync(as)
           \/ Cancel \/ Finish \/ Stop \/ Abort
  BY <1>1, <1>9 DEF StartSync, Cancel, Finish, Stop, Abort, tables
<1> QED
  BY <1>2, <1>3, <1>4, <1>5, <1>6, <1>7, <1>8, <1>9 DEF Next, RunStep

\* What is in a sequence with one more element.
LEMMA AppendSet ==
    ASSUME NEW S, NEW q \in Seq(S), NEW e
    PROVE  ToSet(Append(q, e)) = ToSet(q) \cup {e}
<1> DEFINE T == S \cup {e}
<1>1. q \in Seq(T) /\ e \in T
  <2>1. Len(q) \in Nat /\ \A i \in 1 .. Len(q) : q[i] \in S
    BY ElementType
  <2>2. \A i \in 1 .. Len(q) : q[i] \in T
    BY <2>1
  <2>3. q = [i \in 1 .. Len(q) |-> q[i]]
    OBVIOUS
  <2> QED  BY <2>1, <2>2, <2>3
<1> HIDE DEF T
<1>2. /\ Len(q) \in Nat /\ DOMAIN q = 1 .. Len(q)
      /\ DOMAIN Append(q, e) = 1 .. (Len(q) + 1)
      /\ \A i \in 1 .. Len(q) : Append(q, e)[i] = q[i]
      /\ Append(q, e)[Len(q) + 1] = e
  BY <1>1
<1> QED  BY <1>2 DEF ToSet

\* Every step keeps the plan in line with the checkpoints.
LEMMA StepFitting ==
    ASSUME MaxBranch = 0, TypeOK, Control, Rows, Fitting, Ahead, Next
    PROVE  Fitting'
<1>0. \A a \in Shielded : a \in Accounts /\ "S" \in Pools(a) /\ heights[a]["S"] \in 0 .. MaxHeight
  BY DEF Accounts, Pools, TypeOK
<1>1. ASSUME pc' \in {"idle", "prune", "recover"} PROVE Fitting'
  BY <1>1 DEF Fitting
<1>2. ASSUME Mine \/ Cancel PROVE Fitting'
  <2>1. UNCHANGED <<pc, heights, ranges, from, next, read, prev, tracked>>
    BY <1>2 DEF Mine, Cancel, tables, scan
  <2>2. Current' = Current /\ Scanning' = Scanning
    BY <2>1, SameRange
  <2> QED  BY <2>1, <2>2 DEF Fitting, Fits, Holds
<1>3. ASSUME Plan PROVE Fitting'
  <2>1. pc' = "range" /\ ranges' = PlanSync /\ heights' = heights
    BY <1>3 DEF Plan, tables
  <2>2. \A a \in Shielded : Fits(a, "S")'
    BY <1>0, <2>1, LowestShielded, PlanFits
  <2> QED  BY <2>1, <2>2 DEF Fitting
<1>4. ASSUME StartRange PROVE Fitting'
  <2>1. pc = "range" /\ pc' = "transparent" /\ UNCHANGED <<heights, ranges>>
    BY <1>4 DEF StartRange, tables
  <2> QED  BY <2>1 DEF Fitting, Fits
<1>5. ASSUME NEW a \in Transparent, NEW x \in Addresses, ScanAddress(a, x) PROVE Fitting'
  <2>1. /\ pc = "transparent" /\ pc' = pc /\ ranges' = ranges
        /\ heights' = [heights EXCEPT ![a]["T"] = Current.end]
    BY <1>5 DEF ScanAddress
  <2>2. \A c \in Shielded : heights'[c]["S"] = heights[c]["S"]
    BY <1>0, <2>1 DEF TypeOK
  <2> QED  BY <2>1, <2>2 DEF Fitting, Fits
<1>6. ASSUME EndTransparent PROVE Fitting'
  <2>1. /\ pc = "transparent" /\ pc' = "open" /\ from' = Current.start
        /\ UNCHANGED <<heights, ranges>>
    BY <1>6 DEF EndTransparent, tables
  <2>2. Current' = Current /\ Scanning' = Scanning /\ ranges # {}
    BY <2>1, SameRange DEF Control
  <2>3. \A a \in Scanning \cap Shielded : heights[a]["S"] = Current.start - 1
    BY <1>0, <2>1, <2>2, FirstFits DEF Fitting, Scanning
  <2>4. \A a \in Shielded : Fits(a, "S")'
    BY <2>1 DEF Fitting, Fits
  <2> QED  BY <2>1, <2>2, <2>3, <2>4 DEF Fitting
<1>7. ASSUME SkipRange PROVE Fitting'
  <2>1. /\ pc = "open" /\ pc' = "range" /\ Scanning \cap Shielded = {}
        /\ ranges' = ranges \ {Current} /\ heights' = heights
    BY <1>7 DEF SkipRange, tables
  <2>2. ranges # {} /\ Ordered(ranges, target)
    BY <2>1 DEF Control
  <2>3. \A a \in Shielded : a \notin Current.accounts /\ Fits(a, "S")
    BY <2>1 DEF Fitting, Scanning
  <2>4. \A a \in Shielded : Fits(a, "S")'
    BY <1>0, <2>1, <2>2, <2>3, RestFits
  <2> QED  BY <2>1, <2>4 DEF Fitting
<1>8. ASSUME OpenScan PROVE Fitting'
  <2>1. /\ pc = "open" /\ pc' = "scan" /\ next' = from /\ read' = <<>>
        /\ tracked' = [a \in Accounts |-> IF a \in Scanning THEN Trackable(a) ELSE {}]
        /\ prev' = {b \in UNION {headers[a] : a \in Scanning} : b[1] = from - 1}
        /\ UNCHANGED <<heights, ranges, from>>
    BY <1>8 DEF OpenScan, tables
  <2>2. /\ Current' = Current /\ Scanning' = Scanning /\ ranges # {}
        /\ from \in Current.start .. Current.end
    BY <2>1, SameRange DEF Control
  <2>3. Scanning \subseteq Accounts /\ from \in Nat
    BY <2>2, ChunkInRange, SyncAssumption DEF Scanning, TypeOK
  <2>4. prev' \subseteq {B(from - 1)}
    <3> SUFFICES ASSUME NEW b \in prev' PROVE b = B(from - 1)
      OBVIOUS
    <3>1. PICK a \in Scanning : b \in headers[a] /\ b[1] = from - 1
      BY <2>1
    <3>2. b \in Blocks
      BY <2>3, <3>1 DEF TypeOK
    <3> QED  BY <3>1, <3>2, OneBlock
  <2>5. ASSUME NEW a \in Scanning \cap Shielded PROVE Holds(a)'
    <3> DEFINE s == heights[a]["S"]
    <3>1. s = from - 1 /\ s \in Nat
      BY <1>0, <2>1, SyncAssumption DEF Fitting
    <3>2. RowsOf(a)
      BY DEF Rows
    <3>3. tracked'[a] = {n \in notes[a] \ Spent(a) : <<n, from - 1>> \in witnesses[a]}
      BY <1>0, <2>1 DEF Trackable
    <3>4. notes[a] = NotesTo(a, s) /\ spends[a] = SpendsTo(a, s) /\ Level(a, s)
      BY <3>2 DEF RowsOf
    <3> HIDE DEF s
    <3>5. Spent(a) = {B(SpentNote[a][j]) : j \in {i \in DOMAIN SpentNote[a] : i <= s}}
      <4> DEFINE sp(j) == <<B(SpentNote[a][j]), B(j)>>
      <4>1. spends[a] = {sp(j) : j \in {i \in DOMAIN SpentNote[a] : i <= s}}
        BY <3>4 DEF SpendsTo
      <4>2. \A j : sp(j)[1] = B(SpentNote[a][j])
        OBVIOUS
      <4> HIDE DEF sp
      <4> QED  BY <4>1, <4>2 DEF Spent
    <3>6. \A j \in DOMAIN SpentNote[a] : j \in Nat
      BY WalletFacts
    <3>7. ASSUME NEW k \in Open(a, s) PROVE B(k) \in tracked'[a]
      <4>1. B(k) \in notes[a] /\ <<B(k), s>> \in witnesses[a]
        BY <3>4 DEF NotesTo, Open, Level
      <4>2. ASSUME NEW j \in DOMAIN SpentNote[a], j <= s, B(SpentNote[a][j]) = B(k) PROVE FALSE
        <5>1. SpentNote[a][j] = k
          BY <4>2 DEF B
        <5>2. j > s
          BY <5>1 DEF Open
        <5> QED  BY <3>1, <3>6, <4>2, <5>2
      <4>3. B(k) \notin Spent(a)
        BY <3>5, <4>2
      <4> QED  BY <3>1, <3>3, <4>1, <4>3
    <3>8. ASSUME NEW n \in tracked'[a] PROVE \E k \in Open(a, s) : n = B(k)
      <4>1. PICK k \in Receives[a] : k <= s /\ n = B(k)
        BY <3>3, <3>4 DEF NotesTo
      <4>2. ASSUME NEW j \in DOMAIN SpentNote[a], SpentNote[a][j] = k PROVE j > s
        <5>1. ~(j <= s)
          BY <3>3, <3>5, <4>1, <4>2
        <5> QED  BY <3>1, <3>6, <5>1
      <4> QED  BY <4>1, <4>2 DEF Open
    <3>9. tracked'[a] = {B(k) : k \in Open(a, s)}
      BY <3>7, <3>8
    <3>10. ToSet(read') = {}
      BY <2>1 DEF ToSet
    <3>11. heights'[a]["S"] = s /\ next' = from /\ s < from /\ s + 1 .. from - 1 = {}
      BY <2>1, <2>3, <3>1 DEF s
    <3> QED  BY <3>9, <3>10, <3>11 DEF Holds
  <2>6. \A a \in Shielded \ Current.accounts : Fits(a, "S")'
    BY <2>1 DEF Fitting, Fits
  <2> QED  BY <2>1, <2>2, <2>4, <2>5, <2>6 DEF Fitting
<1>9. ASSUME ReadBlock PROVE Fitting'
  <2>1. /\ pc = "scan" /\ pc' = pc /\ next <= ChunkEnd /\ next <= Len(chain)
        /\ read' = Append(read, Block(next)) /\ prev' = {Block(next)} /\ next' = next + 1
        /\ UNCHANGED <<heights, ranges, tracked>>
    BY <1>9 DEF ReadBlock, tables
  <2>2. /\ Current' = Current /\ Scanning' = Scanning /\ ranges # {}
        /\ from \in Current.start .. Current.end /\ next \in from .. ChunkEnd + 1
    BY <2>1, SameRange DEF Control
  <2>3. next \in Nat /\ next >= 1 /\ next \in 1 .. Len(chain)
    <3>1. next \in Nat /\ next >= 1
      BY <2>2, ChunkInRange, SyncAssumption DEF TypeOK, Heights
    <3>2. Len(chain) \in Nat
      BY DEF TypeOK
    <3> QED  BY <2>1, <3>1, <3>2
  <2>4. Block(next) = B(next)
    BY <2>3, OneChain
  <2>5. prev' = {B(next' - 1)}
    BY <2>1, <2>3, <2>4
  <2>6. ToSet(read') = ToSet(read) \cup {B(next)}
    <3>1. read \in Seq(Blocks)
      BY DEF TypeOK
    <3> QED  BY <2>1, <2>4, <3>1, AppendSet
  <2>7. ASSUME NEW a \in Scanning \cap Shielded PROVE Holds(a)'
    <3>1. heights[a]["S"] \in Nat /\ Holds(a)
      BY <1>0, <2>1, SyncAssumption DEF Fitting
    <3>2. heights[a]["S"] + 1 .. next' - 1 = (heights[a]["S"] + 1 .. next - 1) \cup {next}
      BY <2>1, <2>3, <3>1 DEF Holds
    <3>3. ToSet(read') = {B(k) : k \in heights[a]["S"] + 1 .. next' - 1}
      BY <2>6, <3>1, <3>2 DEF Holds
    <3>4. heights[a]["S"] < next'
      BY <2>1, <2>3, <3>1 DEF Holds
    <3> QED  BY <2>1, <3>1, <3>3, <3>4 DEF Holds
  <2>8. \A a \in Shielded \ Current.accounts : Fits(a, "S")'
    BY <2>1 DEF Fitting, Fits
  <2> QED  BY <2>1, <2>2, <2>5, <2>7, <2>8 DEF Fitting
<1>10. ASSUME Commit PROVE Fitting'
  <2>1. /\ pc = "scan" /\ UNCHANGED <<pc, ranges, next, prev>>
        /\ \A a \in Shielded \ Scanning : heights'[a] = heights[a]
    BY <1>10, CommitShape
  <2>2. Current' = Current /\ Scanning' = Scanning
    BY <2>1, SameRange
  <2>3. \A a \in Scanning \cap Shielded : Holds(a)'
    BY <1>10, CommitRows
  <2>4. \A a \in Shielded \ Current.accounts : Fits(a, "S")'
    BY <2>1 DEF Fitting, Fits, Scanning
  <2> QED  BY <2>1, <2>2, <2>3, <2>4 DEF Fitting
<1>11. ASSUME NextChunk \/ EndRange PROVE Fitting'
  <2>1. /\ pc = "scan" /\ read = <<>> /\ next > ChunkEnd /\ heights' = heights
        /\ \/ pc' = "open" /\ from' = ChunkEnd + 1 /\ ranges' = ranges
           \/ pc' = "range" /\ ChunkEnd = Current.end /\ ranges' = ranges \ {Current}
    BY <1>11 DEF NextChunk, EndRange, tables
  <2>2. /\ ranges # {} /\ from \in Current.start .. Current.end /\ next \in from .. ChunkEnd + 1
        /\ Ordered(ranges, target)
    BY <2>1 DEF Control
  <2>3. ChunkEnd \in Nat /\ from \in Nat /\ next = ChunkEnd + 1
    <3>1. ChunkEnd \in from .. Current.end
      BY <2>2, ChunkInRange
    <3>2. from \in Nat /\ next \in Nat
      BY SyncAssumption DEF TypeOK
    <3>3. ChunkEnd \in Nat
      BY <3>1, <3>2
    <3> QED  BY <2>1, <2>2, <3>2, <3>3
  <2>4. \A a \in Scanning \cap Shielded : heights[a]["S"] = ChunkEnd
    <3> SUFFICES ASSUME NEW a \in Scanning \cap Shielded PROVE heights[a]["S"] = ChunkEnd
      OBVIOUS
    <3>1. Holds(a) /\ heights[a]["S"] \in Nat
      BY <1>0, <2>1, SyncAssumption DEF Fitting
    <3>2. {B(k) : k \in heights[a]["S"] + 1 .. next - 1} = {}
      BY <2>1, <3>1 DEF Holds, ToSet
    <3>3. ~(heights[a]["S"] + 1 \in heights[a]["S"] + 1 .. next - 1)
      BY <3>2
    <3> QED  BY <2>3, <3>1, <3>3 DEF Holds
  <2>5. CASE pc' = "open" /\ from' = ChunkEnd + 1 /\ ranges' = ranges
    <3>1. Current' = Current /\ Scanning' = Scanning
      BY <2>5, SameRange
    <3>2. from' - 1 = ChunkEnd
      BY <2>3, <2>5
    <3> QED  BY <2>1, <2>4, <2>5, <3>1, <3>2 DEF Fitting, Fits
  <2>6. CASE pc' = "range" /\ ChunkEnd = Current.end /\ ranges' = ranges \ {Current}
    <3>1. \A a \in Shielded : Fits(a, "S")'
      <4> SUFFICES ASSUME NEW a \in Shielded PROVE Fits(a, "S")'
        OBVIOUS
      <4>1. a \in Current.accounts => heights[a]["S"] = Current.end
        BY <2>4, <2>6 DEF Scanning
      <4>2. a \notin Current.accounts => Fits(a, "S")
        BY <2>1 DEF Fitting
      <4> QED  BY <1>0, <2>1, <2>2, <2>6, <4>1, <4>2, RestFits
    <3> QED  BY <2>6, <3>1 DEF Fitting
  <2> QED  BY <2>1, <2>5, <2>6
<1>12. CASE \/ \E as \in SUBSET Accounts \ {{}} : StartSync(as)
            \/ \E a \in Accounts, h \in RewindHeights : UserRewind(a, h)
            \/ \E a \in Accounts : Prune(a) \/ Recover(a)
            \/ Finish \/ Stop \/ Abort
  BY <1>1, <1>12 DEF StartSync, UserRewind, Prune, Recover, Finish, Stop, Abort, RunOver
<1>13. ~DetectReorg /\ ~\E h \in Heights : Reorganize(h)
  BY AlwaysConnects, OneChain
<1> QED
  BY <1>2, <1>3, <1>4, <1>5, <1>6, <1>7, <1>8, <1>9, <1>10, <1>11, <1>12, <1>13 DEF Next, RunStep

\* Every step keeps the scanner at the heights above what is committed.
LEMMA StepAhead ==
    ASSUME MaxBranch = 0, Addresses # {}, TypeOK, Control, Rows, Fitting, Ahead, Next
    PROVE  Ahead'
<1>0. /\ \A a \in Shielded \cap Transparent :
            a \in Accounts /\ "S" \in Pools(a) /\ "T" \in Pools(a)
      /\ \A a \in Transparent : a \in Accounts /\ "T" \in Pools(a)
  BY DEF Accounts, Pools
<1>t. \A a \in Accounts : \A p \in Pools(a) : heights[a][p] \in Nat
  BY SyncAssumption DEF TypeOK
<1> DEFINE Behind == \A a \in Shielded \cap Transparent : heights[a]["S"] <= heights[a]["T"]
<1>1. ASSUME Behind', pc' \in {"idle", "prune", "recover", "range"} PROVE Ahead'
  BY <1>1 DEF Ahead
<1>2. ASSUME heights' = heights PROVE Behind'
  BY <1>2 DEF Ahead
<1>3. ASSUME NEW as \in SUBSET Accounts, NEW to \in [as -> Nat], Trim(as, to) PROVE Behind'
  <2> SUFFICES ASSUME NEW a \in Shielded \cap Transparent
               PROVE  heights'[a]["S"] <= heights'[a]["T"]
    OBVIOUS
  <2>1. CASE a \in as
    <3>1. heights'[a] = [p \in Pools(a) |-> to[a]]
      BY <1>0, <1>3, <2>1 DEF Trim
    <3>2. heights'[a]["S"] = to[a] /\ heights'[a]["T"] = to[a]
      BY <1>0, <3>1
    <3>3. heights'[a]["S"] \in Nat /\ heights'[a]["S"] = heights'[a]["T"]
      BY <2>1, <3>2
    <3> QED  BY <3>3
  <2>2. CASE a \notin as
    <3>1. heights'[a] = heights[a]
      BY <1>0, <1>3, <2>2 DEF Trim
    <3> QED  BY <3>1 DEF Ahead
  <2> QED  BY <2>1, <2>2
<1>4. ASSUME NEW a \in Accounts, NEW h \in RewindHeights, UserRewind(a, h) PROVE Ahead'
  <2> DEFINE to == [b \in {a} |-> CheckpointBefore(b, h)]
  <2>1. h \in Nat /\ \A b \in {a} : CheckpointBefore(b, h) \in Nat
    BY CheckpointType, SyncAssumption DEF Heights
  <2>2. to \in [{a} -> Nat]
    BY <2>1
  <2>3. Trim({a}, to) /\ pc' \in {"idle", "prune", "recover", "range"}
    BY <1>4 DEF UserRewind, Rewind
  <2> HIDE DEF to
  <2> QED  BY <1>1, <1>3, <2>2, <2>3
<1>5. ASSUME NEW a \in Accounts, Recover(a) PROVE Ahead'
  <2> DEFINE to == [b \in {a} |-> Lowest(b)]
  <2>1. to \in [{a} -> Nat]
    BY LowestType, SyncAssumption
  <2>2. Trim({a}, to) /\ pc' \in {"idle", "prune", "recover", "range"}
    BY <1>5 DEF Recover
  <2> HIDE DEF to
  <2> QED  BY <1>1, <1>3, <2>1, <2>2
<1>6. ASSUME StartRange PROVE Ahead'
  <2>1. /\ pc' = "transparent" /\ heights' = heights /\ ranges' = ranges
        /\ todo' = (Current.accounts \cap Transparent) \X Addresses
    BY <1>6 DEF StartRange, tables
  <2>2. Current' = Current
    BY <2>1, SameRange
  <2>3. \A a \in Current.accounts \cap Transparent : \E x \in Addresses : <<a, x>> \in todo'
    BY <2>1
  <2> QED  BY <1>2, <2>1, <2>2, <2>3 DEF Ahead
<1>7. ASSUME NEW a \in Transparent, NEW x \in Addresses, ScanAddress(a, x) PROVE Ahead'
  <2>1. /\ pc = "transparent" /\ pc' = pc /\ ranges' = ranges /\ <<a, x>> \in todo
        /\ todo' = todo \ {<<a, x>>}
        /\ heights' = [heights EXCEPT ![a]["T"] = Current.end]
    BY <1>7 DEF ScanAddress
  <2>2. Current' = Current /\ ranges # {}
    BY <2>1, SameRange DEF Control
  <2>3. /\ Current \in ranges /\ Current.start \in Nat /\ Current.end \in Nat
        /\ Current.start <= Current.end
    BY <2>1, <2>2, CurrentFirst, SyncAssumption DEF TypeOK, Heights, Control, Ordered
  <2>4. a \in Current.accounts
    BY <2>1 DEF Control
  <2>5. heights'[a]["T"] = Current.end /\ \A c \in Accounts \ {a} : heights'[c] = heights[c]
    BY <1>0, <2>1 DEF TypeOK
  <2>6. a \in Shielded => heights'[a]["S"] = Current.start - 1
    <3>1. a \in Shielded => heights'[a]["S"] = heights[a]["S"]
      BY <1>0, <2>1 DEF TypeOK
    <3>2. a \in Shielded => heights[a]["S"] = Current.start - 1
      BY <1>0, <2>1, <2>2, <2>4, FirstFits DEF Fitting
    <3> QED  BY <3>1, <3>2
  <2>7. Behind'
    <3> SUFFICES ASSUME NEW c \in Shielded \cap Transparent
                 PROVE  heights'[c]["S"] <= heights'[c]["T"]
      OBVIOUS
    <3>1. CASE c = a
      BY <2>3, <2>5, <2>6, <3>1
    <3>2. CASE c # a
      BY <1>0, <2>5, <3>2 DEF Ahead
    <3> QED  BY <3>1, <3>2
  <2>8. \A c \in Current.accounts \cap Transparent :
           heights'[c]["T"] = Current.end \/ \E y \in Addresses : <<c, y>> \in todo'
    <3> SUFFICES ASSUME NEW c \in Current.accounts \cap Transparent, c # a
                 PROVE  heights'[c]["T"] = Current.end \/ \E y \in Addresses : <<c, y>> \in todo'
      BY <2>5
    <3>1. heights[c]["T"] = Current.end \/ \E y \in Addresses : <<c, y>> \in todo
      BY <2>1 DEF Ahead
    <3>2. heights'[c] = heights[c]
      BY <1>0, <2>5
    <3> QED  BY <2>1, <3>1, <3>2
  <2> QED  BY <2>1, <2>2, <2>7, <2>8 DEF Ahead
<1>8. ASSUME EndTransparent PROVE Ahead'
  <2>1. /\ pc = "transparent" /\ pc' = "open" /\ todo = {} /\ heights' = heights
        /\ ranges' = ranges
    BY <1>8 DEF EndTransparent, tables
  <2>2. Current' = Current
    BY <2>1, SameRange
  <2> QED  BY <1>2, <2>1, <2>2 DEF Ahead
<1>9. ASSUME OpenScan \/ ReadBlock \/ NextChunk PROVE Ahead'
  <2>1. /\ pc \in {"open", "scan"} /\ pc' \in {"open", "scan"} /\ heights' = heights
        /\ ranges' = ranges
    BY <1>9 DEF OpenScan, ReadBlock, NextChunk, tables
  <2>2. Current' = Current
    BY <2>1, SameRange
  <2> QED  BY <1>2, <2>1, <2>2 DEF Ahead
<1>10. ASSUME Commit PROVE Ahead'
  <2>1. /\ pc = "scan" /\ UNCHANGED <<pc, ranges, next>> /\ read # <<>>
        /\ \A a \in Scanning \cap Shielded : heights'[a] = [heights[a] EXCEPT !["S"] = next - 1]
        /\ \A a \in Shielded \ Scanning : heights'[a] = heights[a]
        /\ \A a \in Accounts \ Shielded : heights'[a] = heights[a]
    BY <1>10, CommitShape
  <2>2. /\ Current' = Current /\ ranges # {} /\ from \in Current.start .. Current.end
        /\ next \in from .. ChunkEnd + 1
    BY <2>1, SameRange DEF Control
  <2>3. next - 1 <= Current.end
    BY <2>2, ChunkInRange, SyncAssumption DEF TypeOK, Heights
  <2>4. \A a \in Transparent : heights'[a]["T"] = heights[a]["T"]
    <3> SUFFICES ASSUME NEW a \in Transparent PROVE heights'[a]["T"] = heights[a]["T"]
      OBVIOUS
    <3>1. a \in Accounts /\ heights[a] \in [Pools(a) -> 0 .. MaxHeight]
      BY <1>0 DEF TypeOK
    <3>2. CASE a \in Scanning \cap Shielded
      <4>1. heights'[a] = [heights[a] EXCEPT !["S"] = next - 1]
        BY <2>1, <3>2
      <4>2. "T" \in Pools(a) /\ "T" # "S"
        BY <1>0
      <4> QED  BY <3>1, <4>1, <4>2
    <3>3. CASE a \notin Scanning \cap Shielded
      BY <2>1, <3>1, <3>3
    <3> QED  BY <3>2, <3>3
  <2>5. Behind'
    <3> SUFFICES ASSUME NEW a \in Shielded \cap Transparent
                 PROVE  heights'[a]["S"] <= heights'[a]["T"]
      OBVIOUS
    <3>1. CASE a \in Scanning
      <4>1. heights[a]["T"] = Current.end
        BY <2>1, <3>1 DEF Ahead, Scanning
      <4>2. heights'[a]["S"] = next - 1
        <5>1. heights'[a] = [heights[a] EXCEPT !["S"] = next - 1]
          BY <2>1, <3>1
        <5>2. a \in Accounts /\ heights[a] \in [Pools(a) -> 0 .. MaxHeight]
          BY <1>0 DEF TypeOK
        <5>3. "S" \in Pools(a)
          BY <1>0, <5>2
        <5> QED  BY <5>1, <5>2, <5>3
      <4>3. heights'[a]["T"] = Current.end
        BY <2>4, <4>1
      <4> QED  BY <2>3, <4>2, <4>3
    <3>2. CASE a \notin Scanning
      BY <2>1, <3>2 DEF Ahead
    <3> QED  BY <3>1, <3>2
  <2> QED  BY <2>1, <2>2, <2>4, <2>5 DEF Ahead
<1>11. CASE Mine \/ Cancel
  <2>1. UNCHANGED <<pc, heights, ranges, todo>>
    BY <1>11 DEF Mine, Cancel, tables
  <2>2. Current' = Current
    BY <2>1, SameRange
  <2> QED  BY <1>2, <2>1, <2>2 DEF Ahead
<1>12. CASE \/ \E as \in SUBSET Accounts \ {{}} : StartSync(as)
            \/ \E a \in Accounts : Prune(a)
            \/ Plan \/ SkipRange \/ EndRange \/ Finish \/ Stop \/ Abort
  <2>1. heights' = heights /\ pc' \in {"idle", "prune", "recover", "range"}
    BY <1>12 DEF StartSync, Prune, Plan, SkipRange, EndRange, Finish, Stop, Abort, RunOver, tables
  <2> QED  BY <1>1, <1>2, <2>1
<1>13. ~DetectReorg /\ ~\E h \in Heights : Reorganize(h)
  BY AlwaysConnects, OneChain
<1> QED
  BY <1>4, <1>5, <1>6, <1>7, <1>8, <1>9, <1>10, <1>11, <1>12, <1>13 DEF Next, RunStep

-----------------------------------------------------------------------------
\* The promises.

\* All of it, in one invariant.
RowsInv == TypeOK /\ Control /\ Rows /\ Fitting /\ Ahead

\* An empty wallet has the rows of height 0.
LEMMA RowsInit ==
    ASSUME Init
    PROVE  RowsInv
<1>1. TypeOK /\ Control
  BY InitTyped
<1>2. Rows
  <2> SUFFICES ASSUME NEW a \in Shielded PROVE RowsOf(a)
    BY DEF Rows
  <2>1. a \in Accounts /\ "S" \in Pools(a)
    BY WalletFacts
  <2>2. heights[a]["S"] = 0 /\ notes[a] = {} /\ spends[a] = {} /\ witnesses[a] = {}
    BY <2>1 DEF Init, Nothing
  <2> QED  BY <2>2, OpenAtBirth DEF RowsOf
<1>3. Ahead
  <2>1. \A a \in Shielded \cap Transparent : heights[a]["S"] = 0 /\ heights[a]["T"] = 0
    <3>1. \A a \in Shielded \cap Transparent :
             a \in Accounts /\ "S" \in Pools(a) /\ "T" \in Pools(a)
      BY DEF Accounts, Pools
    <3>2. \A a \in Accounts : heights[a] = [p \in Pools(a) |-> 0]
      BY DEF Init
    <3> QED  BY <3>1, <3>2
  <2>2. pc = "idle"
    BY DEF Init
  <2> QED  BY <2>1, <2>2 DEF Ahead
<1>4. Fitting
  BY DEF Init, Fitting
<1> QED  BY <1>1, <1>2, <1>3, <1>4 DEF RowsInv

\* The invariant is inductive.
LEMMA RowsStep ==
    ASSUME MaxBranch = 0, Addresses # {}, RowsInv, [Next]_vars
    PROVE  RowsInv'
<1>1. TypeOK' /\ Control'
  BY StepTyped DEF RowsInv
<1>2. CASE Next
  BY <1>1, <1>2, StepRows, StepFitting, StepAhead DEF RowsInv
<1>3. CASE UNCHANGED vars
  <2>1. UNCHANGED <<heights, headers, notes, spends, witnesses, pc, ranges, from, next, read, prev,
                    tracked, todo>>
    BY <1>3 DEF vars, tables, scan
  <2>2. Current' = Current /\ Scanning' = Scanning
    BY <2>1, SameRange
  <2>3. Rows'
    BY <2>1 DEF RowsInv, Rows, RowsOf, Level
  <2>4. Fitting'
    BY <2>1, <2>2 DEF RowsInv, Fitting, Fits, Holds
  <2>5. Ahead'
    BY <2>1, <2>2 DEF RowsInv, Ahead
  <2> QED  BY <1>1, <2>3, <2>4, <2>5 DEF RowsInv
<1> QED  BY <1>2, <1>3

\* On one chain, an account's notes and spends up to its checkpoint are all of
\* the chain's and no other, however runs were cut, cancelled and rewound.
THEOREM OneChainComplete ==
    ASSUME MaxBranch = 0, Addresses # {}
    PROVE  Spec => []ShieldedComplete
<1>1. Init => RowsInv
  BY RowsInit
<1>2. RowsInv /\ [Next]_vars => RowsInv'
  BY RowsStep
<1>3. RowsInv => ShieldedComplete
  <2> SUFFICES ASSUME RowsInv, NEW a \in Shielded, Lowest(a) > 0
               PROVE  LET k == Lowest(a) IN \E b \in headers[a] :
                        /\ b[1] = k
                        /\ {n \in notes[a] : n[1] <= k} = {n \in Lineage(b) : n[1] \in Receives[a]}
                        /\ {s \in spends[a] : s[2][1] <= k} =
                              {<<Ancestor(b, SpentNote[a][h]), Ancestor(b, h)>> :
                                 h \in {x \in DOMAIN SpentNote[a] : x <= k}}
    BY DEF ShieldedComplete
  <2> DEFINE k == Lowest(a)
  <2>1. k = heights[a]["S"] /\ RowsOf(a) /\ k \in Nat
    BY LowestShielded, LowestType, WalletFacts, SyncAssumption DEF RowsInv, Rows
  <2>2. /\ B(k) \in headers[a] /\ notes[a] = NotesTo(a, k) /\ spends[a] = SpendsTo(a, k)
    BY <2>1 DEF RowsOf, Level
  <2>3. B(k)[1] = k
    BY DEF B
  <2>4. \A h \in Nat : Ancestor(B(k), h) = B(h)
    BY <2>1, OneChain DEF RowsInv
  <2>5. Lineage(B(k)) = {B(i) : i \in 1 .. k}
    BY <2>1, <2>3, <2>4 DEF Lineage
  <2>6. \A j \in Receives[a] : j \in Nat /\ j >= 1
    BY WalletFacts
  <2>7. \A j \in DOMAIN SpentNote[a] : j \in Nat /\ SpentNote[a][j] \in Nat
    BY WalletFacts
  <2> HIDE DEF k
  <2>8. {n \in notes[a] : n[1] <= k} = {n \in Lineage(B(k)) : n[1] \in Receives[a]}
    <3>1. \A j : B(j)[1] = j
      BY DEF B
    <3>2. {n \in notes[a] : n[1] <= k} = {B(j) : j \in {i \in Receives[a] : i <= k}}
      BY <2>2, <3>1 DEF NotesTo
    <3>3. {n \in Lineage(B(k)) : n[1] \in Receives[a]} = {B(j) : j \in {i \in Receives[a] : i <= k}}
      BY <2>1, <2>5, <2>6, <3>1
    <3> QED  BY <3>2, <3>3
  <2>9. {s \in spends[a] : s[2][1] <= k} =
          {<<Ancestor(B(k), SpentNote[a][h]), Ancestor(B(k), h)>> :
             h \in {x \in DOMAIN SpentNote[a] : x <= k}}
    <3> DEFINE sp(j) == <<B(SpentNote[a][j]), B(j)>>
               an(h) == <<Ancestor(B(k), SpentNote[a][h]), Ancestor(B(k), h)>>
               at == {x \in DOMAIN SpentNote[a] : x <= k}
    <3>1. \A j : sp(j)[2][1] = j
      BY DEF B
    <3>2. \A h \in at : an(h) = sp(h)
      BY <2>4, <2>7
    <3>3. spends[a] = {sp(j) : j \in at}
      BY <2>2 DEF SpendsTo
    <3> HIDE DEF sp, an
    <3>4. {s \in spends[a] : s[2][1] <= k} = {an(h) : h \in at}
      BY <3>1, <3>2, <3>3
    <3> QED  BY <3>4 DEF an
  <2> QED  BY <2>2, <2>3, <2>8, <2>9 DEF k
<1> QED  BY <1>1, <1>2, <1>3, PTL DEF Spec

\* On one chain, every unspent note has its witness where its account stands:
\* it can be spent, and the next scan follows it.
THEOREM OneChainSpendable ==
    ASSUME MaxBranch = 0, Addresses # {}
    PROVE  Spec => []WitnessAvailable
<1>1. Init => RowsInv
  BY RowsInit
<1>2. RowsInv /\ [Next]_vars => RowsInv'
  BY RowsStep
<1>3. RowsInv => WitnessAvailable
  <2> SUFFICES ASSUME RowsInv, NEW a \in Shielded, NEW n \in notes[a],
                      \A s \in spends[a] : s[1] = n => s[2][1] > Lowest(a)
               PROVE  <<n, Lowest(a)>> \in witnesses[a]
    BY DEF WitnessAvailable
  <2> DEFINE k == Lowest(a)
  <2>1. k = heights[a]["S"] /\ RowsOf(a) /\ k \in Nat
    BY LowestShielded, LowestType, WalletFacts, SyncAssumption DEF RowsInv, Rows
  <2>2. Level(a, k) /\ notes[a] = NotesTo(a, k) /\ spends[a] = SpendsTo(a, k)
    BY <2>1 DEF RowsOf
  <2> HIDE DEF k
  <2>3. PICK j \in Receives[a] : j <= k /\ n = B(j)
    BY <2>2 DEF NotesTo
  <2>4. ASSUME NEW i \in DOMAIN SpentNote[a], SpentNote[a][i] = j PROVE i > k
    <3>1. i \in Nat
      BY WalletFacts
    <3>2. ASSUME i <= k PROVE FALSE
      <4>1. <<B(SpentNote[a][i]), B(i)>> \in spends[a]
        BY <2>2, <3>2 DEF SpendsTo
      <4>2. B(i)[1] > k
        BY <2>3, <2>4, <4>1 DEF k
      <4> QED  BY <2>1, <3>1, <3>2, <4>2 DEF B
    <3> QED  BY <2>1, <3>1, <3>2
  <2>5. j \in Open(a, k)
    BY <2>3, <2>4 DEF Open
  <2> QED  BY <2>2, <2>3, <2>5 DEF Level, k
<1> QED  BY <1>1, <1>2, <1>3, PTL DEF Spec

\* On one chain, no run fails on a row that an earlier one left behind.
THEOREM OneChainNoClash ==
    ASSUME MaxBranch = 0, Addresses # {}
    PROVE  Spec => []NoClash
<1>1. Init => RowsInv /\ NoClash
  BY RowsInit DEF Init, NoClash
<1>2. RowsInv /\ NoClash /\ [Next]_vars => (RowsInv /\ NoClash)'
  <2> SUFFICES ASSUME RowsInv, NoClash, [Next]_vars PROVE NoClash'
    BY RowsStep
  <2>1. CASE Commit
    BY <2>1, CommitShape DEF RowsInv, NoClash
  <2>2. ~DetectReorg
    BY AlwaysConnects DEF RowsInv
  <2>3. CASE Finish \/ Stop \/ Abort
    BY <2>3 DEF Finish, Stop, Abort, EndsAs, NoClash
  <2>4. CASE \E as \in SUBSET Accounts \ {{}} : StartSync(as)
    BY <2>4 DEF StartSync, NoClash
  <2>5. CASE \/ Mine \/ (\E h \in Heights : Reorganize(h)) \/ Cancel
             \/ \E a \in Accounts, h \in RewindHeights : UserRewind(a, h)
    BY <2>5 DEF Mine, Reorganize, Cancel, UserRewind, NoClash
  <2>6. CASE \/ \E a \in Accounts : Prune(a) \/ Recover(a)
             \/ \E a \in Transparent, x \in Addresses : ScanAddress(a, x)
    BY <2>6 DEF Prune, Recover, ScanAddress, NoClash
  <2>7. CASE \/ Plan \/ StartRange \/ EndTransparent \/ SkipRange \/ OpenScan \/ ReadBlock
             \/ NextChunk \/ EndRange
    BY <2>7 DEF Plan, StartRange, EndTransparent, SkipRange, OpenScan, ReadBlock, NextChunk,
                EndRange, NoClash
  <2>8. CASE UNCHANGED vars
    BY <2>8 DEF vars, NoClash
  <2> QED  BY <2>1, <2>2, <2>3, <2>4, <2>5, <2>6, <2>7, <2>8 DEF Next, RunStep
<1> QED  BY <1>1, <1>2, PTL DEF Spec

-----------------------------------------------------------------------------
\* One address: what the transparent checkpoint covers.

\* The transparent scan of account a is still to come in this range.
ToScan(a) == \E x \in Addresses : <<a, x>> \in todo

\* The rows up to the transparent checkpoint are there, and the plan goes on
\* from it.
Cover ==
    /\ \A a \in Accounts \ Shielded : witnesses[a] = {}
    /\ \A a \in Transparent, x \in Addresses : 1 .. heights[a]["T"] \subseteq scanned[a][x]
    /\ pc = "recover" => \A a \in (accounts \ todo) \cap Transparent : Lowest(a) = heights[a]["T"]
    /\ pc = "range" => \A a \in Transparent : Fits(a, "T")
    /\ pc = "transparent" => \A a \in Transparent :
          (a \in Current.accounts => ToScan(a)) => Fits(a, "T")
    /\ pc \in {"open", "scan"} => \A a \in Transparent \ Current.accounts : Fits(a, "T")

\* A trim no higher than the transparent checkpoint keeps it covered.
LEMMA TrimCover ==
    ASSUME TypeOK, NEW as \in SUBSET Accounts, NEW to \in [as -> Nat], Trim(as, to),
           \A a \in as \cap Transparent : to[a] <= heights[a]["T"],
           \A a \in Transparent, x \in Addresses : 1 .. heights[a]["T"] \subseteq scanned[a][x]
    PROVE  \A a \in Transparent, x \in Addresses : 1 .. heights'[a]["T"] \subseteq scanned'[a][x]
<1> SUFFICES ASSUME NEW a \in Transparent, NEW x \in Addresses
             PROVE  1 .. heights'[a]["T"] \subseteq scanned'[a][x]
  OBVIOUS
<1>0. a \in Accounts /\ "T" \in Pools(a) /\ heights[a]["T"] \in Nat
  <2>1. a \in Accounts /\ "T" \in Pools(a)
    BY DEF Accounts, Pools
  <2> QED  BY <2>1, SyncAssumption DEF TypeOK
<1>1. CASE a \in as
  <2>1. heights'[a] = [p \in Pools(a) |-> to[a]]
    BY <1>0, <1>1 DEF Trim
  <2>2. scanned'[a] = [y \in Addresses |-> {h \in scanned[a][y] : h <= to[a]}]
    BY <1>0, <1>1 DEF Trim
  <2> DEFINE l == to[a]
  <2>3. l \in Nat /\ l <= heights[a]["T"]
    BY <1>1
  <2>4. heights'[a]["T"] = l /\ scanned'[a][x] = {h \in scanned[a][x] : h <= l}
    BY <1>0, <2>1, <2>2
  <2> HIDE DEF l
  <2> QED  BY <1>0, <2>3, <2>4
<1>2. CASE a \notin as
  <2>1. heights'[a] = heights[a]
    BY <1>0, <1>2 DEF Trim
  <2>2. scanned'[a] = [y \in Addresses |-> {h \in scanned[a][y] : TRUE}]
    BY <1>0, <1>2 DEF Trim
  <2> QED  BY <2>1, <2>2
<1> QED  BY <1>1, <1>2

\* Every step keeps the transparent history whole, with one address.
LEMMA StepCover ==
    ASSUME MaxBranch = 0, NEW only, Addresses = {only}, RowsInv, Cover, Next
    PROVE  Cover'
<1> USE DEF RowsInv
<1> DEFINE Bare == \A a \in Accounts \ Shielded : witnesses[a] = {}
           Covers == \A a \in Transparent, x \in Addresses : 1 .. heights[a]["T"] \subseteq scanned[a][x]
<1>0. \A a \in Transparent : a \in Accounts /\ "T" \in Pools(a) /\ heights[a]["T"] \in Nat
  <2>1. \A a \in Transparent : a \in Accounts /\ "T" \in Pools(a)
    BY DEF Accounts, Pools
  <2> QED  BY <2>1, SyncAssumption DEF TypeOK
<1>1. ASSUME Bare', Covers', pc' \in {"idle", "prune"} PROVE Cover'
  BY <1>1 DEF Cover
<1>2. ASSUME UNCHANGED <<witnesses, heights, scanned>> PROVE Bare' /\ Covers'
  BY <1>2 DEF Cover
<1>3. ASSUME NEW a \in Accounts, NEW h \in RewindHeights, UserRewind(a, h) PROVE Cover'
  <2> DEFINE to == [b \in {a} |-> CheckpointBefore(b, h)]
  <2>1. h \in Nat /\ \A b \in {a} : CheckpointBefore(b, h) \in Nat
    BY CheckpointType, SyncAssumption DEF Heights
  <2>2. to \in [{a} -> Nat] /\ to[a] = CheckpointBefore(a, h)
    BY <2>1
  <2>3. Trim({a}, to) /\ pc' = "idle" 
    BY <1>3 DEF UserRewind, Rewind
  <2>4. a \in Transparent => CheckpointBefore(a, h) <= heights[a]["T"]
    <3> SUFFICES ASSUME a \in Transparent PROVE CheckpointBefore(a, h) <= heights[a]["T"]
      OBVIOUS
    <3>1. CASE CheckpointBefore(a, h) = 0
      BY <1>0, <3>1
    <3>2. CASE \E w \in witnesses[a] : w[2] = CheckpointBefore(a, h)
      <4>1. a \in Shielded
        BY <3>2 DEF Cover
      <4>2. CheckpointBefore(a, h) <= heights[a]["S"] /\ heights[a]["S"] <= heights[a]["T"]
        BY <3>2, <4>1 DEF Rows, RowsOf, Ahead
      <4>3. heights[a]["S"] \in Nat
        BY <4>1, WalletFacts, SyncAssumption DEF TypeOK
      <4> QED  BY <1>0, <2>1, <4>2, <4>3
    <3> QED  BY <2>1, <3>1, <3>2, CheckpointType
  <2> HIDE DEF to
  <2>5. Covers'
    <3>1. \A b \in {a} \cap Transparent : to[b] <= heights[b]["T"]
      BY <2>2, <2>4
    <3> QED  BY <2>2, <2>3, <3>1, TrimCover DEF Cover
  <2>6. Bare'
    BY <2>3 DEF Cover, Trim
  <2> QED  BY <1>1, <2>3, <2>5, <2>6
<1>4. ASSUME NEW a \in Accounts, Prune(a) PROVE Cover'
  <2> DEFINE kept == CheckpointBefore(a, Max({0, target - CheckpointAge}))
  <2>1. /\ witnesses' = [witnesses EXCEPT ![a] = {w \in @ : w[2] >= kept}]
        /\ UNCHANGED <<heights, scanned, accounts>>
        /\ pc' = "recover" => todo' = accounts
        /\ pc' \in {"prune", "recover"}
    BY <1>4 DEF Prune
  <2> HIDE DEF kept
  <2>2. Bare'
    BY <2>1 DEF Cover, TypeOK
  <2>3. Covers'
    BY <2>1 DEF Cover
  <2> QED  BY <2>1, <2>2, <2>3 DEF Cover
<1>5. ASSUME NEW a \in Accounts, Recover(a) PROVE Cover'
  <2> DEFINE to == [b \in {a} |-> Lowest(b)]
  <2>1. to \in [{a} -> Nat] /\ to[a] = Lowest(a)
    BY LowestType, SyncAssumption
  <2>2. Trim({a}, to) /\ pc' = "recover" /\ pc = "recover" /\ accounts' = accounts /\ todo' = todo \ {a}
    BY <1>5 DEF Recover
  <2> HIDE DEF to
  <2>3. \A b \in {a} \cap Transparent : to[b] <= heights[b]["T"]
    BY <1>0, <2>1, LowestType
  <2>4. Covers'
    BY <2>1, <2>2, <2>3, TrimCover DEF Cover
  <2>5. Bare'
    BY <2>2 DEF Cover, Trim
  <2>6. \A b \in (accounts' \ todo') \cap Transparent : Lowest(b)' = heights'[b]["T"]
    <3> SUFFICES ASSUME NEW b \in (accounts \ (todo \ {a})) \cap Transparent
                 PROVE  Lowest(b)' = heights'[b]["T"]
      BY <2>2
    <3>1. CASE b = a
      <4> DEFINE l == to[a]
      <4>1. heights'[a] = [p \in Pools(a) |-> l]
        BY <2>2 DEF Trim
      <4>2. l \in Nat
        BY <2>1
      <4> HIDE DEF l
      <4>3. "T" \in Pools(a)
        BY <1>0, <3>1
      <4>4. heights'[a]["T"] = l /\ {heights'[a][p] : p \in Pools(a)} = {l}
        BY <4>1, <4>3
      <4>5. Min({l}) = l
        BY <4>2, MinLeast
      <4> QED  BY <3>1, <4>4, <4>5 DEF Lowest
    <3>2. CASE b # a
      <4>1. heights'[b] = heights[b]
        BY <1>0, <2>2, <3>2 DEF Trim
      <4>2. Lowest(b) = heights[b]["T"]
        BY <2>2, <3>2 DEF Cover
      <4> QED  BY <4>1, <4>2 DEF Lowest
    <3> QED  BY <3>1, <3>2
  <2> QED  BY <2>2, <2>4, <2>5, <2>6 DEF Cover
<1>6. ASSUME Plan PROVE Cover'
  <2>1. /\ pc = "recover" /\ todo = {} /\ pc' = "range" /\ ranges' = PlanSync
        /\ UNCHANGED <<heights, witnesses, scanned>>
    BY <1>6 DEF Plan, tables
  <2>2. \A a \in Transparent : a \in accounts => Lowest(a) = heights[a]["T"]
    BY <2>1 DEF Cover
  <2>3. \A a \in Transparent : Fits(a, "T")'
    BY <1>0, <2>1, <2>2, PlanFits
  <2> QED  BY <1>2, <2>1, <2>3 DEF Cover
<1>7. ASSUME StartRange PROVE Cover'
  <2>1. /\ pc = "range" /\ pc' = "transparent" /\ ranges' = ranges
        /\ UNCHANGED <<heights, witnesses, scanned>>
    BY <1>7 DEF StartRange, tables
  <2>2. \A a \in Transparent : Fits(a, "T")'
    BY <2>1 DEF Cover, Fits
  <2> QED  BY <1>2, <2>1, <2>2 DEF Cover
<1>8. ASSUME NEW a \in Transparent, NEW x \in Addresses, ScanAddress(a, x) PROVE Cover'
  <2>1. /\ pc = "transparent" /\ pc' = pc /\ ranges' = ranges /\ <<a, x>> \in todo
        /\ todo' = todo \ {<<a, x>>} /\ witnesses' = witnesses
        /\ scanned' = [scanned EXCEPT ![a][x] = @ \cup Current.start .. Current.end]
        /\ heights' = [heights EXCEPT ![a]["T"] = Current.end]
    BY <1>8 DEF ScanAddress
  <2>2. Current' = Current /\ ranges # {} /\ a \in Current.accounts
    BY <2>1, SameRange DEF Control
  <2>3. x = only /\ ToScan(a)
    BY <2>1 DEF ToScan
  <2>4. heights[a]["T"] = Current.start - 1
    <3>1. Fits(a, "T")
      BY <2>1, <2>3 DEF Cover
    <3> QED  BY <1>0, <2>2, <3>1, FirstFits
  <2>5. Current.start \in Nat /\ Current.end \in Nat
    <3>1. Current \in ranges
      BY <2>2, CurrentFirst
    <3> QED  BY <3>1, SyncAssumption DEF TypeOK, Heights
  <2>6. /\ heights'[a]["T"] = Current.end
        /\ \A c \in Transparent \ {a} : heights'[c] = heights[c] /\ scanned'[c] = scanned[c]
        /\ scanned'[a][x] = scanned[a][x] \cup Current.start .. Current.end
    BY <1>0, <2>1 DEF TypeOK
  <2>7. Covers'
    <3> SUFFICES ASSUME NEW c \in Transparent, NEW y \in Addresses
                 PROVE  1 .. heights'[c]["T"] \subseteq scanned'[c][y]
      OBVIOUS
    <3>1. CASE c = a
      <4>1. 1 .. heights[a]["T"] \subseteq scanned[a][x]
        BY DEF Cover
      <4>2. \A k \in 1 .. Current.end : k \in 1 .. heights[a]["T"] \/ k \in Current.start .. Current.end
        BY <2>4, <2>5
      <4>3. y = x
        BY <2>3
      <4> QED  BY <2>6, <3>1, <4>1, <4>2, <4>3
    <3>2. CASE c # a
      BY <2>6, <3>2 DEF Cover
    <3> QED  BY <3>1, <3>2
  <2>8. ~ToScan(a)'
    BY <2>1, <2>3 DEF ToScan
  <2>9. \A c \in Transparent : (c \in Current.accounts => ToScan(c)') => Fits(c, "T")'
    <3> SUFFICES ASSUME NEW c \in Transparent, c \in Current.accounts => ToScan(c)'
                 PROVE  Fits(c, "T")'
      OBVIOUS
    <3>1. c # a
      BY <2>2, <2>8
    <3>2. ToScan(c)' => ToScan(c)
      BY <2>1 DEF ToScan
    <3>3. Fits(c, "T")
      BY <2>1, <3>2 DEF Cover
    <3> QED  BY <2>1, <2>6, <3>1, <3>3 DEF Fits
  <2>10. Bare'
    BY <2>1 DEF Cover
  <2> QED  BY <2>1, <2>2, <2>7, <2>9, <2>10 DEF Cover
<1>9. ASSUME EndTransparent \/ OpenScan \/ ReadBlock \/ NextChunk PROVE Cover'
  <2>1. /\ pc \in {"transparent", "open", "scan"} /\ pc' \in {"open", "scan"} /\ ranges' = ranges
        /\ UNCHANGED <<heights, witnesses, scanned>>
    BY <1>9 DEF EndTransparent, OpenScan, ReadBlock, NextChunk, tables
  <2>2. Current' = Current
    BY <2>1, SameRange
  <2>3. \A a \in Transparent \ Current.accounts : Fits(a, "T")
    BY <2>1 DEF Cover
  <2>4. \A a \in Transparent \ Current.accounts : Fits(a, "T")'
    BY <2>1, <2>3 DEF Fits
  <2> QED  BY <1>2, <2>1, <2>2, <2>4 DEF Cover
<1>10. ASSUME SkipRange \/ EndRange PROVE Cover'
  <2>1. /\ pc \in {"open", "scan"} /\ pc' = "range" /\ ranges' = ranges \ {Current}
        /\ UNCHANGED <<heights, witnesses, scanned>>
    BY <1>10 DEF SkipRange, EndRange, tables
  <2>2. ranges # {} /\ Ordered(ranges, target)
    BY <2>1 DEF Control
  <2>3. ASSUME NEW a \in Transparent PROVE Fits(a, "T")'
    <3>1. a \in Current.accounts => heights[a]["T"] = Current.end
      BY <2>1 DEF Ahead
    <3>2. a \notin Current.accounts => Fits(a, "T")
      BY <2>1 DEF Cover
    <3> QED  BY <1>0, <2>1, <2>2, <3>1, <3>2, RestFits
  <2> QED  BY <1>2, <2>1, <2>3 DEF Cover
<1>11. ASSUME Commit PROVE Cover'
  <2>1. /\ pc = "scan" /\ UNCHANGED <<pc, ranges, scanned, next>>
        /\ \A a \in Scanning \cap Shielded : heights'[a] = [heights[a] EXCEPT !["S"] = next - 1]
        /\ \A a \in Shielded \ Scanning : heights'[a] = heights[a]
        /\ \A a \in Accounts \ Shielded : heights'[a] = heights[a] /\ witnesses'[a] = witnesses[a]
    BY <1>11, CommitShape
  <2>2. Current' = Current
    BY <2>1, SameRange
  <2>3. \A a \in Transparent : heights'[a]["T"] = heights[a]["T"]
    <3> SUFFICES ASSUME NEW a \in Transparent PROVE heights'[a]["T"] = heights[a]["T"]
      OBVIOUS
    <3>1. a \in Accounts /\ heights[a] \in [Pools(a) -> 0 .. MaxHeight] /\ "T" \in Pools(a)
      BY <1>0 DEF TypeOK
    <3>2. CASE a \in Scanning \cap Shielded
      <4>1. heights'[a] = [heights[a] EXCEPT !["S"] = next - 1]
        BY <2>1, <3>2
      <4> QED  BY <3>1, <4>1
    <3>3. CASE a \notin Scanning \cap Shielded
      BY <2>1, <3>1, <3>3
    <3> QED  BY <3>2, <3>3
  <2>4. \A a \in Transparent \ Current.accounts : Fits(a, "T")'
    BY <2>1, <2>3 DEF Cover, Fits
  <2>5. Bare' /\ Covers'
    BY <2>1, <2>3 DEF Cover
  <2> QED  BY <2>1, <2>2, <2>4, <2>5 DEF Cover
<1>12. CASE Mine \/ Cancel
  <2>1. UNCHANGED <<pc, heights, witnesses, scanned, ranges, todo, accounts>>
    BY <1>12 DEF Mine, Cancel, tables
  <2>2. Current' = Current
    BY <2>1, SameRange
  <2>3. \A a : Lowest(a)' = Lowest(a) /\ (ToScan(a)' <=> ToScan(a)) /\ (Fits(a, "T")' <=> Fits(a, "T"))
    BY <2>1 DEF Lowest, ToScan, Fits
  <2> QED  BY <1>2, <2>1, <2>2, <2>3 DEF Cover
<1>13. CASE (\E as \in SUBSET Accounts \ {{}} : StartSync(as)) \/ Finish \/ Stop \/ Abort
  <2>1. UNCHANGED <<heights, witnesses, scanned>> /\ pc' \in {"idle", "prune"}
    BY <1>13 DEF StartSync, Finish, Stop, Abort, RunOver, tables
  <2> QED  BY <1>1, <1>2, <2>1
<1>14. ~DetectReorg /\ ~\E h \in Heights : Reorganize(h)
  BY AlwaysConnects, OneChain
<1> HIDE DEF RowsInv
<1> QED
  BY <1>3, <1>4, <1>5, <1>6, <1>7, <1>8, <1>9, <1>10, <1>11, <1>12, <1>13, <1>14 DEF Next, RunStep

\* On one chain, with one address, an account's checkpoint never passes a
\* height whose transparent history is not there.  With two addresses it does.
THEOREM OneAddressCovered ==
    ASSUME MaxBranch = 0, NEW only, Addresses = {only}
    PROVE  Spec => []CoverComplete
<1>1. Init => RowsInv /\ Cover
  <2> SUFFICES ASSUME Init PROVE Cover
    BY RowsInit
  <2>1. \A a \in Transparent : a \in Accounts /\ "T" \in Pools(a)
    BY DEF Accounts, Pools
  <2>2. \A a \in Transparent : heights[a]["T"] = 0
    <3>1. \A a \in Accounts : heights[a] = [p \in Pools(a) |-> 0]
      BY DEF Init
    <3> QED  BY <2>1, <3>1
  <2>3. pc = "idle" /\ \A a \in Accounts : witnesses[a] = {}
    BY DEF Init, Nothing
  <2> QED  BY <2>2, <2>3 DEF Cover
<1>2. RowsInv /\ Cover /\ [Next]_vars => (RowsInv /\ Cover)'
  <2> SUFFICES ASSUME RowsInv, Cover, [Next]_vars PROVE Cover'
    BY RowsStep
  <2>1. CASE UNCHANGED vars
    <3>1. UNCHANGED <<pc, heights, witnesses, scanned, ranges, todo, accounts>>
      BY <2>1 DEF vars, tables
    <3>2. Current' = Current
      BY <3>1, SameRange
    <3>3. \A a : Lowest(a)' = Lowest(a) /\ (ToScan(a)' <=> ToScan(a)) /\ (Fits(a, "T")' <=> Fits(a, "T"))
      BY <3>1 DEF Lowest, ToScan, Fits
    <3> QED  BY <3>1, <3>2, <3>3 DEF Cover
  <2> QED  BY <2>1, StepCover
<1>3. RowsInv /\ Cover => CoverComplete
  <2> SUFFICES ASSUME RowsInv, Cover, NEW a \in Transparent, NEW x \in Addresses
               PROVE  1 .. Lowest(a) \subseteq scanned[a][x]
    BY DEF CoverComplete
  <2>1. a \in Accounts /\ "T" \in Pools(a)
    BY DEF Accounts, Pools
  <2>2. Lowest(a) <= heights[a]["T"] /\ Lowest(a) \in Nat /\ heights[a]["T"] \in Nat
    <3>1. TypeOK
      BY DEF RowsInv
    <3>2. Lowest(a) \in 0 .. MaxHeight /\ Lowest(a) <= heights[a]["T"]
      BY <2>1, <3>1, LowestType
    <3>3. heights[a]["T"] \in 0 .. MaxHeight
      BY <2>1, <3>1 DEF TypeOK
    <3> QED  BY <3>2, <3>3, SyncAssumption
  <2>3. 1 .. heights[a]["T"] \subseteq scanned[a][x]
    BY DEF Cover
  <2> QED  BY <2>2, <2>3
<1> QED  BY <1>1, <1>2, <1>3, PTL DEF Spec
=============================================================================
