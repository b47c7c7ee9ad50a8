----------------------------- MODULE WalletSync -----------------------------
(***************************************************************************)
(* One wallet's sync against a chain that reorganizes: the plan            *)
(* (sync/plan.rs), the transparent scan (sync/transparent.rs), the         *)
(* shielded scan (sync/shielded.rs, warp/sync.rs), and the rows they keep  *)
(* in the chain log (sync/chain_log.rs).  The runs and the user's rewinds  *)
(* are serialized by the session (SyncSession, SyncDriver), so there is    *)
(* one run here.                                                           *)
(*                                                                         *)
(* A block is a pair <<height, branch>>.  Heights count from the accounts' *)
(* birth.  The shielded pools, committed in one transaction, are one pool  *)
(* "S"; the transparent pool is "T".                                       *)
(***************************************************************************)
EXTENDS Naturals, FiniteSets, SequencesExt

CONSTANTS Transparent,   \* the accounts with a transparent pool
          Shielded,      \* the accounts with a shielded pool
          Addresses,     \* the addresses of a transparent account
          Receives,      \* the heights where each account receives a note
          SpentNote,     \* for each account: where it spends |-> which note
          RewindHeights, \* the heights the user asks to rewind to
          CheckpointAge, \* of the witnesses a run prunes
          ChunkSize,     \* blocks per request over the mixnet
          MaxHeight,     \* bound on the chain's height
          MaxBranch      \* bound on the number of reorganizations

Accounts == Transparent \cup Shielded
Heights == 1 .. MaxHeight
Blocks == Heights \X (0 .. MaxBranch)

ASSUME SyncAssumption ==
    /\ Receives \in [Accounts -> SUBSET Heights]
    /\ \A a \in Accounts \ Shielded : Receives[a] = {}
    /\ \A a \in Accounts : DOMAIN SpentNote[a] \subseteq Heights
    /\ \A a \in Accounts : \A h \in DOMAIN SpentNote[a] :
          /\ SpentNote[a][h] \in Receives[a] /\ SpentNote[a][h] <= h
          /\ \A k \in DOMAIN SpentNote[a] : SpentNote[a][h] = SpentNote[a][k] => h = k
    /\ RewindHeights \subseteq Heights
    /\ MaxBranch \in Nat /\ CheckpointAge \in Nat
    /\ MaxHeight \in Nat \ {0} /\ ChunkSize \in Nat \ {0}

VARIABLES chain,     \* the chain the server follows: chain[h] is h's branch
          stems,     \* what each branch grew from: stems[v] is a chain
          heights,   \* table sync_heights: each pool's checkpoint
          headers,   \* table headers
          notes,     \* table notes, the shielded ones, by the block they are in
          spends,    \* table spends: <<note, block that spends it>>
          witnesses, \* table witnesses: <<note, checkpoint height>>
          scanned,   \* the heights whose transparent rows each address has
          pc,        \* where the run is
          accounts,  \* the accounts it syncs
          target,    \* the height it syncs to
          todo,      \* what is left of the current loop over accounts
          ranges,    \* the rest of the plan, the current range with it
          from,      \* chunk_start of the shielded scan
          next,      \* the next block of the stream
          read,      \* the blocks read and not committed
          prev,      \* the blocks the next one must connect to
          tracked,   \* the scanner's unspent notes
          reorgAt,   \* where this scan last detected a reorg, or none
          cancelled, \* the run's token
          outcome    \* how the last run ended

tables == <<heights, headers, notes, spends, witnesses, scanned>>
scan == <<from, next, read, prev, tracked, reorgAt>>
vars == <<chain, stems, tables, pc, accounts, target, todo, ranges, scan, cancelled, outcome>>

Pools(a) == {p \in {"T", "S"} : (p = "T" /\ a \in Transparent) \/ (p = "S" /\ a \in Shielded)}
Lowest(a) == Min({heights[a][p] : p \in Pools(a)})
NoReorg == MaxHeight + 1
Phases == {"idle", "prune", "recover", "range", "transparent", "open", "scan"}

TypeOK ==
    /\ chain \in Seq(0 .. MaxBranch) /\ Len(chain) \in Heights
    /\ stems \in Seq(Seq(0 .. MaxBranch)) /\ Len(stems) <= MaxBranch
    /\ DOMAIN heights = Accounts
    /\ \A a \in Accounts : heights[a] \in [Pools(a) -> 0 .. MaxHeight]
    /\ headers \in [Accounts -> SUBSET Blocks]
    /\ notes \in [Accounts -> SUBSET Blocks]
    /\ spends \in [Accounts -> SUBSET (Blocks \X Blocks)]
    /\ witnesses \in [Accounts -> SUBSET (Blocks \X Heights)]
    /\ scanned \in [Accounts -> [Addresses -> SUBSET Heights]]
    /\ tracked \in [Accounts -> SUBSET Blocks]
    /\ pc \in Phases
    /\ accounts \subseteq Accounts
    /\ target \in 0 .. MaxHeight
    /\ ranges \subseteq [start : Heights, end : Heights, accounts : SUBSET Accounts]
    /\ from \in 0 .. MaxHeight /\ next \in 0 .. MaxHeight + 1
    /\ read \in Seq(Blocks)
    /\ prev \subseteq Blocks
    /\ reorgAt \in 1 .. NoReorg
    /\ cancelled \in BOOLEAN
    /\ outcome \in {"none", "synced", "cancelled", "failed", "gaveup", "clash"}

Nothing == [a \in Accounts |-> {}]

Init ==
    /\ chain = <<0>>
    /\ stems = <<>>
    /\ heights = [a \in Accounts |-> [p \in Pools(a) |-> 0]]
    /\ headers = Nothing
    /\ notes = Nothing
    /\ spends = Nothing
    /\ witnesses = Nothing
    /\ scanned = [a \in Accounts |-> [x \in Addresses |-> {}]]
    /\ pc = "idle"
    /\ accounts = {}
    /\ target = 0
    /\ todo = {}
    /\ ranges = {}
    /\ from = 0 /\ next = 0 /\ read = <<>> /\ prev = {} /\ tracked = Nothing
    /\ reorgAt = NoReorg
    /\ cancelled = FALSE
    /\ outcome = "none"

-----------------------------------------------------------------------------
\* The chain.

Block(h) == <<h, chain[h]>>

\* The block at height k that block b descends from, or is.
Ancestor(b, k) ==
    IF b[2] = 0 \/ k > Len(stems[b[2]]) THEN <<k, b[2]>> ELSE <<k, stems[b[2]][k]>>

Lineage(b) == {Ancestor(b, k) : k \in 1 .. b[1]}

Mine ==
    /\ Len(chain) < MaxHeight
    /\ chain' = Append(chain, Len(stems))
    /\ UNCHANGED <<stems, tables, pc, accounts, target, todo, ranges, scan, cancelled, outcome>>

\* The server switches to a longer chain, which has other blocks from h up.
Reorganize(h) ==
    LET k == Len(chain) + 1
    IN  /\ Len(stems) < MaxBranch
        /\ h < k /\ k <= MaxHeight
        /\ stems' = Append(stems, SubSeq(chain, 1, h - 1))
        /\ chain' = [i \in 1 .. k |-> IF i < h THEN chain[i] ELSE Len(stems) + 1]
        /\ UNCHANGED <<tables, pc, accounts, target, todo, ranges, scan, cancelled, outcome>>

-----------------------------------------------------------------------------
\* The chain log.

\* chain_log::trim_to for every account of as, to the height to[a].
Trim(as, to) ==
    LET keep(a, h) == a \notin as \/ h <= to[a]
    IN  /\ headers' = [a \in Accounts |-> {b \in headers[a] : keep(a, b[1])}]
        /\ notes' = [a \in Accounts |-> {n \in notes[a] : keep(a, n[1])}]
        /\ spends' = [a \in Accounts |-> {s \in spends[a] : keep(a, s[2][1])}]
        /\ witnesses' = [a \in Accounts |-> {w \in witnesses[a] : keep(a, w[2])}]
        /\ scanned' = [a \in Accounts |->
              [x \in Addresses |-> {h \in scanned[a][x] : keep(a, h)}]]
        /\ heights' = [a \in Accounts |->
              IF a \in as THEN [p \in Pools(a) |-> to[a]] ELSE heights[a]]

\* Mutant: a checkpoint at the height itself counts.
CheckpointUpTo(a, h) ==
    Max({w[2] : w \in {x \in witnesses[a] : x[2] <= h}} \cup {0})

\* last_checkpoint_before; 0, the birth, when there is none.
CheckpointBefore(a, h) ==
    Max({w[2] : w \in {x \in witnesses[a] : x[2] < h}} \cup {0})

\* rewind_within: back to a checkpoint that still has its witnesses.
Rewind(as, h) == Trim(as, [a \in as |-> CheckpointBefore(a, h)])

-----------------------------------------------------------------------------
\* The user, between runs: the sync driver serializes them.

StartSync(as) ==
    /\ pc = "idle"
    /\ pc' = "prune"
    /\ accounts' = as
    /\ target' = Len(chain)
    /\ todo' = as
    /\ outcome' = "none"
    /\ UNCHANGED <<chain, stems, tables, ranges, scan, cancelled>>

UserRewind(a, h) ==
    /\ pc = "idle"
    /\ Rewind({a}, h)
    /\ UNCHANGED <<chain, stems, pc, accounts, target, todo, ranges, scan, cancelled, outcome>>

Cancel ==
    /\ pc # "idle"
    /\ ~cancelled
    /\ cancelled' = TRUE
    /\ UNCHANGED <<chain, stems, tables, pc, accounts, target, todo, ranges, scan, outcome>>

-----------------------------------------------------------------------------
\* What a scan and a run keep in memory goes with them.

ScanOver ==
    /\ from' = 0
    /\ next' = 0
    /\ read' = <<>>
    /\ prev' = {}
    /\ tracked' = Nothing
    /\ reorgAt' = NoReorg

RunOver ==
    /\ ScanOver
    /\ pc' = "idle"
    /\ accounts' = {}
    /\ target' = 0
    /\ todo' = {}
    /\ ranges' = {}
    /\ cancelled' = FALSE

\* finish: a run whose token is set was cancelled, whatever else it met.
EndsAs(result) == outcome' = IF cancelled THEN "cancelled" ELSE result

-----------------------------------------------------------------------------
\* The run, up to its plan.

\* Mutant: the checkpoint below the cutoff goes too.
PruneToCutoff(a) ==
    LET kept == Max({0, target - CheckpointAge})
    IN  /\ pc = "prune"
        /\ a \in todo
        /\ witnesses' = [witnesses EXCEPT ![a] = {w \in @ : w[2] >= kept}]
        /\ todo' = IF todo = {a} THEN accounts ELSE todo \ {a}
        /\ pc' = IF todo = {a} THEN "recover" ELSE "prune"
        /\ UNCHANGED <<chain, stems, heights, headers, notes, spends, scanned, accounts,
                       target, ranges, scan, cancelled, outcome>>

\* An account's witnesses older than its last checkpoint below the cutoff.
Prune(a) ==
    LET kept == CheckpointBefore(a, Max({0, target - CheckpointAge}))
    IN  /\ pc = "prune"
        /\ a \in todo
        /\ witnesses' = [witnesses EXCEPT ![a] = {w \in @ : w[2] >= kept}]
        /\ todo' = IF todo = {a} THEN accounts ELSE todo \ {a}
        /\ pc' = IF todo = {a} THEN "recover" ELSE "prune"
        /\ UNCHANGED <<chain, stems, heights, headers, notes, spends, scanned, accounts,
                       target, ranges, scan, cancelled, outcome>>

\* Mutants of Recover: to the height after the lowest; to the account's
\* highest; not at all.
Recovering(a, to) ==
    /\ pc = "recover"
    /\ a \in todo
    /\ Trim({a}, [b \in {a} |-> to])
    /\ todo' = todo \ {a}
    /\ UNCHANGED <<chain, stems, pc, accounts, target, ranges, scan, cancelled, outcome>>

RecoverPast(a) == Recovering(a, Lowest(a) + 1)
RecoverHighest(a) == Recovering(a, Max({heights[a][p] : p \in Pools(a)}))
RecoverNothing(a) ==
    /\ pc = "recover"
    /\ a \in todo
    /\ todo' = todo \ {a}
    /\ UNCHANGED <<chain, stems, tables, pc, accounts, target, ranges, scan, cancelled, outcome>>

\* recover_from_partial_sync: every pool back to the account's lowest.
Recover(a) ==
    /\ pc = "recover"
    /\ a \in todo
    /\ Trim({a}, [b \in {a} |-> Lowest(b)])
    /\ todo' = todo \ {a}
    /\ UNCHANGED <<chain, stems, pc, accounts, target, ranges, scan, cancelled, outcome>>

\* Mutant: a range ends where the next one starts.
PlanOverlapping ==
    LET starts == {Lowest(a) + 1 : a \in accounts} \cap 1 .. target
        end(s) == Min({t \in starts : t > s} \cup {target})
    IN  {[start |-> s, end |-> end(s), accounts |-> {a \in accounts : Lowest(a) < s}] :
            s \in starts}

\* plan_sync: a range starts where one more account joins.
PlanSync ==
    LET starts == {Lowest(a) + 1 : a \in accounts} \cap 1 .. target
        end(s) == Min({t - 1 : t \in {u \in starts : u > s}} \cup {target})
    IN  {[start |-> s, end |-> end(s), accounts |-> {a \in accounts : Lowest(a) < s}] :
            s \in starts}

\* The ranges are taken in the order of their starts.
Current == CHOOSE r \in ranges : \A o \in ranges : r.start <= o.start

Plan ==
    /\ pc = "recover"
    /\ todo = {}
    /\ ranges' = PlanSync
    /\ pc' = "range"
    /\ UNCHANGED <<chain, stems, tables, accounts, target, todo, scan, cancelled, outcome>>

-----------------------------------------------------------------------------
\* A range: the transparent scan, an address at a time.

StartRange ==
    /\ pc = "range"
    /\ ranges # {}
    /\ ~cancelled
    /\ todo' = (Current.accounts \cap Transparent) \X Addresses
    /\ pc' = "transparent"
    /\ UNCHANGED <<chain, stems, tables, accounts, target, ranges, scan, cancelled, outcome>>

\* The address's history and its account's checkpoint, in one transaction.
ScanAddress(a, x) ==
    LET r == Current
    IN  /\ pc = "transparent"
        /\ <<a, x>> \in todo
        /\ ~cancelled
        /\ todo' = todo \ {<<a, x>>}
        /\ scanned' = [scanned EXCEPT ![a][x] = @ \cup r.start .. r.end]
        /\ heights' = [heights EXCEPT ![a]["T"] = r.end]
        /\ UNCHANGED <<chain, stems, headers, notes, spends, witnesses, pc, accounts, target,
                       ranges, scan, cancelled, outcome>>

\* Mutant: the shielded scan starts with addresses left to scan.
EndTransparentEarly ==
    /\ pc = "transparent"
    /\ ~cancelled
    /\ pc' = "open"
    /\ from' = Current.start
    /\ reorgAt' = NoReorg
    /\ UNCHANGED <<chain, stems, tables, accounts, target, todo, ranges, next, read, prev,
                   tracked, cancelled, outcome>>

EndTransparent ==
    /\ pc = "transparent"
    /\ todo = {}
    /\ ~cancelled
    /\ pc' = "open"
    /\ from' = Current.start
    /\ reorgAt' = NoReorg
    /\ UNCHANGED <<chain, stems, tables, accounts, target, todo, ranges, next, read, prev,
                   tracked, cancelled, outcome>>

-----------------------------------------------------------------------------
\* The shielded scan, a chunk at a time.

Scanning == Current.accounts
ChunkEnd == Min({from + ChunkSize - 1, Current.end})
Spent(a) == {s[1] : s \in spends[a]}

\* Mutant: the witnesses looked up are those of the first block to scan.
TrackableAtStart(a) == {n \in notes[a] \ Spent(a) : <<n, from>> \in witnesses[a]}

\* The unspent notes with a witness where the scan starts.
Trackable(a) == {n \in notes[a] \ Spent(a) : <<n, from - 1>> \in witnesses[a]}

\* A range with no viewing key completes without a block.
SkipRange ==
    /\ pc = "open"
    /\ Scanning \cap Shielded = {}
    /\ ranges' = ranges \ {Current}
    /\ pc' = "range"
    /\ ScanOver
    /\ UNCHANGED <<chain, stems, tables, accounts, target, todo, cancelled, outcome>>

\* The scanner takes the notes it can follow, and the headers its first block
\* must connect to.
OpenScan ==
    /\ pc = "open"
    /\ Scanning \cap Shielded # {}
    /\ ~cancelled
    /\ tracked' = [a \in Accounts |-> IF a \in Scanning THEN Trackable(a) ELSE {}]
    /\ prev' = {b \in UNION {headers[a] : a \in Scanning} : b[1] = from - 1}
    /\ read' = <<>>
    /\ next' = from
    /\ pc' = "scan"
    /\ UNCHANGED <<chain, stems, tables, accounts, target, todo, ranges, from, reorgAt,
                   cancelled, outcome>>

Connects == \A b \in prev : b = Ancestor(Block(next), next - 1)

ReadBlock ==
    /\ pc = "scan"
    /\ next <= ChunkEnd
    /\ next <= Len(chain)
    /\ Connects
    /\ read' = Append(read, Block(next))
    /\ prev' = {Block(next)}
    /\ next' = next + 1
    /\ UNCHANGED <<chain, stems, tables, pc, accounts, target, todo, ranges, from, tracked,
                   reorgAt, cancelled, outcome>>

\* What the blocks read hold for account a.
NewNotes(a) == {b \in ToSet(read) : b[1] \in Receives[a]}
NewSpends(a, mine) ==
    {s \in mine \X ToSet(read) : /\ s[2][1] \in DOMAIN SpentNote[a]
                                 /\ s[1] = Ancestor(s[2], SpentNote[a][s[2][1]])}

\* handle_message's ensures, and the tables' keys: a note and a witness are
\* recorded once.
Clash(as) == \E a \in as :
    \/ NewNotes(a) \cap notes[a] # {}
    \/ \E w \in witnesses[a] : w[2] = next - 1 /\ w[1] \in tracked[a]

\* The blocks read, in one transaction: the notes, the witnesses of every
\* note tracked (those spent in these blocks too), the spends, the
\* checkpoints, and the last block's header where it is relevant and there is
\* none.  A row that is there already fails the whole run.
Commit ==
    LET as == Scanning \cap Shielded
        last == Last(read)
        h == last[1]
        mine == [a \in Accounts |-> IF a \in as THEN tracked[a] \cup NewNotes(a) ELSE {}]
        gone == [a \in Accounts |-> NewSpends(a, mine[a])]
        relevant(a) == /\ a \in Scanning
                       /\ \A b \in headers[a] : b[1] # h
                       /\ a \in as \/ heights[a]["T"] = h
    IN  /\ pc = "scan"
        /\ read # <<>>
        /\ \/ /\ ~Clash(as)
              /\ notes' = [a \in Accounts |-> notes[a] \cup (mine[a] \ tracked[a])]
              /\ witnesses' = [a \in Accounts |-> witnesses[a] \cup mine[a] \X {h}]
              /\ spends' = [a \in Accounts |-> spends[a] \cup gone[a]]
              /\ tracked' = [a \in Accounts |-> mine[a] \ {s[1] : s \in gone[a]}]
              /\ heights' = [a \in Accounts |->
                    IF a \in as THEN [heights[a] EXCEPT !["S"] = h] ELSE heights[a]]
              /\ headers' = [a \in Accounts |->
                    IF relevant(a) THEN headers[a] \cup {last} ELSE headers[a]]
              /\ read' = <<>>
              /\ UNCHANGED <<scanned, pc, accounts, target, todo, ranges, from, next, prev,
                             reorgAt, cancelled, outcome>>
           \/ /\ Clash(as)
              /\ EndsAs("clash")
              /\ RunOver
              /\ UNCHANGED tables
        /\ UNCHANGED <<chain, stems>>

NextChunk ==
    /\ pc = "scan"
    /\ read = <<>>
    /\ next > ChunkEnd
    /\ ChunkEnd < Current.end
    /\ ~cancelled
    /\ from' = ChunkEnd + 1
    /\ pc' = "open"
    /\ UNCHANGED <<chain, stems, tables, accounts, target, todo, ranges, next, read, prev,
                   tracked, reorgAt, cancelled, outcome>>

EndRange ==
    /\ pc = "scan"
    /\ read = <<>>
    /\ next > ChunkEnd
    /\ ChunkEnd = Current.end
    /\ ranges' = ranges \ {Current}
    /\ pc' = "range"
    /\ ScanOver
    /\ UNCHANGED <<chain, stems, tables, accounts, target, todo, cancelled, outcome>>

\* A block does not connect: the accounts are rewound below the block before
\* it, and the scan starts again, but not before its range does.  A second
\* such block that is not below the first one ends the run.
DetectReorg ==
    LET lowest == Min(UNION {{heights'[a][p] : p \in Pools(a)} : a \in Scanning})
    IN  /\ pc = "scan"
        /\ next <= ChunkEnd
        /\ next <= Len(chain)
        /\ ~Connects
        /\ Rewind(Scanning, next - 1)
        /\ \/ /\ next < reorgAt
              /\ reorgAt' = next
              /\ from' = Max({lowest + 1, Current.start})
              /\ read' = <<>>
              /\ pc' = "open"
              /\ UNCHANGED <<accounts, target, todo, ranges, next, prev, tracked, cancelled,
                             outcome>>
           \/ /\ next >= reorgAt
              /\ EndsAs("gaveup")
              /\ RunOver
        /\ UNCHANGED <<chain, stems>>

-----------------------------------------------------------------------------
\* The end of a run.

Finish ==
    /\ pc = "range"
    /\ ranges = {}
    /\ EndsAs("synced")
    /\ RunOver
    /\ UNCHANGED <<chain, stems, tables>>

\* The run looks at its token before a range, between two addresses or chunks
\* and between two blocks.
Stop ==
    /\ cancelled
    /\ pc \in {"range", "transparent", "open", "scan"}
    /\ EndsAs("failed")
    /\ RunOver
    /\ UNCHANGED <<chain, stems, tables>>

\* An error, or the process dies: what is committed stays.
Abort ==
    /\ pc # "idle"
    /\ EndsAs("failed")
    /\ RunOver
    /\ UNCHANGED <<chain, stems, tables>>

RunStep ==
    \/ \E a \in Accounts : Prune(a) \/ Recover(a)
    \/ Plan \/ StartRange
    \/ \E a \in Transparent, x \in Addresses : ScanAddress(a, x)
    \/ EndTransparent \/ SkipRange
    \/ OpenScan \/ ReadBlock \/ Commit \/ NextChunk \/ EndRange \/ DetectReorg
    \/ Finish \/ Stop

Next ==
    \/ Mine
    \/ \E h \in Heights : Reorganize(h)
    \/ \E as \in SUBSET Accounts \ {{}} : StartSync(as)
    \/ \E a \in Accounts, h \in RewindHeights : UserRewind(a, h)
    \/ RunStep
    \/ Cancel \/ Abort

Spec == Init /\ [][Next]_vars

\* The user keeps the wallet syncing and its runs go on.
FairSpec == Spec /\ WF_vars(StartSync(Accounts)) /\ WF_vars(RunStep)

-----------------------------------------------------------------------------
\* What the rows promise at an account's checkpoint.

\* The notes and spends up to the checkpoint are those of one chain, the one
\* its header names: none is missing, none is left of an orphaned block.
ShieldedComplete == \A a \in Shielded :
    LET k == Lowest(a)
    IN  k > 0 => \E b \in headers[a] :
          /\ b[1] = k
          /\ {n \in notes[a] : n[1] <= k} = {n \in Lineage(b) : n[1] \in Receives[a]}
          /\ {s \in spends[a] : s[2][1] <= k} =
                {<<Ancestor(b, SpentNote[a][h]), Ancestor(b, h)>> :
                   h \in {x \in DOMAIN SpentNote[a] : x <= k}}

\* Every unspent note has a witness where its account stands: without one the
\* scanner would not follow it, and it could not be spent.
WitnessAvailable == \A a \in Shielded :
    \A n \in {m \in notes[a] : m[1] <= Lowest(a)} :
       (\A s \in spends[a] : s[1] = n => s[2][1] > Lowest(a)) =>
          <<n, Lowest(a)>> \in witnesses[a]

\* Once a run is over, however it ended, an account's checkpoint covers every
\* one of its addresses.
CoverComplete == pc = "idle" => \A a \in Transparent, x \in Addresses :
    1 .. Lowest(a) \subseteq scanned[a][x]

\* No run fails on a row that an earlier one left behind.
NoClash == outcome # "clash"

\* A run that reports its height brought every shielded pool of its accounts
\* to it, whatever the ranges, the chunks and the restarts.
SyncedReached == [][pc # "idle" /\ pc' = "idle" /\ outcome' = "synced" =>
    \A a \in accounts \cap Shielded : heights[a]["S"] >= target]_vars

\* A wallet whose runs are in the end left alone catches up with the server,
\* however deep the chain was reorganized under it.
CaughtUp == \A a \in Accounts :
    Lowest(a) = Len(chain) /\ Block(Len(chain)) \in headers[a]
CatchesUp == <>[][~(Abort \/ Cancel)]_vars => []<>CaughtUp
=============================================================================
