----------------------------- MODULE ChainIndexer -----------------------------
(***************************************************************************)
(* The chain indexer and the reconciler beside the orders table they act   *)
(* on.  A worker is one process: run-indexer.js copies the events of final *)
(* blocks into the tables; reconcile.js does the same and then cancels the *)
(* orders that were cancelled on chain.  Both are started again and again, *)
(* nothing keeps two from running at once, and a worker may die between    *)
(* any two queries.  Blocks are numbered from 1 and a missing cursor is 0. *)
(***************************************************************************)
EXTENDS OrderBook, Sequences

CONSTANTS Fills,          \* Fill events; an order hash is its OrderCanceled
          Workers,
          Reconcilers,    \* the workers that run reconcile.js
          Finality,       \* finalityBlocks
          BigIntHead,     \* getBlockNumber returns a BigInt
          MaxHeight, MaxMined, MaxReorgs, MaxFaults

ASSUME IndexerAssumption ==
  /\ Fills \cap Hashes = {}
  /\ Reconcilers \subseteq Workers
  /\ Finality \in Nat /\ MaxHeight \in Nat /\ MaxMined \in Nat
  /\ BigIntHead \in BOOLEAN

Events == Fills \cup Hashes
Heights == 1 .. MaxHeight
NoBlock == 0

VARIABLES chain,     \* the blocks of the canonical chain: hash and events
          mined,     \* blocks ever mined, the source of their hashes
          tip,       \* history: the greatest height there ever was
          logged,    \* chain_fills and chain_cancels: <<height, event>>
          marked,    \* the rows whose applied_at is set
          cursor,    \* indexer_cursor
          buffer,    \* indexer_blocks: hash recorded for a height
          worker,    \* what each worker is doing
          lost,      \* history: heights the indexer gave up, see below
          reorgs, faults

tables == <<logged, marked, cursor, buffer>>
network == <<chain, mined, tip, reorgs>>
vars == <<book, network, tables, worker, lost, faults>>

Blocks == [hash : 1 .. MaxMined, events : SUBSET Events]
Rows == Heights \X Events

Steps == {"idle", "cursor", "fetch", "compare", "logs", "insert", "setBlock",
          "dropFills", "dropCancels", "dropBlocks", "resetCursor",
          "select", "cancel", "mark"}

Loop == {"fetch", "compare", "logs", "insert", "setBlock"}
Rollback == {"dropFills", "dropCancels", "dropBlocks", "resetCursor"}

Workings == [pc : Steps,
             b : Int, to : Int,                 \* the loop of runIndexer
             hash : 0 .. MaxMined,              \* of the block it fetched
             logs : SUBSET Events,              \* events still to insert
             todo : SUBSET Rows]                \* cancels still to apply

At(pc, b, to) == [pc |-> pc, b |-> b, to |-> to, hash |-> NoBlock, logs |-> {},
                  todo |-> {}]
Idle == At("idle", 0, 0)

Init ==
  /\ row = [h \in Hashes |-> NoOrder]
  /\ remaining = [h \in Hashes |-> 0] /\ applied = remaining
  /\ chain = <<>> /\ mined = 0 /\ tip = 0
  /\ logged = {} /\ marked = {} /\ cursor = 0
  /\ buffer = [n \in Heights |-> NoBlock]
  /\ worker = [w \in Workers |-> Idle]
  /\ lost = {} /\ reorgs = 0 /\ faults = 0

(***************************************************************************)
(* The chain and the clients of the book.                                  *)
(***************************************************************************)
OnChain == UNION {chain[n].events : n \in DOMAIN chain}

Mine ==
  /\ Len(chain) < MaxHeight /\ mined < MaxMined
  /\ \E E \in SUBSET (Events \ OnChain) :
       chain' = Append(chain, [hash |-> mined + 1, events |-> E])
  /\ mined' = mined + 1
  /\ tip' = IF Len(chain) = tip THEN tip + 1 ELSE tip
  /\ UNCHANGED <<book, tables, worker, lost, reorgs, faults>>

\* Heights that are rewritten although they had been final are lost: the
\* indexer never looks at a height below its cursor again.
Reorg ==
  /\ reorgs < MaxReorgs
  /\ reorgs' = reorgs + 1
  /\ \E n \in 0 .. Len(chain) - 1 :
       /\ chain' = SubSeq(chain, 1, n)
       /\ lost' = lost \cup {k \in n + 1 .. tip - Finality : k \in Heights}
  /\ UNCHANGED <<book, tables, worker, mined, tip, faults>>

Post ==
  /\ \E o \in Orders : o.hash \notin Posted /\ InsertOrder(o)
  /\ UNCHANGED <<network, tables, worker, lost, faults>>

(***************************************************************************)
(* runIndexer.                                                             *)
(***************************************************************************)
Goes(w, pc) == worker' = [worker EXCEPT ![w].pc = pc]

\* reconcile.js goes on with the reconciler; run-indexer.js is done.
Indexed(w) == IF w \in Reconcilers THEN At("select", 0, 0) ELSE Idle

NextBlock(w) ==
  worker' = [worker EXCEPT ![w] =
    IF @.b < @.to THEN At("fetch", @.b + 1, @.to) ELSE Indexed(w)]

\* Mutation: the newest blocks are taken for final.
SafeHeadNewest == Len(chain)

SafeHead == Len(chain) - Finality

\* A head that is a plain number, as ethers 6 returns it, makes the subtraction of
\* a BigInt throw: the worker ends before it has read anything.
ReadHead(w) ==
  /\ worker[w].pc = "idle"
  /\ BigIntHead
  /\ worker' = [worker EXCEPT ![w] =
       IF SafeHead < 0 THEN Indexed(w) ELSE At("cursor", 0, SafeHead)]
  /\ UNCHANGED <<book, network, tables, lost, faults>>

ReadCursor(w) ==
  /\ worker[w].pc = "cursor"
  /\ worker' = [worker EXCEPT ![w] =
       IF cursor + 1 > @.to THEN Indexed(w)
                            ELSE At("fetch", cursor + 1, @.to)]
  /\ UNCHANGED <<book, network, tables, lost, faults>>

GetBlock(w) ==
  /\ worker[w].pc = "fetch"
  /\ worker[w].b \in DOMAIN chain
  /\ worker' = [worker EXCEPT ![w].pc = "compare",
                              ![w].hash = chain[worker[w].b].hash]
  /\ UNCHANGED <<book, network, tables, lost, faults>>

\* The node does not know the block (it lags, or the chain got shorter): the
\* loop goes on with the next one and the height is never indexed.
SkipBlock(w) ==
  /\ worker[w].pc = "fetch"
  /\ IF worker[w].b \in DOMAIN chain THEN faults < MaxFaults /\ faults' = faults + 1
                                     ELSE UNCHANGED faults
  /\ lost' = lost \cup {worker[w].b}
  /\ NextBlock(w)
  /\ UNCHANGED <<book, network, tables>>

Compare(w) ==
  /\ worker[w].pc = "compare"
  /\ Goes(w, IF buffer[worker[w].b] \in {NoBlock, worker[w].hash}
               THEN "logs" ELSE "dropFills")
  /\ UNCHANGED <<book, network, tables, lost, faults>>

\* The logs are asked for by height, not by the hash that was compared.
QueryLogs(w) ==
  /\ worker[w].pc = "logs"
  /\ worker' = [worker EXCEPT
       ![w].pc = "insert",
       ![w].logs = IF worker[w].b \in DOMAIN chain THEN chain[worker[w].b].events
                                                   ELSE {}]
  /\ UNCHANGED <<book, network, tables, lost, faults>>

\* Fills before cancels; a row that is there already is left as it is.
InsertEvent(w) ==
  /\ worker[w].pc = "insert"
  /\ LET L == worker[w].logs
     IN  \E e \in IF L \cap Fills # {} THEN L \cap Fills ELSE L :
           /\ logged' = logged \cup {<<worker[w].b, e>>}
           /\ worker' = [worker EXCEPT ![w].logs = @ \ {e}]
  /\ UNCHANGED <<book, network, marked, cursor, buffer, lost, faults>>

\* Mutation: the inserts are not awaited.
SetCursorEarly(w) ==
  /\ worker[w].pc = "insert"
  /\ cursor' = worker[w].b
  /\ Goes(w, "setBlock")
  /\ UNCHANGED <<book, network, logged, marked, buffer, lost, faults>>

SetCursor(w) ==
  /\ worker[w].pc = "insert" /\ worker[w].logs = {}
  /\ cursor' = worker[w].b
  /\ Goes(w, "setBlock")
  /\ UNCHANGED <<book, network, logged, marked, buffer, lost, faults>>

SetBlock(w) ==
  /\ worker[w].pc = "setBlock"
  /\ buffer' = [buffer EXCEPT ![worker[w].b] = worker[w].hash]
  /\ NextBlock(w)
  /\ UNCHANGED <<book, network, logged, marked, cursor, lost, faults>>

(***************************************************************************)
(* rollbackTo: three deletions and the cursor; the loop then continues     *)
(* with the next height, so the one that changed is given up.              *)
(***************************************************************************)
Above(w) == {r \in Rows : r[1] >= worker[w].b}

\* Rows that go while another worker is past them do not come back: it goes on
\* from where it is, or sets the cursor after this worker reset it.
Overtaken(w, doing) ==
  {n \in Heights : \E v \in Workers \ {w} : /\ worker[v].pc \in doing
                                            /\ n \in worker[w].b .. worker[v].b}

\* A rollback that ends while another one is under way further up leaves what
\* lies between them to nobody: the other sets the cursor to where it began.
Abandoned(w) == Overtaken(w, Loop \cup Rollback)

DropFills(w) ==
  /\ worker[w].pc = "dropFills"
  /\ logged' = logged \ {r \in Above(w) : r[2] \in Fills}
  /\ Goes(w, "dropCancels")
  /\ lost' = lost \cup Overtaken(w, Loop)
  /\ UNCHANGED <<book, network, marked, cursor, buffer, faults>>

DropCancels(w) ==
  /\ worker[w].pc = "dropCancels"
  /\ logged' = logged \ {r \in Above(w) : r[2] \in Hashes}
  /\ marked' = marked \ Above(w)
  /\ Goes(w, "dropBlocks")
  /\ lost' = lost \cup Overtaken(w, Loop)
  /\ UNCHANGED <<book, network, cursor, buffer, faults>>

DropBlocks(w) ==
  /\ worker[w].pc = "dropBlocks"
  /\ buffer' = [n \in Heights |-> IF n < worker[w].b THEN buffer[n] ELSE NoBlock]
  /\ Goes(w, "resetCursor")
  /\ UNCHANGED <<book, network, logged, marked, cursor, lost, faults>>

\* Mutation: one block too far back.
ResetCursorTooFar(w) ==
  /\ worker[w].pc = "resetCursor"
  /\ cursor' = worker[w].b - 2
  /\ lost' = lost \cup {worker[w].b} \cup Abandoned(w)
  /\ NextBlock(w)
  /\ UNCHANGED <<book, network, logged, marked, buffer, faults>>

ResetCursor(w) ==
  /\ worker[w].pc = "resetCursor"
  /\ cursor' = worker[w].b - 1
  /\ lost' = lost \cup {worker[w].b} \cup Abandoned(w)
  /\ NextBlock(w)
  /\ UNCHANGED <<book, network, logged, marked, buffer, faults>>

(***************************************************************************)
(* applyChainCancels.                                                      *)
(***************************************************************************)
Pending == {r \in logged \ marked : r[2] \in Hashes}

SelectCancels(w) ==
  /\ worker[w].pc = "select"
  /\ worker' = [worker EXCEPT ![w].todo = Pending,
                              ![w].pc = IF Pending = {} THEN "idle" ELSE "cancel"]
  /\ UNCHANGED <<book, network, tables, lost, faults>>

\* The cancel of the lowest block; rows of one block come in any order.
Oldest(w) == {r \in worker[w].todo : \A q \in worker[w].todo : r[1] <= q[1]}

Rest(w, r) == IF worker[w].todo = {r} THEN Idle
              ELSE [worker[w] EXCEPT !.pc = "cancel", !.todo = @ \ {r}]

\* Mutation: the result of the cancel is not looked at.
CancelInBookBlindly(w) ==
  /\ worker[w].pc = "cancel"
  /\ \E r \in Oldest(w) :
       /\ CancelOrder(r[2])
       /\ worker' = [worker EXCEPT ![w].pc = "mark", ![w].b = r[1],
                                   ![w].logs = {r[2]}]
  /\ UNCHANGED <<network, tables, lost, faults>>

\* An order that is not in the book is left pending and its cancel is tried
\* again by the next run.
CancelInBook(w) ==
  /\ worker[w].pc = "cancel"
  /\ \E r \in Oldest(w) :
       /\ CancelOrder(r[2])
       /\ worker' = [worker EXCEPT ![w] =
            IF r[2] \in Posted THEN [@ EXCEPT !.pc = "mark", !.b = r[1],
                                              !.logs = {r[2]}]
                               ELSE Rest(w, r)]
  /\ UNCHANGED <<network, tables, lost, faults>>

\* A row that was rolled back meanwhile is not updated.
MarkApplied(w) ==
  /\ worker[w].pc = "mark"
  /\ \E e \in worker[w].logs :
       LET r == <<worker[w].b, e>>
       IN  /\ marked' = marked \cup ({r} \cap logged)
           /\ worker' = [worker EXCEPT ![w] = Rest(w, r)]
  /\ UNCHANGED <<book, network, logged, cursor, buffer, lost, faults>>

\* A rollback that is broken off leaves the cursor, and the workers that are
\* past it, above what it deleted.
Crash(w) ==
  /\ worker[w].pc # "idle"
  /\ faults < MaxFaults
  /\ faults' = faults + 1
  /\ worker' = [worker EXCEPT ![w] = Idle]
  /\ lost' = lost \cup IF worker[w].pc \in Rollback
                          THEN {n \in Heights : n \in worker[w].b .. cursor}
                                 \cup Abandoned(w)
                          ELSE {}
  /\ UNCHANGED <<book, network, tables>>

Work(w) ==
  \/ ReadHead(w) \/ ReadCursor(w)
  \/ GetBlock(w) \/ SkipBlock(w) \/ Compare(w) \/ QueryLogs(w)
  \/ InsertEvent(w) \/ SetCursor(w) \/ SetBlock(w)
  \/ DropFills(w) \/ DropCancels(w) \/ DropBlocks(w) \/ ResetCursor(w)
  \/ SelectCancels(w) \/ CancelInBook(w) \/ MarkApplied(w)

Next == Mine \/ Reorg \/ Post \/ \E w \in Workers : Work(w) \/ Crash(w)

\* Both programs are started again whenever they have ended (only
\* CancelReachesBook needs it).
Fairness == \A w \in Workers : WF_vars(Work(w))

Spec == Init /\ [][Next]_vars /\ Fairness

(***************************************************************************)
(* Properties.                                                             *)
(***************************************************************************)
TypeOK ==
  /\ BookTypeOK
  /\ chain \in Seq(Blocks) /\ Len(chain) <= MaxHeight
  /\ logged \subseteq Rows /\ marked \subseteq Rows
  /\ cursor \in Nat
  /\ buffer \in [Heights -> 0 .. MaxMined]
  /\ worker \in [Workers -> Workings]
  /\ lost \subseteq Heights

RollingBack(n) ==
  \E w \in Workers : worker[w].pc \in Rollback /\ n >= worker[w].b

\* What the cursor has passed is in the tables: no event of a final block is
\* missed, wherever a worker dies and however two of them overlap, unless the
\* height was given up: a block the node did not return, a reorganisation
\* deeper than the finality window, or a rollback that skipped the height, was
\* broken off, or deleted what another worker had just indexed.
NothingMissed ==
  \A n \in 1 .. cursor : (n \notin lost /\ ~ RollingBack(n)) =>
    /\ n \in DOMAIN chain
    /\ \A e \in chain[n].events : <<n, e>> \in logged

\* The tables hold only events of the canonical chain, with the same excuse:
\* nothing of a block that a shallow reorganisation removed gets in.
NothingInvented ==
  \A r \in logged : r[1] \notin lost =>
    /\ r[1] \in DOMAIN chain
    /\ r[2] \in chain[r[1]].events

\* A cancel that is marked as applied is in force: its order is in the table
\* with nothing remaining.
AppliedMeansOut == \A r \in marked : r[2] \in Gone

\* A posted order whose cancel is final, in a block the indexer has not given up,
\* leaves the book in the end, as reconcile.js:2 has it ("then apply chain cancels
\* to matcher book").  Under ethers 6, where BigIntHead is FALSE, none does.
CancelIsFinal(h) ==
  \E n \in 1 .. SafeHead : h \in chain[n].events /\ n \notin lost

CancelReachesBook ==
  \A h \in Hashes : []<>(h \in Gone \/ ~ (h \in Posted /\ CancelIsFinal(h)))
=============================================================================
