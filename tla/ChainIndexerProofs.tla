-------------------------- MODULE ChainIndexerProofs --------------------------
(***************************************************************************)
(* Theorems of ChainIndexer, for any number of orders, events, workers and *)
(* blocks, wherever the workers die.                                       *)
(***************************************************************************)
EXTENDS ChainIndexer, OrderBookProofs, SequenceTheorems

USE OrderAssumption, IndexerAssumption

\* What a worker holds beyond its types: the loop stays within final heights,
\* and the reconciler handles cancels only.
Sane(x) ==
  /\ x.to <= MaxHeight
  /\ x.pc \in Loop \cup Rollback => x.b \in Heights /\ x.b <= x.to
  /\ x.pc = "mark" => x.b \in Heights
  /\ x.todo \subseteq Heights \X Hashes

\* A worker about to mark a cancel has made it.
Done(x) == x.pc = "mark" => x.logs \subseteq Gone

WorkersInv ==
  /\ worker \in [Workers -> Workings]
  /\ \A w \in Workers : Sane(worker[w]) /\ Done(worker[w])

TablesInv ==
  /\ chain \in Seq(Blocks) /\ Len(chain) <= MaxHeight /\ mined \in 0 .. MaxMined
  /\ logged \subseteq Rows /\ marked \subseteq Rows
  /\ cursor \in Nat
  /\ buffer \in [Heights -> 0 .. MaxMined]
  /\ lost \subseteq Heights

\* The invariant.
Inv == BookInv /\ TablesInv /\ WorkersInv /\ AppliedMeansOut

\* The book changes only by statements that bring no order back.
Kept == BookInv' /\ Gone \subseteq Gone'

\* A step that leaves the book alone keeps what is gone.
LEMMA BookKept == ASSUME Inv, UNCHANGED book PROVE Kept
  BY IdleStep DEF Inv, BookStep, Kept

\* A worker that goes on keeps the invariant of the workers.
LEMMA WorkerMoves ==
  ASSUME Inv, Kept, NEW w \in Workers, NEW x \in Workings,
         worker' = [worker EXCEPT ![w] = x],
         Sane(x), x.pc = "mark" => x.logs \subseteq Gone'
  PROVE  WorkersInv'
  <1>1. \A v \in Workers : worker'[v] = IF v = w THEN x ELSE worker[v]
    BY DEF Inv, WorkersInv
  <1>2. worker' \in [Workers -> Workings]
    BY DEF Inv, WorkersInv
  <1>3. ASSUME NEW v \in Workers PROVE Sane(worker'[v]) /\ Done(worker[v])'
    <2>1. CASE v = w
      BY <1>1, <2>1 DEF Done
    <2>2. CASE v # w
      <3>1. Sane(worker[v]) /\ Done(worker[v]) /\ worker'[v] = worker[v]
        BY <1>1, <2>2 DEF Inv, WorkersInv
      <3> QED
        BY <3>1 DEF Done, Kept
    <2> QED
      BY <2>1, <2>2
  <1> QED
    BY <1>2, <1>3 DEF WorkersInv, Sane

\* Nothing but the book changes, and no cancel is taken back.
LEMMA WorkersStay ==
  ASSUME Inv, Kept, UNCHANGED worker
  PROVE  WorkersInv'
  BY DEF Inv, WorkersInv, Kept, Done, Sane

\* What is marked stays applied.
LEMMA MarksStay ==
  ASSUME Inv, Kept, marked' \subseteq marked
  PROVE  AppliedMeansOut'
  BY DEF Inv, Kept, AppliedMeansOut

\* A worker that has fetched nothing.
LEMMA AtOK ==
  ASSUME NEW pc \in Steps, NEW b \in Int, NEW to \in Int, to <= MaxHeight, pc # "mark",
         pc \in Loop \cup Rollback => b \in Heights /\ b <= to
  PROVE  At(pc, b, to) \in Workings /\ Sane(At(pc, b, to)) /\ At(pc, b, to).pc # "mark"
  <1>1. 0 \in 0 .. MaxMined
    OBVIOUS
  <1> QED
    BY <1>1 DEF At, Workings, Sane, NoBlock

\* The idle worker, and the one that begins to reconcile.
LEMMA IdleOK ==
  /\ Idle \in Workings /\ Sane(Idle) /\ Idle.pc # "mark"
  /\ \A w : Indexed(w) \in Workings /\ Sane(Indexed(w)) /\ Indexed(w).pc # "mark"
  <1>1. /\ "idle" \in Steps /\ "select" \in Steps /\ 0 <= MaxHeight
        /\ "idle" \notin Loop \cup Rollback /\ "select" \notin Loop \cup Rollback
    BY DEF Steps, Loop, Rollback
  <1>2. Idle \in Workings /\ Sane(Idle) /\ Idle.pc # "mark"
    BY <1>1, AtOK DEF Idle
  <1>3. /\ At("select", 0, 0) \in Workings /\ Sane(At("select", 0, 0))
        /\ At("select", 0, 0).pc # "mark"
    BY <1>1, AtOK
  <1> QED
    BY <1>2, <1>3 DEF Indexed

\* The loop goes on, or ends.
LEMMA NextBlockOK ==
  ASSUME Inv, Kept, NEW w \in Workers, worker[w].pc \in Loop \cup Rollback, NextBlock(w)
  PROVE  WorkersInv'
  <1> DEFINE u == worker[w]
             on == At("fetch", u.b + 1, u.to)
             x == IF u.b < u.to THEN on ELSE Indexed(w)
  <1>1. u \in Workings /\ u.to <= MaxHeight /\ u.b \in Heights
    BY DEF Inv, WorkersInv, Sane
  <1>2. u.b \in Int /\ u.to \in Int
    BY <1>1 DEF Workings
  <1>3. worker' = [worker EXCEPT ![w] = x]
    BY DEF NextBlock, Inv, WorkersInv
  <1>4. ASSUME u.b < u.to PROVE on \in Workings /\ Sane(on) /\ on.pc # "mark"
    <2>1. "fetch" \in Steps /\ "fetch" \in Loop
      BY DEF Steps, Loop
    <2>2. u.b + 1 \in Heights
      BY <1>1, <1>2, <1>4 DEF Heights
    <2> QED
      BY <1>1, <1>2, <1>4, <2>1, <2>2, AtOK DEF At
  <1>5. x \in Workings /\ Sane(x) /\ x.pc # "mark"
    BY <1>4, IdleOK
  <1> HIDE DEF x
  <1> QED
    BY <1>3, <1>5, WorkerMoves

\* A worker whose program counter moves, with one more field at most.
LEMMA GoesOK ==
  ASSUME Inv, NEW w \in Workers, NEW pc \in Steps, Goes(w, pc), Kept,
         worker[w].pc \in Loop \cup Rollback, pc # "mark"
  PROVE  WorkersInv'
  <1> DEFINE x == [worker[w] EXCEPT !.pc = pc]
  <1>1. worker[w] \in Workings /\ Sane(worker[w])
    BY DEF Inv, WorkersInv
  <1>2. x \in Workings /\ x.pc = pc /\ x.b = worker[w].b /\ x.to = worker[w].to
        /\ x.todo = worker[w].todo
    BY <1>1 DEF Workings
  <1>3. Sane(x)
    BY <1>1, <1>2 DEF Sane
  <1>4. worker' = [worker EXCEPT ![w] = x]
    BY DEF Goes, Inv, WorkersInv
  <1> QED
    BY <1>2, <1>3, <1>4, WorkerMoves

\* Reading a block keeps the workers sane.
LEMMA GetBlockOK ==
  ASSUME Inv, NEW w \in Workers, GetBlock(w), Kept
  PROVE  WorkersInv'
  <1> DEFINE u == worker[w]
             h == chain[u.b].hash
             x == [u EXCEPT !.pc = "compare", !.hash = h]
  <1>1. u \in Workings /\ Sane(u) /\ u.pc = "fetch"
    BY DEF Inv, WorkersInv, GetBlock
  <1>2. h \in 0 .. MaxMined
    <2>1. chain \in Seq(Blocks) /\ u.b \in DOMAIN chain
      BY DEF GetBlock, Inv, TablesInv
    <2>2. chain[u.b] \in Blocks
      BY <2>1
    <2> QED
      BY <2>2 DEF Blocks
  <1>3. "compare" \in Steps /\ u.pc \in Loop \cup Rollback
    BY <1>1 DEF Steps, Loop
  <1>4. x \in Workings /\ x.pc = "compare" /\ x.b = u.b /\ x.to = u.to /\ x.todo = u.todo
    BY <1>1, <1>2, <1>3 DEF Workings
  <1>5. Sane(x)
    BY <1>1, <1>3, <1>4 DEF Sane
  <1>6. worker' = [worker EXCEPT ![w] = x]
    BY DEF GetBlock, Inv, WorkersInv
  <1> QED
    BY <1>4, <1>5, <1>6, WorkerMoves

\* Reading the events of a block keeps the workers sane.
LEMMA QueryLogsOK ==
  ASSUME Inv, NEW w \in Workers, QueryLogs(w), Kept
  PROVE  WorkersInv'
  <1> DEFINE u == worker[w]
             L == IF u.b \in DOMAIN chain THEN chain[u.b].events ELSE {}
             x == [u EXCEPT !.pc = "insert", !.logs = L]
  <1>1. u \in Workings /\ Sane(u) /\ u.pc = "logs"
    BY DEF Inv, WorkersInv, QueryLogs
  <1>2. L \in SUBSET Events
    <2>1. ASSUME u.b \in DOMAIN chain PROVE chain[u.b] \in Blocks
      BY <2>1 DEF Inv, TablesInv
    <2> QED
      BY <2>1 DEF Blocks
  <1>3. "insert" \in Steps /\ u.pc \in Loop \cup Rollback
    BY <1>1 DEF Steps, Loop
  <1>4. worker' = [worker EXCEPT ![w] = x]
    BY DEF QueryLogs, Inv, WorkersInv
  <1> HIDE DEF L
  <1>5. x \in Workings /\ x.pc = "insert" /\ x.b = u.b /\ x.to = u.to /\ x.todo = u.todo
    BY <1>1, <1>2, <1>3 DEF Workings
  <1>6. Sane(x)
    BY <1>1, <1>3, <1>5 DEF Sane
  <1> QED
    BY <1>4, <1>5, <1>6, WorkerMoves

\* Inserting an event keeps the workers sane and the tables typed.
LEMMA InsertEventOK ==
  ASSUME Inv, NEW w \in Workers, InsertEvent(w), Kept
  PROVE  WorkersInv' /\ TablesInv'
  <1> DEFINE u == worker[w]
  <1>1. u \in Workings /\ Sane(u) /\ u.pc = "insert"
    BY DEF Inv, WorkersInv, InsertEvent
  <1>2. PICK e \in u.logs : /\ logged' = logged \cup {<<u.b, e>>}
                            /\ worker' = [worker EXCEPT ![w].logs = @ \ {e}]
    BY DEF InsertEvent
  <1> DEFINE x == [u EXCEPT !.logs = u.logs \ {e}]
  <1>3. worker' = [worker EXCEPT ![w] = x]
    BY <1>2 DEF Inv, WorkersInv
  <1>4. x \in Workings /\ x.pc = "insert" /\ x.b = u.b /\ x.to = u.to /\ x.todo = u.todo
    BY <1>1 DEF Workings
  <1>5. Sane(x)
    BY <1>1, <1>4 DEF Sane
  <1>6. e \in Events /\ u.b \in Heights
    BY <1>1 DEF Workings, Sane, Loop
  <1>7. <<u.b, e>> \in Rows
    BY <1>6 DEF Rows
  <1>8. TablesInv'
    BY <1>2, <1>7 DEF InsertEvent, Inv, TablesInv, network
  <1> QED
    BY <1>3, <1>4, <1>5, <1>8, WorkerMoves

\* The rows pending are cancels.
LEMMA SelectCancelsOK ==
  ASSUME Inv, NEW w \in Workers, SelectCancels(w), Kept
  PROVE  WorkersInv'
  <1> DEFINE u == worker[w]
             pc == IF Pending = {} THEN "idle" ELSE "cancel"
             x == [u EXCEPT !.todo = Pending, !.pc = pc]
  <1>1. u \in Workings /\ Sane(u)
    BY DEF Inv, WorkersInv
  <1>2. Pending \subseteq Heights \X Hashes /\ Pending \subseteq Rows
    BY DEF Pending, Inv, TablesInv, Rows
  <1>3. pc \in Steps /\ pc \notin Loop \cup Rollback /\ pc # "mark"
    BY DEF Steps, Loop, Rollback
  <1>4. worker' = [worker EXCEPT ![w] = x]
    BY DEF SelectCancels, Inv, WorkersInv
  <1> HIDE DEF pc
  <1>5. x \in Workings /\ x.pc = pc /\ x.to = u.to /\ x.todo = Pending
    BY <1>1, <1>2, <1>3 DEF Workings
  <1>6. Sane(x)
    BY <1>1, <1>2, <1>3, <1>5 DEF Sane
  <1> QED
    BY <1>3, <1>4, <1>5, <1>6, WorkerMoves

\* What is left to do after one cancel.
LEMMA RestOK ==
  ASSUME Inv, NEW w \in Workers, NEW r
  PROVE  Rest(w, r) \in Workings /\ Sane(Rest(w, r)) /\ Rest(w, r).pc # "mark"
  <1> DEFINE u == worker[w]
             x == [u EXCEPT !.pc = "cancel", !.todo = @ \ {r}]
  <1>1. u \in Workings /\ Sane(u)
    BY DEF Inv, WorkersInv
  <1>2. "cancel" \in Steps /\ "cancel" \notin Loop \cup Rollback
    BY DEF Steps, Loop, Rollback
  <1>3. x \in Workings /\ x.pc = "cancel" /\ x.to = u.to /\ x.todo = u.todo \ {r}
    BY <1>1, <1>2 DEF Workings
  <1>4. Sane(x)
    BY <1>1, <1>2, <1>3 DEF Sane
  <1> HIDE DEF x
  <1>5. Rest(w, r) = Idle \/ Rest(w, r) = x
    BY DEF Rest, x
  <1> QED
    BY <1>3, <1>4, <1>5, IdleOK

\* A cancel is made before it is marked, and only an order that is in the book
\* is marked.
LEMMA CancelInBookOK ==
  ASSUME Inv, NEW w \in Workers, CancelInBook(w)
  PROVE  Kept /\ WorkersInv'
  <1> DEFINE u == worker[w]
  <1>1. u \in Workings /\ Sane(u)
    BY DEF Inv, WorkersInv
  <1>2. PICK r \in u.todo :
          /\ CancelOrder(r[2])
          /\ worker' = [worker EXCEPT ![w] =
                IF r[2] \in Posted THEN [@ EXCEPT !.pc = "mark", !.b = r[1], !.logs = {r[2]}]
                                   ELSE Rest(w, r)]
    BY DEF CancelInBook, Oldest
  <1>3. r[1] \in Heights /\ r[2] \in Hashes
    BY <1>1 DEF Sane
  <1>4. Kept /\ (r[2] \in Posted => r[2] \in Gone')
    BY <1>2, <1>3, CancelOrderStep DEF Inv, Kept, BookStep
  <1>5. CASE r[2] \in Posted
    <2> DEFINE x == [u EXCEPT !.pc = "mark", !.b = r[1], !.logs = {r[2]}]
    <2>1. worker' = [worker EXCEPT ![w] = x]
      BY <1>2, <1>5 DEF Inv, WorkersInv
    <2>2. "mark" \in Steps /\ "mark" \notin Loop \cup Rollback
      BY DEF Steps, Loop, Rollback
    <2>3. r[1] \in Int /\ {r[2]} \in SUBSET Events
      BY <1>3 DEF Heights, Events
    <2> DEFINE y == [u EXCEPT !.pc = "mark", !.b = r[1]]
    <2>7. x = [y EXCEPT !.logs = {r[2]}]
      BY Zenon
    <2>4. y \in Workings /\ y.pc = "mark" /\ y.b = r[1] /\ y.to = u.to /\ y.todo = u.todo
      BY <1>1, <2>2, <2>3 DEF Workings
    <2> HIDE DEF y, x
    <2>5. /\ x \in Workings /\ x.pc = "mark" /\ x.b = r[1] /\ x.to = u.to
          /\ x.todo = u.todo /\ x.logs = {r[2]}
      BY <2>3, <2>7, <2>4 DEF Workings
    <2>6. Sane(x)
      BY <1>1, <1>3, <2>2, <2>5 DEF Sane
    <2> QED
      BY <1>4, <1>5, <2>1, <2>5, <2>6, WorkerMoves
  <1>6. CASE r[2] \notin Posted
    <2>1. worker' = [worker EXCEPT ![w] = Rest(w, r)]
      BY <1>2, <1>6
    <2> QED
      BY <1>4, <2>1, RestOK, WorkerMoves
  <1> QED
    BY <1>5, <1>6

\* Only what was cancelled is marked.
LEMMA MarkAppliedOK ==
  ASSUME Inv, NEW w \in Workers, MarkApplied(w), Kept
  PROVE  WorkersInv' /\ TablesInv' /\ AppliedMeansOut'
  <1>1. worker[w] \in Workings /\ Sane(worker[w]) /\ Done(worker[w]) /\ worker[w].pc = "mark"
    BY DEF Inv, WorkersInv, MarkApplied
  <1>2. PICK e \in worker[w].logs :
          /\ marked' = marked \cup ({<<worker[w].b, e>>} \cap logged)
          /\ worker' = [worker EXCEPT ![w] = Rest(w, <<worker[w].b, e>>)]
    BY DEF MarkApplied
  <1>3. WorkersInv'
    BY <1>2, RestOK, WorkerMoves
  <1>4. e \in Gone'
    BY <1>1 DEF Done, Kept
  <1>5. AppliedMeansOut'
    BY <1>2, <1>4 DEF Inv, AppliedMeansOut, Kept
  <1>6. TablesInv'
    BY <1>2 DEF MarkApplied, Inv, TablesInv, network
  <1> QED
    BY <1>3, <1>5, <1>6

\* A run begins: the head is bounded by the chain, the cursor by the head.
LEMMA ReadOK ==
  ASSUME Inv, NEW w \in Workers, ReadHead(w) \/ ReadCursor(w), Kept
  PROVE  WorkersInv'
  <1> DEFINE u == worker[w]
  <1>1. u \in Workings /\ Sane(u)
    BY DEF Inv, WorkersInv
  <1>2. u.to \in Int /\ u.to <= MaxHeight
    BY <1>1 DEF Workings, Sane
  <1>3. /\ "cursor" \in Steps /\ "cursor" \notin Loop \cup Rollback
        /\ "fetch" \in Steps
    BY DEF Steps, Loop, Rollback
  <1>4. ASSUME NEW x, worker' = [worker EXCEPT ![w] = x],
               x \in Workings, Sane(x), x.pc # "mark"
        PROVE  WorkersInv'
    BY <1>4, WorkerMoves
  <1>5. CASE ReadHead(w)
    <2>1. SafeHead \in Int /\ SafeHead <= MaxHeight
      BY DEF SafeHead, Inv, TablesInv
    <2>2. /\ At("cursor", 0, SafeHead) \in Workings /\ Sane(At("cursor", 0, SafeHead))
          /\ At("cursor", 0, SafeHead).pc # "mark"
      BY <1>3, <2>1, AtOK
    <2>3. \/ worker' = [worker EXCEPT ![w] = Indexed(w)]
          \/ worker' = [worker EXCEPT ![w] = At("cursor", 0, SafeHead)]
      BY <1>5 DEF ReadHead
    <2> QED
      BY <1>4, <2>2, <2>3, IdleOK
  <1>6. CASE ReadCursor(w)
    <2>1. cursor \in Nat
      BY DEF Inv, TablesInv
    <2>2. CASE cursor + 1 > u.to
      <3>1. worker' = [worker EXCEPT ![w] = Indexed(w)]
        BY <1>6, <2>2 DEF ReadCursor, Inv, WorkersInv
      <3> QED
        BY <1>4, <3>1, IdleOK
    <2>3. CASE ~ (cursor + 1 > u.to)
      <3>1. worker' = [worker EXCEPT ![w] = At("fetch", cursor + 1, u.to)]
        BY <1>6, <2>3 DEF ReadCursor, Inv, WorkersInv
      <3>2. cursor + 1 \in Heights /\ cursor + 1 <= u.to /\ cursor + 1 \in Int
        BY <1>2, <2>1, <2>3 DEF Heights
      <3>3. /\ At("fetch", cursor + 1, u.to) \in Workings
            /\ Sane(At("fetch", cursor + 1, u.to))
            /\ At("fetch", cursor + 1, u.to).pc # "mark"
        BY <1>2, <1>3, <3>2, AtOK
      <3> QED
        BY <1>4, <3>1, <3>3
    <2> QED
      BY <2>2, <2>3
  <1> QED
    BY <1>5, <1>6

\* The steps of a worker keep the workers sane.
LEMMA WorkOK ==
  ASSUME Inv, NEW w \in Workers, Work(w)
  PROVE  Kept /\ WorkersInv'
  <1>1. CASE CancelInBook(w)
    BY <1>1, CancelInBookOK
  <1>2. ASSUME ~ CancelInBook(w) PROVE Kept
    <2>1. UNCHANGED book
      BY <1>2 DEF Work, ReadHead, ReadCursor, GetBlock, SkipBlock, Compare, QueryLogs,
                  InsertEvent, SetCursor, SetBlock, DropFills, DropCancels, DropBlocks,
                  ResetCursor, SelectCancels, MarkApplied
    <2> QED
      BY <2>1, BookKept
  <1>3. ASSUME Kept, ReadHead(w) \/ ReadCursor(w) PROVE WorkersInv'
    BY <1>3, ReadOK
  <1>4. ASSUME Kept, \/ GetBlock(w) \/ QueryLogs(w) \/ InsertEvent(w)
                     \/ SelectCancels(w) \/ MarkApplied(w)
        PROVE  WorkersInv'
    BY <1>4, GetBlockOK, QueryLogsOK, InsertEventOK, SelectCancelsOK, MarkAppliedOK
  <1>5. ASSUME Kept, SkipBlock(w) \/ SetBlock(w) \/ ResetCursor(w) PROVE WorkersInv'
    <2>1. NextBlock(w) /\ worker[w].pc \in Loop \cup Rollback
      BY <1>5 DEF SkipBlock, SetBlock, ResetCursor, Loop, Rollback
    <2> QED
      BY <1>5, <2>1, NextBlockOK
  <1>6. ASSUME Kept, \/ Compare(w) \/ SetCursor(w)
                     \/ DropFills(w) \/ DropCancels(w) \/ DropBlocks(w)
        PROVE  WorkersInv'
    <2>1. worker[w].pc \in Loop \cup Rollback
      BY <1>6 DEF Compare, SetCursor, DropFills, DropCancels, DropBlocks, Loop, Rollback
    <2>2. \E pc \in {"logs", "dropFills", "setBlock", "dropCancels", "dropBlocks",
                     "resetCursor"} : Goes(w, pc)
      BY <1>6 DEF Compare, SetCursor, DropFills, DropCancels, DropBlocks
    <2>3. \A pc \in {"logs", "dropFills", "setBlock", "dropCancels", "dropBlocks",
                     "resetCursor"} : pc \in Steps /\ pc # "mark"
      BY DEF Steps
    <2> QED
      BY <1>6, <2>1, <2>2, <2>3, GoesOK
  <1> QED
    BY <1>1, <1>2, <1>3, <1>4, <1>5, <1>6 DEF Work

\* The steps of a worker keep the tables typed.
LEMMA WorkTables ==
  ASSUME Inv, NEW w \in Workers, Work(w)
  PROVE  TablesInv'
  <1>1. worker[w] \in Workings /\ Sane(worker[w])
    BY DEF Inv, WorkersInv
  <1>2. TablesInv /\ worker[w].hash \in 0 .. MaxMined /\ NoBlock \in 0 .. MaxMined
    BY <1>1 DEF Inv, Workings, NoBlock
  <1>3. worker[w].pc \in Loop \cup Rollback =>
          worker[w].b \in Heights /\ worker[w].b \in Nat /\ worker[w].b - 1 \in Nat
    BY <1>1 DEF Sane, Heights
  <1>4. Overtaken(w, Loop) \subseteq Heights /\ Abandoned(w) \subseteq Heights
    BY DEF Overtaken, Abandoned
  <1>5. CASE \/ ReadHead(w) \/ ReadCursor(w) \/ GetBlock(w) \/ Compare(w) \/ QueryLogs(w)
             \/ SelectCancels(w) \/ CancelInBook(w)
    BY <1>2, <1>5 DEF ReadHead, ReadCursor, GetBlock, Compare, QueryLogs, SelectCancels,
                      CancelInBook, TablesInv, network, tables
  <1>6. CASE InsertEvent(w)
    <2>1. Kept
      BY <1>6, BookKept DEF InsertEvent
    <2> QED
      BY <1>6, <2>1, InsertEventOK
  <1>7. CASE MarkApplied(w)
    <2>1. Kept
      BY <1>7, BookKept DEF MarkApplied
    <2> QED
      BY <1>7, <2>1, MarkAppliedOK
  <1>8. CASE SkipBlock(w)
    BY <1>2, <1>3, <1>8 DEF SkipBlock, Loop, TablesInv, network, tables
  <1>9. CASE SetCursor(w) \/ SetBlock(w)
    BY <1>2, <1>3, <1>9 DEF SetCursor, SetBlock, Loop, TablesInv, network
  <1>10. CASE DropFills(w)
    BY <1>2, <1>4, <1>10 DEF DropFills, TablesInv, network
  <1>11. CASE DropCancels(w)
    BY <1>2, <1>4, <1>11 DEF DropCancels, TablesInv, network
  <1>12. CASE DropBlocks(w)
    BY <1>2, <1>12 DEF DropBlocks, TablesInv, network
  <1>13. CASE ResetCursor(w)
    BY <1>2, <1>3, <1>4, <1>13 DEF ResetCursor, Rollback, TablesInv, network
  <1> QED
    BY <1>5, <1>6, <1>7, <1>8, <1>9, <1>10, <1>11, <1>12, <1>13 DEF Work

\* The chain and the clients.
LEMMA WorldOK ==
  ASSUME Inv, Mine \/ Reorg \/ Post
  PROVE  Kept /\ TablesInv' /\ WorkersInv' /\ AppliedMeansOut'
  <1>1. Kept /\ UNCHANGED worker /\ marked' = marked
    <2>1. CASE Mine \/ Reorg
      BY <2>1, BookKept DEF Mine, Reorg, tables
    <2>2. CASE Post
      BY <2>2, InsertOrderStep DEF Post, tables, Inv, Kept, BookStep
    <2> QED
      BY <2>1, <2>2
  <1>2. ASSUME Post PROVE TablesInv'
    BY <1>2 DEF Post, Inv, TablesInv, network, tables
  <1>3. ASSUME Mine PROVE TablesInv'
    <2>1. PICK E \in SUBSET (Events \ OnChain) :
            chain' = Append(chain, [hash |-> mined + 1, events |-> E])
      BY <1>3 DEF Mine
    <2>2. /\ mined \in 0 .. MaxMined /\ mined < MaxMined /\ mined' = mined + 1
          /\ chain \in Seq(Blocks) /\ Len(chain) < MaxHeight
      BY <1>3 DEF Mine, Inv, TablesInv
    <2>3. mined + 1 \in 1 .. MaxMined
      BY <2>2
    <2>4. [hash |-> mined + 1, events |-> E] \in Blocks
      BY <2>3 DEF Blocks
    <2>5. chain' \in Seq(Blocks) /\ Len(chain') = Len(chain) + 1
      BY <2>1, <2>2, <2>4, AppendProperties
    <2>6. Len(chain') <= MaxHeight /\ mined' \in 0 .. MaxMined
      BY <2>2, <2>3, <2>5
    <2> QED
      BY <1>3, <2>5, <2>6 DEF Mine, Inv, TablesInv, tables
  <1>4. ASSUME Reorg PROVE TablesInv'
    <2>1. PICK n \in 0 .. Len(chain) - 1 : chain' = SubSeq(chain, 1, n)
      BY <1>4 DEF Reorg
    <2>2. chain \in Seq(Blocks) /\ Len(chain) \in Nat /\ Len(chain) <= MaxHeight
      BY DEF Inv, TablesInv
    <2>3. \A k \in 1 .. n : chain[k] \in Blocks
      BY <2>1, <2>2
    <2>4. chain' \in Seq(Blocks) /\ Len(chain') = IF 1 <= n THEN n - 1 + 1 ELSE 0
      BY <2>1, <2>2, <2>3, SubSeqProperties
    <2>5. Len(chain') <= MaxHeight
      BY <2>2, <2>4
    <2>6. lost' \subseteq Heights
      BY <1>4 DEF Reorg, Inv, TablesInv
    <2> QED
      BY <1>4, <2>4, <2>5, <2>6 DEF Reorg, Inv, TablesInv, tables
  <1> QED
    BY <1>1, <1>2, <1>3, <1>4, WorkersStay, MarksStay

\* A crash forgets what the worker was doing and nothing else.
LEMMA CrashOK ==
  ASSUME Inv, NEW w \in Workers, Crash(w)
  PROVE  Kept /\ TablesInv' /\ WorkersInv' /\ AppliedMeansOut'
  <1>1. Kept
    BY BookKept DEF Crash
  <1>2. WorkersInv'
    BY <1>1, IdleOK, WorkerMoves DEF Crash
  <1>3. lost' \subseteq Heights
    BY DEF Crash, Inv, TablesInv, Abandoned, Overtaken
  <1>4. TablesInv' /\ marked' = marked
    BY <1>3 DEF Crash, Inv, TablesInv, network, tables
  <1> QED
    BY <1>1, <1>2, <1>4, MarksStay

\* The invariant holds throughout.
THEOREM Invariant == Spec => []Inv
  <1>1. Init => Inv
    <2> SUFFICES ASSUME Init PROVE Inv
      OBVIOUS
    <2>1. BookInv
      BY DEF Init, BookInv, BookTypeOK
    <2>2. TablesInv
      BY DEF Init, TablesInv, NoBlock
    <2>3. WorkersInv
      BY IdleOK DEF Init, WorkersInv, Done
    <2> QED
      BY <2>1, <2>2, <2>3 DEF Init, Inv, AppliedMeansOut
  <1>2. Inv /\ [Next]_vars => Inv'
    <2> SUFFICES ASSUME Inv, [Next]_vars PROVE Inv'
      OBVIOUS
    <2>1. CASE Mine \/ Reorg \/ Post
      BY <2>1, WorldOK DEF Inv, Kept
    <2>2. ASSUME NEW w \in Workers, Crash(w) PROVE Inv'
      BY <2>2, CrashOK DEF Inv, Kept
    <2>3. ASSUME NEW w \in Workers, Work(w) PROVE Inv'
      <3>1. Kept /\ WorkersInv' /\ TablesInv'
        BY <2>3, WorkOK, WorkTables
      <3>2. AppliedMeansOut'
        <4>1. CASE MarkApplied(w)
          BY <3>1, <4>1, MarkAppliedOK
        <4>2. CASE ~ MarkApplied(w)
          <5>1. marked' \subseteq marked
            BY <2>3, <4>2 DEF Work, ReadHead, ReadCursor, GetBlock, SkipBlock, Compare,
                  QueryLogs, InsertEvent, SetCursor, SetBlock, DropFills, DropCancels,
                  DropBlocks, ResetCursor, SelectCancels, CancelInBook, tables
          <5> QED
            BY <3>1, <5>1, MarksStay
        <4> QED
          BY <4>1, <4>2
      <3> QED
        BY <3>1, <3>2 DEF Inv, Kept
    <2>4. CASE UNCHANGED vars
      <3>1. Kept /\ UNCHANGED worker /\ marked' = marked
        BY <2>4, BookKept DEF vars, tables
      <3>2. TablesInv'
        BY <2>4 DEF Inv, TablesInv, vars, network, tables
      <3> QED
        BY <3>1, <3>2, WorkersStay, MarksStay DEF Inv, Kept
    <2> QED
      BY <2>1, <2>2, <2>3, <2>4 DEF Next
  <1> QED
    BY <1>1, <1>2, PTL DEF Spec

\* The tables, the cursor and the workers keep their types.
THEOREM IndexerTyped == Spec => []TypeOK
  <1>1. Inv => TypeOK
    BY DEF Inv, BookInv, TablesInv, WorkersInv, TypeOK
  <1> QED
    BY <1>1, Invariant, PTL

\* A cancel that applyChainCancels marked as applied is in force in the book,
\* wherever workers die and however many run at once.
THEOREM AppliedCancels == Spec => []AppliedMeansOut
  <1>1. Inv => AppliedMeansOut
    BY DEF Inv
  <1> QED
    BY <1>1, Invariant, PTL

(***************************************************************************)
(* What the tables say about the chain.  A height is final once the chain  *)
(* has been Finality blocks longer; from then on its block changes only if *)
(* the height is given up.                                                 *)
(***************************************************************************)
FinalHead == tip - Finality

Complete(n) == /\ n \in DOMAIN chain
               /\ \A e \in chain[n].events : <<n, e>> \in logged

Settled(n) == n \in lost \/ RollingBack(n) \/ Complete(n)

\* Final heights that were not given up have a block.
Lasting ==
  /\ tip \in Nat /\ Len(chain) <= tip /\ tip <= MaxHeight
  /\ \A n \in 1 .. FinalHead : n \in lost \/ n \in DOMAIN chain

\* Rows and cursor stay within the final heights, rows are events of their
\* blocks, and the cursor has passed settled heights only.
Recorded ==
  /\ \A r \in logged : /\ r[1] <= FinalHead
                       /\ r[1] \in lost \/ r[2] \in chain[r[1]].events
  /\ cursor # 0 => cursor <= FinalHead
  /\ \A n \in 1 .. cursor : Settled(n)

\* A worker leaves settled heights behind; once it has the logs of its block,
\* each event is still to be inserted or in the tables.
Careful(x) ==
  /\ x.pc \in {"cursor"} \cup Loop \cup Rollback => x.to <= FinalHead
  /\ x.pc \in Loop \cup Rollback => \A n \in 1 .. x.b - 1 : Settled(n)
  /\ x.pc = "setBlock" => x.logs = {}
  /\ x.pc \in {"insert", "setBlock"} /\ x.b \notin lost =>
       /\ x.logs \subseteq chain[x.b].events
       /\ \A e \in chain[x.b].events : e \in x.logs \/ <<x.b, e>> \in logged

Faithful == Lasting /\ Recorded /\ \A w \in Workers : Careful(worker[w])

\* A worker that goes from what it does to x leaves height n as it was: what
\* it rolls back is rolled back still, or the height is given up.
Spares(w, x, n) ==
  \/ n \in lost'
  \/ x.pc \in Rollback /\ n >= x.b
  \/ /\ ~ (worker[w].pc \in Rollback /\ n >= worker[w].b)
     /\ \A e : <<n, e>> \in logged => <<n, e>> \in logged'

\* A settled height that is spared stays settled.
LEMMA SettledSpared ==
  ASSUME Inv, NEW w \in Workers, NEW x, worker' = [worker EXCEPT ![w] = x],
         chain' = chain, lost \subseteq lost', NEW n, Settled(n), Spares(w, x, n)
  PROVE  Settled(n)'
  <1>1. \A v \in Workers : worker'[v] = IF v = w THEN x ELSE worker[v]
    BY DEF Inv, WorkersInv
  <1>2. CASE n \in lost'
    BY <1>2 DEF Settled
  <1>3. CASE x.pc \in Rollback /\ n >= x.b
    BY <1>1, <1>3 DEF Settled, RollingBack
  <1>4. CASE /\ ~ (worker[w].pc \in Rollback /\ n >= worker[w].b)
             /\ \A e : <<n, e>> \in logged => <<n, e>> \in logged'
    <2>1. RollingBack(n) => RollingBack(n)'
      BY <1>1, <1>4 DEF RollingBack
    <2>2. Complete(n) => Complete(n)'
      BY <1>4 DEF Complete
    <2> QED
      BY <2>1, <2>2 DEF Settled
  <1> QED
    BY <1>2, <1>3, <1>4 DEF Spares

\* What a step of worker w to x has to show for the invariant.
Honours(w, x) ==
  /\ chain' = chain /\ tip' = tip /\ lost \subseteq lost'
  /\ \A r \in logged' : \/ r \in logged
                        \/ /\ r[1] <= FinalHead
                           /\ r[1] \in lost' \/ r[2] \in chain[r[1]].events
  /\ \A v \in Workers \ {w} : worker[v].pc \in Loop \cup Rollback =>
       /\ \A n \in 1 .. worker[v].b - 1 : Spares(w, x, n)
       /\ worker[v].pc \in Loop /\ worker[v].b \notin lost' =>
            \A e : <<worker[v].b, e>> \in logged => <<worker[v].b, e>> \in logged'
  /\ cursor' # 0 => cursor' <= FinalHead
  /\ \A n \in 1 .. cursor' : Settled(n)'
  /\ Careful(x)'

\* A step of one worker.
LEMMA WorkerHonours ==
  ASSUME Inv, Faithful, NEW w \in Workers, NEW x,
         worker' = [worker EXCEPT ![w] = x], Honours(w, x)
  PROVE  Faithful'
  <1>1. \A v \in Workers : worker'[v] = IF v = w THEN x ELSE worker[v]
    BY DEF Inv, WorkersInv
  <1>2. /\ chain' = chain /\ tip' = tip /\ lost \subseteq lost'
        /\ FinalHead' = FinalHead
    BY DEF Honours, FinalHead
  <1>3. Lasting'
    BY <1>2 DEF Faithful, Lasting
  <1>4. Recorded'
    <2>1. \A r \in logged' : /\ r[1] <= FinalHead
                             /\ r[1] \in lost' \/ r[2] \in chain[r[1]].events
      BY <1>2 DEF Honours, Faithful, Recorded
    <2> QED
      BY <1>2, <2>1 DEF Honours, Recorded
  <1>5. ASSUME NEW v \in Workers, v # w PROVE Careful(worker[v])'
    <2> DEFINE u == worker[v]
    <2>1. Careful(u) /\ worker'[v] = u
      BY <1>1, <1>5 DEF Faithful
    <2>2. ASSUME u.pc \in Loop \cup Rollback, NEW n \in 1 .. u.b - 1
          PROVE  Settled(n)'
      <3>1. Settled(n) /\ Spares(w, x, n)
        BY <1>5, <2>1, <2>2 DEF Careful, Honours
      <3> QED
        BY <1>2, <3>1, SettledSpared
    <2>3. u.pc \in {"insert", "setBlock"} =>
            u.pc \in Loop /\ u.pc \in Loop \cup Rollback
      BY DEF Loop
    <2>4. ASSUME u.pc \in {"insert", "setBlock"}, u.b \notin lost'
          PROVE  /\ u.logs \subseteq chain[u.b].events
                 /\ \A e \in chain[u.b].events : e \in u.logs \/ <<u.b, e>> \in logged'
      <3>1. \A e : <<u.b, e>> \in logged => <<u.b, e>> \in logged'
        BY <1>5, <2>3, <2>4 DEF Honours
      <3> QED
        BY <1>2, <2>1, <2>4, <3>1 DEF Careful
    <2> HIDE DEF u
    <2>5. /\ u.pc \in {"cursor"} \cup Loop \cup Rollback => u.to <= FinalHead
          /\ u.pc = "setBlock" => u.logs = {}
      BY <2>1 DEF Careful
    <2> QED
      BY <1>2, <2>1, <2>2, <2>4, <2>5 DEF Careful
  <1>6. Careful(worker[w])'
    BY <1>1 DEF Honours
  <1> QED
    BY <1>3, <1>4, <1>5, <1>6 DEF Faithful

\* A step of worker w to x that deletes no row and ends no rollback.
Quiet(w, x) ==
  /\ worker' = [worker EXCEPT ![w] = x]
  /\ chain' = chain /\ tip' = tip /\ lost \subseteq lost' /\ logged \subseteq logged'
  /\ worker[w].pc \in Rollback => x.pc \in Rollback /\ x.b = worker[w].b

\* It leaves every settled height settled.
LEMMA QuietSettled ==
  ASSUME Inv, NEW w \in Workers, NEW x, Quiet(w, x)
  PROVE  \A n : Spares(w, x, n) /\ (Settled(n) => Settled(n)')
  <1> SUFFICES ASSUME NEW n PROVE Spares(w, x, n) /\ (Settled(n) => Settled(n)')
    OBVIOUS
  <1>1. Spares(w, x, n)
    BY DEF Quiet, Spares
  <1> QED
    BY <1>1, SettledSpared DEF Quiet

\* What else such a step has to show.
LEMMA QuietStep ==
  ASSUME Inv, Faithful, NEW w \in Workers, NEW x, Quiet(w, x), Careful(x)',
         \A r \in logged' : \/ r \in logged
                            \/ /\ r[1] <= FinalHead
                               /\ r[1] \in lost' \/ r[2] \in chain[r[1]].events,
         cursor' = cursor \/ (cursor' <= FinalHead /\ \A n \in 1 .. cursor' : Settled(n)')
  PROVE  Faithful'
  <1>1. /\ cursor' # 0 => cursor' <= FinalHead
        /\ \A n \in 1 .. cursor' : Settled(n)'
    BY QuietSettled DEF Faithful, Recorded
  <1>2. \A v \in Workers \ {w} : worker[v].pc \in Loop \cup Rollback =>
          /\ \A n \in 1 .. worker[v].b - 1 : Spares(w, x, n)
          /\ worker[v].pc \in Loop /\ worker[v].b \notin lost' =>
               \A e : <<worker[v].b, e>> \in logged => <<worker[v].b, e>> \in logged'
    <2>1. \A n : Spares(w, x, n)
      BY QuietSettled
    <2> QED
      BY <2>1 DEF Quiet
  <1>3. Honours(w, x)
    BY <1>1, <1>2 DEF Honours, Quiet
  <1> QED
    BY <1>3, WorkerHonours DEF Quiet

\* A worker that is neither in the loop nor about to enter it.
LEMMA RestingCareful ==
  ASSUME NEW x, x.pc \notin {"cursor"} \cup Loop \cup Rollback
  PROVE  Careful(x)'
  BY DEF Careful, Loop

\* A worker that is done with its range, or starts again.
LEMMA IndexedCareful ==
  ASSUME NEW w
  PROVE  Careful(Indexed(w))' /\ Careful(Idle)'
  <1>1. /\ Idle.pc \notin {"cursor"} \cup Loop \cup Rollback
        /\ Indexed(w).pc \notin {"cursor"} \cup Loop \cup Rollback
    BY DEF Idle, Indexed, At, Loop, Rollback
  <1> QED
    BY <1>1, RestingCareful

\* The loop goes on when the height it leaves is settled.
LEMMA NextBlockCareful ==
  ASSUME Inv, NEW w \in Workers, NEW x, worker[w].pc \in Loop \cup Rollback,
         x = IF worker[w].b < worker[w].to THEN At("fetch", worker[w].b + 1, worker[w].to)
                                           ELSE Indexed(w),
         worker[w].to <= FinalHead', \A n \in 1 .. worker[w].b : Settled(n)'
  PROVE  Careful(x)'
  <1>1. worker[w].b \in Int
    BY DEF Inv, WorkersInv, Workings
  <1>2. CASE worker[w].b < worker[w].to
    <2>1. /\ x.pc = "fetch" /\ x.b = worker[w].b + 1 /\ x.to = worker[w].to
      BY <1>2 DEF At
    <2>2. x.b - 1 = worker[w].b
      BY <1>1, <2>1
    <2> QED
      BY <2>1, <2>2 DEF Careful
  <1>3. CASE ~ (worker[w].b < worker[w].to)
    BY <1>3, IndexedCareful
  <1> QED
    BY <1>2, <1>3

\* A run begins.
LEMMA ReadFaithful ==
  ASSUME Inv, Faithful, NEW w \in Workers, ReadHead(w) \/ ReadCursor(w)
  PROVE  Faithful'
  <1> DEFINE u == worker[w]
  <1>1. /\ chain' = chain /\ tip' = tip /\ lost' = lost /\ logged' = logged
        /\ cursor' = cursor /\ u.pc \notin Rollback /\ FinalHead' = FinalHead
    BY DEF ReadHead, ReadCursor, network, tables, Rollback, FinalHead
  <1>2. ASSUME NEW x, worker' = [worker EXCEPT ![w] = x], Careful(x)' PROVE Faithful'
    <2>1. Quiet(w, x)
      BY <1>1, <1>2 DEF Quiet
    <2> QED
      BY <1>1, <1>2, <2>1, QuietStep
  <1>3. ASSUME worker' = [worker EXCEPT ![w] = Indexed(w)] PROVE Faithful'
    BY <1>2, <1>3, IndexedCareful
  <1>4. CASE ReadHead(w)
    <2>1. CASE SafeHead < 0
      BY <1>3, <1>4, <2>1 DEF ReadHead
    <2>2. CASE ~ (SafeHead < 0)
      <3>1. PICK x : x = At("cursor", 0, SafeHead)
        OBVIOUS
      <3>2. worker' = [worker EXCEPT ![w] = x]
        BY <1>4, <2>2, <3>1 DEF ReadHead
      <3>3. x.pc = "cursor" /\ x.to = SafeHead
        BY <3>1 DEF At
      <3>4. SafeHead <= FinalHead
        BY DEF SafeHead, FinalHead, Faithful, Lasting, Inv, TablesInv
      <3>5. Careful(x)'
        BY <1>1, <3>3, <3>4 DEF Careful, Loop, Rollback
      <3> QED
        BY <1>2, <3>2, <3>5
    <2> QED
      BY <2>1, <2>2
  <1>5. CASE ReadCursor(w)
    <2>1. CASE cursor + 1 > u.to
      <3>1. worker' = [worker EXCEPT ![w] = Indexed(w)]
        BY <1>5, <2>1 DEF ReadCursor, Inv, WorkersInv
      <3> QED
        BY <1>3, <3>1
    <2>2. CASE ~ (cursor + 1 > u.to)
      <3>1. PICK x : x = At("fetch", cursor + 1, u.to)
        OBVIOUS
      <3>2. worker' = [worker EXCEPT ![w] = x]
        BY <1>5, <2>2, <3>1 DEF ReadCursor, Inv, WorkersInv
      <3>3. x.pc = "fetch" /\ x.b = cursor + 1 /\ x.to = u.to
        BY <3>1 DEF At
      <3>4. u.to <= FinalHead'
        BY <1>1, <1>5 DEF ReadCursor, Faithful, Careful
      <3>5. x.b - 1 = cursor
        BY <3>3 DEF Inv, TablesInv
      <3>6. Quiet(w, x)
        BY <1>1, <3>2 DEF Quiet
      <3>7. \A n \in 1 .. x.b - 1 : Settled(n)'
        BY <3>5, <3>6, QuietSettled DEF Faithful, Recorded
      <3>8. Careful(x)'
        BY <3>3, <3>4, <3>7 DEF Careful
      <3> QED
        BY <1>2, <3>2, <3>8
    <2> QED
      BY <2>1, <2>2
  <1> QED
    BY <1>4, <1>5

\* What a worker in the loop or in a rollback is sure of.
LEMMA AtWork ==
  ASSUME Inv, Faithful, NEW w \in Workers, worker[w].pc \in Loop \cup Rollback
  PROVE  /\ worker[w] \in Workings /\ worker[w].b \in Heights /\ worker[w].b \in Nat
         /\ worker[w].b <= FinalHead
         /\ worker[w].b \in lost \/ worker[w].b \in DOMAIN chain
         /\ worker[w].to <= FinalHead
         /\ \A n \in 1 .. worker[w].b - 1 : Settled(n)
  <1>1. worker[w] \in Workings /\ Sane(worker[w]) /\ Careful(worker[w])
    BY DEF Inv, WorkersInv, Faithful
  <1>2. worker[w].b \in Heights /\ worker[w].b <= worker[w].to /\ worker[w].to <= FinalHead
    BY <1>1 DEF Sane, Careful
  <1>3. worker[w].to \in Int /\ FinalHead \in Int /\ worker[w].b \in Nat
    BY <1>1, <1>2 DEF Workings, FinalHead, Faithful, Lasting, Heights
  <1>4. worker[w].b \in 1 .. FinalHead
    BY <1>2, <1>3 DEF Heights
  <1> QED
    BY <1>1, <1>2, <1>3, <1>4 DEF Careful, Faithful, Lasting

\* The heights up to b are b and those below it.
LEMMA UpTo == \A b \in Nat : \A n \in 1 .. b : n = b \/ n \in 1 .. b - 1
  OBVIOUS

\* Steps of the loop that change the worker only.
LEMMA LoopFaithful ==
  ASSUME Inv, Faithful, NEW w \in Workers, GetBlock(w) \/ Compare(w) \/ QueryLogs(w)
  PROVE  Faithful'
  <1> DEFINE u == worker[w]
  <1>1. /\ chain' = chain /\ tip' = tip /\ lost' = lost /\ logged' = logged
        /\ cursor' = cursor /\ FinalHead' = FinalHead
        /\ u.pc \in Loop \cup Rollback /\ u.pc \notin Rollback
    BY DEF GetBlock, Compare, QueryLogs, network, tables, Rollback, Loop, FinalHead
  <1>2. /\ u \in Workings
        /\ u.b \in lost \/ u.b \in DOMAIN chain
        /\ u.to <= FinalHead /\ \A n \in 1 .. u.b - 1 : Settled(n)
    BY <1>1, AtWork
  <1>3. PICK x : /\ worker' = [worker EXCEPT ![w] = x]
                 /\ x.b = u.b /\ x.to = u.to
                 /\ \/ x.pc \in {"compare", "logs", "dropFills"}
                    \/ /\ x.pc = "insert"
                       /\ u.b \in DOMAIN chain => x.logs = chain[u.b].events
    <2>1. u \in Workings /\ worker \in [Workers -> Workings]
      BY <1>2 DEF Inv, WorkersInv
    <2>2. CASE GetBlock(w)
      <3>1. PICK x : x = [u EXCEPT !.pc = "compare", !.hash = chain[u.b].hash]
        OBVIOUS
      <3>2. worker' = [worker EXCEPT ![w] = x]
        BY <2>1, <2>2, <3>1 DEF GetBlock
      <3>3. x.pc = "compare" /\ x.b = u.b /\ x.to = u.to
        BY <2>1, <3>1 DEF Workings
      <3> QED
        BY <3>2, <3>3
    <2>3. CASE Compare(w)
      <3>1. PICK pc \in {"logs", "dropFills"} : Goes(w, pc)
        BY <2>3 DEF Compare
      <3>2. PICK x : x = [u EXCEPT !.pc = pc]
        OBVIOUS
      <3>3. worker' = [worker EXCEPT ![w] = x]
        BY <2>1, <3>1, <3>2 DEF Goes
      <3>4. x.pc = pc /\ x.b = u.b /\ x.to = u.to
        BY <2>1, <3>2 DEF Workings
      <3> QED
        BY <3>1, <3>3, <3>4
    <2>4. CASE QueryLogs(w)
      <3> DEFINE L == IF u.b \in DOMAIN chain THEN chain[u.b].events ELSE {}
      <3>1. PICK x : x = [u EXCEPT !.pc = "insert", !.logs = L]
        OBVIOUS
      <3>2. worker' = [worker EXCEPT ![w] = x]
        BY <2>1, <2>4, <3>1 DEF QueryLogs
      <3>3. x.pc = "insert" /\ x.b = u.b /\ x.to = u.to /\ x.logs = L
        BY <2>1, <3>1 DEF Workings
      <3> QED
        BY <3>2, <3>3
    <2> QED
      BY <2>2, <2>3, <2>4
  <1>4. Quiet(w, x)
    BY <1>1, <1>3 DEF Quiet
  <1>5. \A n \in 1 .. x.b - 1 : Settled(n)'
    BY <1>2, <1>3, <1>4, QuietSettled
  <1>6. Careful(x)'
    <2>1. x.to <= FinalHead'
      BY <1>1, <1>2, <1>3
    <2>2. CASE x.pc \in {"compare", "logs", "dropFills"}
      BY <1>5, <2>1, <2>2 DEF Careful
    <2>3. CASE x.pc = "insert" /\ (u.b \in DOMAIN chain => x.logs = chain[u.b].events)
      BY <1>1, <1>2, <1>3, <1>5, <2>1, <2>3 DEF Careful
    <2> QED
      BY <1>3, <2>2, <2>3
  <1> QED
    BY <1>1, <1>4, <1>6, QuietStep

\* The block is skipped and its height given up.
LEMMA SkipFaithful ==
  ASSUME Inv, Faithful, NEW w \in Workers, SkipBlock(w)
  PROVE  Faithful'
  <1> DEFINE u == worker[w]
  <1>1. /\ chain' = chain /\ tip' = tip /\ lost' = lost \cup {u.b} /\ logged' = logged
        /\ cursor' = cursor /\ FinalHead' = FinalHead
        /\ u.pc \in Loop \cup Rollback /\ u.pc \notin Rollback
    BY DEF SkipBlock, network, tables, Rollback, Loop, FinalHead
  <1>2. /\ u.b \in Nat /\ u.to <= FinalHead' /\ \A n \in 1 .. u.b - 1 : Settled(n)
    BY <1>1, AtWork
  <1>3. PICK x : x = IF u.b < u.to THEN At("fetch", u.b + 1, u.to) ELSE Indexed(w)
    OBVIOUS
  <1>4. worker' = [worker EXCEPT ![w] = x]
    BY <1>3 DEF SkipBlock, NextBlock, Inv, WorkersInv
  <1>5. Quiet(w, x)
    BY <1>1, <1>4 DEF Quiet
  <1>6. \A n \in 1 .. u.b : Settled(n)'
    <2> SUFFICES ASSUME NEW n \in 1 .. u.b PROVE Settled(n)'
      OBVIOUS
    <2>1. n = u.b \/ n \in 1 .. u.b - 1
      BY <1>2, UpTo
    <2>2. n = u.b => Settled(n)'
      BY <1>1 DEF Settled
    <2> QED
      BY <1>2, <1>5, <2>1, <2>2, QuietSettled
  <1>7. Careful(x)'
    BY <1>1, <1>2, <1>3, <1>6, NextBlockCareful
  <1> QED
    BY <1>1, <1>5, <1>7, QuietStep

\* An event goes from the worker to the tables.
LEMMA InsertFaithful ==
  ASSUME Inv, Faithful, NEW w \in Workers, InsertEvent(w)
  PROVE  Faithful'
  <1> DEFINE u == worker[w]
  <1>1. /\ chain' = chain /\ tip' = tip /\ lost' = lost /\ u.pc = "insert"
        /\ cursor' = cursor /\ FinalHead' = FinalHead
        /\ u.pc \in Loop \cup Rollback /\ u.pc \notin Rollback
    BY DEF InsertEvent, network, Rollback, Loop, FinalHead
  <1>2. /\ u \in Workings /\ u.b <= FinalHead
        /\ u.to <= FinalHead /\ \A n \in 1 .. u.b - 1 : Settled(n)
    BY <1>1, AtWork
  <1>3. PICK e \in u.logs : /\ logged' = logged \cup {<<u.b, e>>}
                            /\ worker' = [worker EXCEPT ![w].logs = @ \ {e}]
    BY DEF InsertEvent
  <1>4. PICK x : x = [u EXCEPT !.logs = u.logs \ {e}]
    OBVIOUS
  <1>5. worker' = [worker EXCEPT ![w] = x]
    BY <1>3, <1>4 DEF Inv, WorkersInv
  <1>6. x.pc = u.pc /\ x.b = u.b /\ x.to = u.to /\ x.logs = u.logs \ {e}
    BY <1>2, <1>4 DEF Workings
  <1>7. u.b \notin lost =>
          /\ u.logs \subseteq chain[u.b].events
          /\ \A d \in chain[u.b].events : d \in u.logs \/ <<u.b, d>> \in logged
    BY <1>1 DEF Faithful, Careful
  <1>8. Quiet(w, x)
    BY <1>1, <1>3, <1>5 DEF Quiet
  <1>9. \A n \in 1 .. x.b - 1 : Settled(n)'
    BY <1>2, <1>6, <1>8, QuietSettled
  <1>10. Careful(x)'
    <2>1. x.to <= FinalHead'
      BY <1>1, <1>2, <1>6
    <2>2. x.b \notin lost' =>
            /\ x.logs \subseteq chain'[x.b].events
            /\ \A d \in chain'[x.b].events : d \in x.logs \/ <<x.b, d>> \in logged'
      BY <1>1, <1>3, <1>6, <1>7
    <2> QED
      BY <1>1, <1>6, <1>9, <2>1, <2>2 DEF Careful
  <1>11. \A r \in logged' : \/ r \in logged
                            \/ /\ r[1] <= FinalHead
                               /\ r[1] \in lost' \/ r[2] \in chain[r[1]].events
    <2> SUFFICES ASSUME NEW r \in logged', r \notin logged
                 PROVE  /\ r[1] <= FinalHead
                        /\ r[1] \in lost' \/ r[2] \in chain[r[1]].events
      OBVIOUS
    <2>1. r = <<u.b, e>>
      BY <1>3
    <2> QED
      BY <1>1, <1>2, <1>3, <1>7, <2>1
  <1> QED
    BY <1>1, <1>8, <1>10, <1>11, QuietStep

\* The cursor follows when the logs are in.
LEMMA SetCursorFaithful ==
  ASSUME Inv, Faithful, NEW w \in Workers, SetCursor(w)
  PROVE  Faithful'
  <1> DEFINE u == worker[w]
  <1>1. /\ chain' = chain /\ tip' = tip /\ lost' = lost /\ logged' = logged
        /\ u.pc = "insert" /\ u.logs = {} /\ cursor' = u.b /\ FinalHead' = FinalHead
        /\ u.pc \in Loop \cup Rollback /\ u.pc \notin Rollback
    BY DEF SetCursor, network, Rollback, Loop, FinalHead
  <1>2. /\ u \in Workings /\ u.b <= FinalHead /\ u.b \in Nat
        /\ u.b \in lost \/ u.b \in DOMAIN chain
        /\ u.to <= FinalHead /\ \A n \in 1 .. u.b - 1 : Settled(n)
    BY <1>1, AtWork
  <1>3. PICK x : x = [u EXCEPT !.pc = "setBlock"]
    OBVIOUS
  <1>4. worker' = [worker EXCEPT ![w] = x]
    BY <1>3 DEF SetCursor, Goes, Inv, WorkersInv
  <1>5. x.pc = "setBlock" /\ x.b = u.b /\ x.to = u.to /\ x.logs = u.logs
    BY <1>2, <1>3 DEF Workings
  <1>6. u.b \notin lost => \A d \in chain[u.b].events : <<u.b, d>> \in logged
    BY <1>1 DEF Faithful, Careful
  <1>7. Quiet(w, x)
    BY <1>1, <1>4 DEF Quiet
  <1>8. \A n \in 1 .. u.b : Settled(n)'
    <2>1. Settled(u.b)
      BY <1>2, <1>6 DEF Settled, Complete
    <2>2. \A n \in 1 .. u.b : n = u.b \/ n \in 1 .. u.b - 1
      BY <1>2, UpTo
    <2> QED
      BY <1>2, <1>7, <2>1, <2>2, QuietSettled
  <1>9. Careful(x)'
    <2>1. x.to <= FinalHead' /\ \A n \in 1 .. x.b - 1 : Settled(n)'
      BY <1>1, <1>2, <1>5, <1>8
    <2>2. x.b \notin lost' =>
            /\ x.logs \subseteq chain'[x.b].events
            /\ \A d \in chain'[x.b].events : d \in x.logs \/ <<x.b, d>> \in logged'
      BY <1>1, <1>5, <1>6
    <2> QED
      BY <1>1, <1>5, <2>1, <2>2 DEF Careful
  <1> QED
    BY <1>1, <1>2, <1>7, <1>8, <1>9, QuietStep

\* The height is behind the worker.
LEMMA SetBlockFaithful ==
  ASSUME Inv, Faithful, NEW w \in Workers, SetBlock(w)
  PROVE  Faithful'
  <1> DEFINE u == worker[w]
  <1>1. /\ chain' = chain /\ tip' = tip /\ lost' = lost /\ logged' = logged
        /\ u.pc = "setBlock" /\ cursor' = cursor /\ FinalHead' = FinalHead
        /\ u.pc \in Loop \cup Rollback /\ u.pc \notin Rollback
    BY DEF SetBlock, network, Rollback, Loop, FinalHead
  <1>2. /\ u.b \in Nat
        /\ u.b \in lost \/ u.b \in DOMAIN chain
        /\ u.to <= FinalHead' /\ \A n \in 1 .. u.b - 1 : Settled(n)
    BY <1>1, AtWork
  <1>3. PICK x : x = IF u.b < u.to THEN At("fetch", u.b + 1, u.to) ELSE Indexed(w)
    OBVIOUS
  <1>4. worker' = [worker EXCEPT ![w] = x]
    BY <1>3 DEF SetBlock, NextBlock, Inv, WorkersInv
  <1>5. Quiet(w, x)
    BY <1>1, <1>4 DEF Quiet
  <1>6. \A n \in 1 .. u.b : Settled(n)'
    <2>1. u.b \notin lost => \A d \in chain[u.b].events : <<u.b, d>> \in logged
      BY <1>1 DEF Faithful, Careful
    <2>2. Settled(u.b)
      BY <1>2, <2>1 DEF Settled, Complete
    <2>3. \A n \in 1 .. u.b : n = u.b \/ n \in 1 .. u.b - 1
      BY <1>2, UpTo
    <2> QED
      BY <1>2, <1>5, <2>2, <2>3, QuietSettled
  <1>7. Careful(x)'
    BY <1>1, <1>2, <1>3, <1>6, NextBlockCareful
  <1> QED
    BY <1>1, <1>5, <1>7, QuietStep

\* Deletions of a rollback: what they may have deleted is rolled back, or was
\* overtaken and is given up.
LEMMA DropFaithful ==
  ASSUME Inv, Faithful, NEW w \in Workers, DropFills(w) \/ DropCancels(w)
  PROVE  Faithful'
  <1> DEFINE u == worker[w]
  <1>1. /\ chain' = chain /\ tip' = tip /\ lost' = lost \cup Overtaken(w, Loop)
        /\ cursor' = cursor /\ FinalHead' = FinalHead
        /\ u.pc \in Loop \cup Rollback /\ u.pc \in Rollback
        /\ logged' \subseteq logged
        /\ \A n, e : <<n, e>> \in logged /\ ~ (n >= u.b) => <<n, e>> \in logged'
    BY DEF DropFills, DropCancels, network, Rollback, Loop, FinalHead, Above
  <1>2. /\ u \in Workings /\ u.b \in Heights
        /\ u.to <= FinalHead /\ \A n \in 1 .. u.b - 1 : Settled(n)
    BY <1>1, AtWork
  <1>3. PICK pc \in {"dropCancels", "dropBlocks"} : Goes(w, pc)
    BY DEF DropFills, DropCancels
  <1>4. PICK x : x = [u EXCEPT !.pc = pc]
    OBVIOUS
  <1>5. worker' = [worker EXCEPT ![w] = x]
    BY <1>3, <1>4 DEF Goes, Inv, WorkersInv
  <1>6. x.pc = pc /\ x.b = u.b /\ x.to = u.to /\ pc \in Rollback
    BY <1>2, <1>3, <1>4 DEF Workings, Rollback
  <1>7. \A n : Spares(w, x, n)
    BY <1>1, <1>6 DEF Spares
  <1>8. \A n : Settled(n) => Settled(n)'
    BY <1>1, <1>5, <1>7, SettledSpared
  <1>9. Careful(x)'
    <2>1. x.to <= FinalHead' /\ \A n \in 1 .. x.b - 1 : Settled(n)'
      BY <1>1, <1>2, <1>6, <1>8
    <2> QED
      BY <1>3, <1>6, <2>1 DEF Careful
  <1>10. ASSUME NEW v \in Workers \ {w}, worker[v].pc \in Loop, worker[v].b \notin lost',
                NEW e, <<worker[v].b, e>> \in logged
         PROVE  <<worker[v].b, e>> \in logged'
    <2>1. worker[v].b \in Heights
      BY <1>10, AtWork
    <2>2. ~ (worker[v].b >= u.b)
      <3> SUFFICES ASSUME worker[v].b >= u.b PROVE FALSE
        OBVIOUS
      <3>1. worker[v].b \in u.b .. worker[v].b
        BY <1>2, <2>1 DEF Heights
      <3>2. worker[v].b \in Overtaken(w, Loop)
        BY <1>10, <2>1, <3>1 DEF Overtaken
      <3> QED
        BY <1>1, <1>10, <3>2
    <2> QED
      BY <1>1, <1>10, <2>2
  <1>11. Honours(w, x)
    <2>1. /\ cursor' # 0 => cursor' <= FinalHead
          /\ \A n \in 1 .. cursor' : Settled(n)'
      BY <1>1, <1>8 DEF Faithful, Recorded
    <2> QED
      BY <1>1, <1>7, <1>9, <1>10, <2>1 DEF Honours
  <1> QED
    BY <1>5, <1>11, WorkerHonours

\* The deletion of the recorded hashes touches no row.
LEMMA DropBlocksFaithful ==
  ASSUME Inv, Faithful, NEW w \in Workers, DropBlocks(w)
  PROVE  Faithful'
  <1> DEFINE u == worker[w]
  <1>1. /\ chain' = chain /\ tip' = tip /\ lost' = lost /\ logged' = logged
        /\ cursor' = cursor /\ FinalHead' = FinalHead
        /\ u.pc \in Loop \cup Rollback
    BY DEF DropBlocks, network, Rollback, Loop, FinalHead
  <1>2. u \in Workings /\ u.to <= FinalHead /\ \A n \in 1 .. u.b - 1 : Settled(n)
    BY <1>1, AtWork
  <1>3. PICK x : x = [u EXCEPT !.pc = "resetCursor"]
    OBVIOUS
  <1>4. worker' = [worker EXCEPT ![w] = x]
    BY <1>3 DEF DropBlocks, Goes, Inv, WorkersInv
  <1>5. x.pc = "resetCursor" /\ x.b = u.b /\ x.to = u.to
    BY <1>2, <1>3 DEF Workings
  <1>6. Quiet(w, x)
    BY <1>1, <1>4, <1>5 DEF Quiet, Rollback
  <1>7. Careful(x)'
    <2>1. x.to <= FinalHead' /\ \A n \in 1 .. x.b - 1 : Settled(n)'
      BY <1>1, <1>2, <1>5, <1>6, QuietSettled
    <2> QED
      BY <1>5, <2>1 DEF Careful
  <1> QED
    BY <1>1, <1>6, <1>7, QuietStep

\* The end of a rollback, whether it ended or was broken off: what it deleted
\* above the heights below it is given up as far as a worker or the cursor is
\* past it.
LEMMA EndFaithful ==
  ASSUME Inv, Faithful, NEW w \in Workers, worker[w].pc \in Rollback, NEW x,
         worker' = [worker EXCEPT ![w] = x], UNCHANGED <<chain, tip, logged>>,
         lost \cup Abandoned(w) \subseteq lost', Careful(x)',
         cursor' # 0 => cursor' <= FinalHead,
         \A n \in 1 .. cursor' : n \in lost' \/ (Settled(n) /\ ~ (n >= worker[w].b))
  PROVE  Faithful'
  <1> DEFINE u == worker[w]
  <1>1. u.b \in Heights
    BY AtWork
  <1>2. ASSUME NEW n, ~ (n >= u.b) PROVE Spares(w, x, n)
    BY <1>2 DEF Spares
  <1>3. \A n \in 1 .. cursor' : Settled(n)'
    <2> SUFFICES ASSUME NEW n \in 1 .. cursor' PROVE Settled(n)'
      OBVIOUS
    <2>1. CASE n \in lost'
      BY <2>1 DEF Settled
    <2>2. CASE Settled(n) /\ ~ (n >= u.b)
      BY <1>2, <2>2, SettledSpared
    <2> QED
      BY <2>1, <2>2
  <1>4. ASSUME NEW v \in Workers \ {w}, worker[v].pc \in Loop \cup Rollback,
               NEW n \in 1 .. worker[v].b - 1
        PROVE  Spares(w, x, n)
    <2>1. worker[v].b \in Heights
      BY <1>4, AtWork
    <2>2. CASE ~ (n >= u.b)
      BY <1>2, <2>2
    <2>3. CASE n >= u.b
      <3>1. n \in u.b .. worker[v].b /\ n \in Heights
        BY <1>1, <2>1, <2>3 DEF Heights
      <3>2. n \in Abandoned(w)
        BY <1>4, <3>1 DEF Abandoned, Overtaken
      <3> QED
        BY <3>2 DEF Spares
    <2> QED
      BY <2>2, <2>3
  <1>5. Honours(w, x)
    BY <1>3, <1>4 DEF Honours
  <1> QED
    BY <1>5, WorkerHonours

\* A rollback that ends resets the cursor to just below where it began.
LEMMA ResetFaithful ==
  ASSUME Inv, Faithful, NEW w \in Workers, ResetCursor(w)
  PROVE  Faithful'
  <1> DEFINE u == worker[w]
  <1>1. /\ chain' = chain /\ tip' = tip /\ logged' = logged
        /\ lost' = lost \cup {u.b} \cup Abandoned(w)
        /\ cursor' = u.b - 1 /\ FinalHead' = FinalHead
        /\ u.pc \in Loop \cup Rollback /\ u.pc \in Rollback
    BY DEF ResetCursor, network, Rollback, Loop, FinalHead
  <1>2. /\ u.b \in Nat /\ u.b \in Heights /\ u.b <= FinalHead
        /\ u.to <= FinalHead' /\ \A n \in 1 .. u.b - 1 : Settled(n)
    BY <1>1, AtWork
  <1>3. PICK x : x = IF u.b < u.to THEN At("fetch", u.b + 1, u.to) ELSE Indexed(w)
    OBVIOUS
  <1>4. worker' = [worker EXCEPT ![w] = x]
    BY <1>3 DEF ResetCursor, NextBlock, Inv, WorkersInv
  <1>5. \A n \in 1 .. u.b : Settled(n)'
    <2> SUFFICES ASSUME NEW n \in 1 .. u.b PROVE Settled(n)'
      OBVIOUS
    <2>1. n = u.b \/ n \in 1 .. u.b - 1
      BY <1>2, UpTo
    <2>2. n = u.b => Settled(n)'
      BY <1>1 DEF Settled
    <2>3. ASSUME n \in 1 .. u.b - 1 PROVE Settled(n)'
      <3>1. Settled(n) /\ ~ (n >= u.b)
        BY <1>2, <2>3
      <3>2. Spares(w, x, n)
        BY <1>1, <3>1 DEF Spares
      <3> QED
        BY <1>1, <1>4, <3>1, <3>2, SettledSpared
    <2> QED
      BY <2>1, <2>2, <2>3
  <1>6. Careful(x)'
    BY <1>1, <1>2, <1>3, <1>5, NextBlockCareful
  <1>7. cursor' <= FinalHead
    BY <1>1, <1>2 DEF FinalHead, Faithful, Lasting
  <1>8. \A n \in 1 .. cursor' : Settled(n) /\ ~ (n >= u.b)
    BY <1>1, <1>2
  <1> QED
    BY <1>1, <1>4, <1>6, <1>7, <1>8, EndFaithful

\* A worker that dies.
LEMMA CrashFaithful ==
  ASSUME Inv, Faithful, NEW w \in Workers, Crash(w)
  PROVE  Faithful'
  <1> DEFINE u == worker[w]
  <1>1. /\ chain' = chain /\ tip' = tip /\ logged' = logged /\ cursor' = cursor
        /\ worker' = [worker EXCEPT ![w] = Idle] /\ Careful(Idle)'
    BY IndexedCareful DEF Crash, network, tables
  <1>2. CASE u.pc \in Rollback
    <2>1. lost' = lost \cup {n \in Heights : n \in u.b .. cursor} \cup Abandoned(w)
      BY <1>2 DEF Crash
    <2>2. u.b \in Heights /\ cursor \in Nat /\ tip \in Nat /\ tip <= MaxHeight
      BY <1>2, AtWork DEF Inv, TablesInv, Faithful, Lasting
    <2>3. /\ cursor # 0 => cursor <= FinalHead
          /\ \A n \in 1 .. cursor : Settled(n)
      BY DEF Faithful, Recorded
    <2>4. ASSUME NEW n \in 1 .. cursor, n >= u.b PROVE n \in lost'
      <3>1. n \in u.b .. cursor /\ n \in Heights
        BY <2>2, <2>3, <2>4 DEF Heights, FinalHead
      <3> QED
        BY <2>1, <3>1
    <2>5. lost \cup Abandoned(w) \subseteq lost'
      BY <2>1
    <2> QED
      BY <1>1, <1>2, <2>3, <2>4, <2>5, EndFaithful
  <1>3. CASE u.pc \notin Rollback
    <2>1. lost' = lost
      BY <1>3 DEF Crash
    <2>2. Quiet(w, Idle)
      BY <1>1, <1>3, <2>1 DEF Quiet
    <2> QED
      BY <1>1, <2>2, QuietStep
  <1> QED
    BY <1>2, <1>3

\* Steps of the reconciler, which neither loop nor roll back.
LEMMA ReconcileFaithful ==
  ASSUME Inv, Faithful, NEW w \in Workers,
         SelectCancels(w) \/ CancelInBook(w) \/ MarkApplied(w)
  PROVE  Faithful'
  <1> DEFINE u == worker[w]
  <1>1. /\ chain' = chain /\ tip' = tip /\ lost' = lost /\ logged' = logged
        /\ cursor' = cursor /\ u.pc \notin Rollback
    BY DEF SelectCancels, CancelInBook, MarkApplied, network, tables, Rollback
  <1>2. u \in Workings /\ worker \in [Workers -> Workings]
    BY DEF Inv, WorkersInv
  <1>3. \A r : Rest(w, r).pc \in {"idle", "cancel"}
    <2> SUFFICES ASSUME NEW r PROVE Rest(w, r).pc \in {"idle", "cancel"}
      OBVIOUS
    <2>1. Idle.pc = "idle" /\ [u EXCEPT !.pc = "cancel", !.todo = @ \ {r}].pc = "cancel"
      BY <1>2 DEF Idle, At, Workings
    <2> QED
      BY <2>1 DEF Rest
  <1>4. PICK x : /\ worker' = [worker EXCEPT ![w] = x]
                 /\ x.pc \in {"idle", "cancel", "mark"}
    <2>1. CASE SelectCancels(w)
      <3>1. PICK x : x = [u EXCEPT !.todo = Pending,
                                   !.pc = IF Pending = {} THEN "idle" ELSE "cancel"]
        OBVIOUS
      <3>2. worker' = [worker EXCEPT ![w] = x]
        BY <1>2, <2>1, <3>1 DEF SelectCancels
      <3>3. x.pc \in {"idle", "cancel"}
        BY <1>2, <3>1 DEF Workings
      <3> QED
        BY <3>2, <3>3
    <2>2. CASE CancelInBook(w)
      <3>1. PICK r : worker' = [worker EXCEPT ![w] =
                       IF r[2] \in Posted THEN [@ EXCEPT !.pc = "mark", !.b = r[1],
                                                         !.logs = {r[2]}]
                                          ELSE Rest(w, r)]
        BY <2>2 DEF CancelInBook
      <3>2. PICK y : y = [u EXCEPT !.pc = "mark", !.b = r[1], !.logs = {r[2]}]
        OBVIOUS
      <3>3. PICK x : x = IF r[2] \in Posted THEN y ELSE Rest(w, r)
        OBVIOUS
      <3>4. worker' = [worker EXCEPT ![w] = x]
        BY <1>2, <3>1, <3>2, <3>3
      <3>5. y.pc = "mark"
        BY <1>2, <3>2 DEF Workings
      <3>6. x.pc \in {"idle", "cancel", "mark"}
        BY <1>3, <3>3, <3>5
      <3> QED
        BY <3>4, <3>6
    <2>3. CASE MarkApplied(w)
      <3>1. PICK r : worker' = [worker EXCEPT ![w] = Rest(w, r)]
        BY <2>3 DEF MarkApplied
      <3>2. PICK x : x = Rest(w, r)
        OBVIOUS
      <3> QED
        BY <1>3, <3>1, <3>2
    <2> QED
      BY <2>1, <2>2, <2>3
  <1>5. Careful(x)'
    BY <1>4, RestingCareful DEF Loop, Rollback
  <1>6. Quiet(w, x)
    BY <1>1, <1>4 DEF Quiet
  <1> QED
    BY <1>1, <1>5, <1>6, QuietStep

\* A change of the chain that keeps the blocks of the heights that are neither
\* new nor given up.
LEMMA ChainFaithful ==
  ASSUME Inv, Faithful, Lasting', UNCHANGED <<worker, logged, cursor>>,
         lost \subseteq lost', FinalHead <= FinalHead',
         \A n \in 1 .. FinalHead : n \in DOMAIN chain =>
           n \in lost' \/ (n \in DOMAIN chain' /\ chain'[n] = chain[n])
  PROVE  Faithful'
  <1>0. /\ FinalHead \in Int /\ FinalHead' \in Int
        /\ \A n \in 1 .. FinalHead : n \in lost \/ n \in DOMAIN chain
    BY DEF Faithful, Lasting, FinalHead
  <1>1. ASSUME NEW n \in 1 .. FinalHead, Settled(n) PROVE Settled(n)'
    <2>1. RollingBack(n) => RollingBack(n)'
      BY DEF RollingBack
    <2>2. Complete(n) => n \in lost' \/ Complete(n)'
      BY DEF Complete
    <2> QED
      BY <1>1, <2>1, <2>2 DEF Settled
  <1>2. Recorded'
    <2>1. ASSUME NEW r \in logged
          PROVE  r[1] <= FinalHead' /\ (r[1] \in lost' \/ r[2] \in chain'[r[1]].events)
      <3>1. r[1] \in Heights /\ r[1] <= FinalHead
        BY DEF Inv, TablesInv, Rows, Faithful, Recorded
      <3>2. r[1] \in 1 .. FinalHead
        BY <1>0, <3>1 DEF Heights
      <3> QED
        BY <1>0, <3>1, <3>2 DEF Faithful, Recorded, Heights
    <2>2. cursor \in Nat /\ (cursor # 0 => cursor <= FinalHead)
      BY DEF Inv, TablesInv, Faithful, Recorded
    <2>3. ASSUME NEW n \in 1 .. cursor PROVE Settled(n)'
      <3>1. n \in 1 .. FinalHead /\ Settled(n)
        BY <1>0, <2>2 DEF Faithful, Recorded
      <3> QED
        BY <1>1, <3>1
    <2>4. cursor # 0 => cursor <= FinalHead'
      BY <1>0, <2>2
    <2> QED
      BY <2>1, <2>3, <2>4 DEF Recorded
  <1>3. ASSUME NEW w \in Workers PROVE Careful(worker[w])'
    <2> DEFINE u == worker[w]
    <2>1. Careful(u) /\ u \in Workings /\ Sane(u) /\ worker'[w] = u
      BY DEF Faithful, Inv, WorkersInv
    <2>2. ASSUME u.pc \in {"cursor"} \cup Loop \cup Rollback PROVE u.to <= FinalHead'
      BY <1>0, <2>1, <2>2 DEF Careful, Workings
    <2>3. ASSUME u.pc \in Loop \cup Rollback
          PROVE  /\ u.b \in 1 .. FinalHead
                 /\ \A n \in 1 .. u.b - 1 : Settled(n)'
      <3>1. u.b \in Nat /\ u.b \in Heights /\ u.b <= FinalHead
        BY <2>3, AtWork
      <3>2. u.b \in 1 .. FinalHead /\ \A n \in 1 .. u.b - 1 : n \in 1 .. FinalHead
        BY <1>0, <3>1 DEF Heights
      <3> QED
        BY <1>1, <2>1, <2>3, <3>2 DEF Careful
    <2>4. ASSUME u.pc \in {"insert", "setBlock"}, u.b \notin lost'
          PROVE  /\ u.logs \subseteq chain'[u.b].events
                 /\ \A e \in chain'[u.b].events : e \in u.logs \/ <<u.b, e>> \in logged
      <3>1. u.pc \in Loop \cup Rollback
        BY <2>4 DEF Loop
      <3>2. chain'[u.b] = chain[u.b]
        BY <1>0, <2>3, <2>4, <3>1
      <3> QED
        BY <2>1, <2>4, <3>2 DEF Careful
    <2>5. u.pc = "setBlock" => u.logs = {}
      BY <2>1 DEF Careful
    <2> HIDE DEF u
    <2> QED
      BY <2>1, <2>2, <2>3, <2>4, <2>5 DEF Careful
  <1> QED
    BY <1>2, <1>3 DEF Faithful

\* A new block leaves the others where they are.
LEMMA MineFaithful == ASSUME Inv, Faithful, Mine PROVE Faithful'
  <1>1. PICK B : chain' = Append(chain, B)
    BY DEF Mine
  <1>2. /\ chain \in Seq(Blocks) /\ Len(chain) \in Nat /\ Len(chain) < MaxHeight
        /\ tip' = IF Len(chain) = tip THEN tip + 1 ELSE tip
        /\ UNCHANGED <<worker, logged, cursor, lost>>
    BY DEF Mine, tables, Inv, TablesInv
  <1>3. /\ Len(chain') = Len(chain) + 1
        /\ DOMAIN chain = 1 .. Len(chain) /\ DOMAIN chain' = 1 .. Len(chain) + 1
        /\ \A n \in 1 .. Len(chain) : chain'[n] = chain[n]
    BY <1>1, <1>2
  <1>4. /\ tip \in Nat /\ Len(chain) <= tip /\ tip <= MaxHeight
        /\ \A n \in 1 .. FinalHead : n \in lost \/ n \in DOMAIN chain
    BY DEF Faithful, Lasting
  <1>5. /\ tip' \in Nat /\ Len(chain') <= tip' /\ tip' <= MaxHeight
        /\ FinalHead <= FinalHead'
    <2>1. /\ tip \in Nat /\ Len(chain) <= tip /\ tip <= MaxHeight
          /\ Len(chain') = Len(chain) + 1
      BY <1>3, <1>4
    <2>2. /\ tip' \in Nat /\ Len(chain') <= tip' /\ tip' <= MaxHeight /\ tip <= tip'
      <3>1. CASE Len(chain) = tip
        <4>1. tip' = tip + 1
          BY <1>2, <3>1
        <4> QED
          BY <1>2, <2>1, <3>1, <4>1
      <3>2. CASE Len(chain) # tip
        <4>1. tip' = tip
          BY <1>2, <3>2
        <4> QED
          BY <1>2, <2>1, <3>2, <4>1
      <3> QED
        BY <3>1, <3>2
    <2>3. FinalHead = tip - Finality /\ FinalHead' = tip' - Finality
      BY DEF FinalHead
    <2>4. FinalHead <= FinalHead'
      <3>1. \A s, t, f \in Int : s <= t => s - f <= t - f
        OBVIOUS
      <3>2. tip \in Int /\ tip' \in Int /\ Finality \in Int
        BY <2>1, <2>2
      <3> QED
        BY <2>2, <2>3, <3>1, <3>2
    <2> QED
      BY <2>2, <2>4
  <1>6. \A n \in 1 .. FinalHead' : n \in lost' \/ n \in DOMAIN chain'
    <2>1. CASE tip' = tip
      <3>1. FinalHead' = FinalHead
        BY <2>1 DEF FinalHead
      <3>2. 1 .. Len(chain) \subseteq 1 .. Len(chain) + 1
        BY <1>2
      <3> QED
        BY <1>2, <1>3, <1>4, <3>1, <3>2
    <2>2. CASE tip' # tip
      <3>1. FinalHead' <= Len(chain) + 1
        BY <1>2, <1>4, <2>2 DEF FinalHead
      <3>2. FinalHead' \in Int
        BY <1>5 DEF FinalHead
      <3>3. 1 .. FinalHead' \subseteq 1 .. Len(chain) + 1
        BY <1>2, <3>1, <3>2
      <3> QED
        BY <1>3, <3>3
    <2> QED
      BY <2>1, <2>2
  <1>7. Lasting'
    BY <1>5, <1>6 DEF Lasting
  <1>8. \A n \in 1 .. FinalHead : n \in DOMAIN chain =>
          n \in lost' \/ (n \in DOMAIN chain' /\ chain'[n] = chain[n])
    BY <1>2, <1>3
  <1> QED
    BY <1>2, <1>5, <1>7, <1>8, ChainFaithful

\* A reorganisation gives up the final heights it rewrites.
LEMMA ReorgFaithful == ASSUME Inv, Faithful, Reorg PROVE Faithful'
  <1>1. PICK n \in 0 .. Len(chain) - 1 :
          /\ chain' = SubSeq(chain, 1, n)
          /\ lost' = lost \cup {k \in n + 1 .. tip - Finality : k \in Heights}
    BY DEF Reorg
  <1>2. /\ chain \in Seq(Blocks) /\ Len(chain) \in Nat /\ n \in Nat /\ n <= Len(chain)
        /\ tip' = tip /\ UNCHANGED <<worker, logged, cursor>>
    BY DEF Reorg, tables, Inv, TablesInv
  <1>3. /\ Len(chain') = n /\ DOMAIN chain = 1 .. Len(chain) /\ DOMAIN chain' = 1 .. n
        /\ \A k \in 1 .. n : chain'[k] = chain[k]
    <2>1. \A k \in 1 .. n : chain[k] \in Blocks
      BY <1>2
    <2>2. /\ SubSeq(chain, 1, n) \in Seq(Blocks)
          /\ Len(SubSeq(chain, 1, n)) = IF 1 <= n THEN n - 1 + 1 ELSE 0
          /\ \A k \in 1 .. n - 1 + 1 : SubSeq(chain, 1, n)[k] = chain[1 + k - 1]
      BY <1>2, <2>1, SubSeqProperties
    <2>3. Len(chain') = n
      BY <1>1, <1>2, <2>2
    <2>4. \A k \in 1 .. n : k \in 1 .. n - 1 + 1 /\ 1 + k - 1 = k
      BY <1>2
    <2>5. \A k \in 1 .. n : chain'[k] = chain[k]
      BY <1>1, <2>2, <2>4
    <2> QED
      BY <1>1, <1>2, <2>2, <2>3, <2>5
  <1>4. /\ tip \in Nat /\ Len(chain) <= tip /\ tip <= MaxHeight
        /\ \A k \in 1 .. FinalHead : k \in lost \/ k \in DOMAIN chain
        /\ FinalHead' = FinalHead /\ FinalHead \in Int
    BY <1>2 DEF Faithful, Lasting, FinalHead
  <1>5. ASSUME NEW k \in 1 .. FinalHead, ~ (k <= n) PROVE k \in lost'
    <2>1. k \in Heights /\ k \in n + 1 .. tip - Finality
      BY <1>2, <1>4, <1>5 DEF Heights, FinalHead
    <2> QED
      BY <1>1, <2>1
  <1>6. ASSUME NEW k \in 1 .. FinalHead, k <= n
        PROVE  k \in DOMAIN chain' /\ chain'[k] = chain[k]
    <2>1. k \in 1 .. n
      BY <1>2, <1>6
    <2> QED
      BY <1>3, <2>1
  <1>7. Lasting'
    <2>1. Len(chain') <= tip'
      BY <1>2, <1>3, <1>4
    <2>2. \A k \in 1 .. FinalHead' : k \in lost' \/ k \in DOMAIN chain'
      BY <1>4, <1>5, <1>6
    <2> QED
      BY <1>2, <1>4, <2>1, <2>2 DEF Lasting
  <1>8. lost \subseteq lost' /\ FinalHead <= FinalHead'
    BY <1>1, <1>4
  <1> QED
    BY <1>2, <1>5, <1>6, <1>7, <1>8, ChainFaithful

\* No step breaks the invariant.
LEMMA FaithfulStep == Inv /\ Faithful /\ [Next]_vars => Faithful'
  <1> SUFFICES ASSUME Inv, Faithful, [Next]_vars PROVE Faithful'
    OBVIOUS
  <1>1. CASE Post \/ UNCHANGED vars
    <2>1. UNCHANGED <<chain, tip, logged, cursor, worker, lost>>
      BY <1>1 DEF Post, vars, network, tables
    <2>2. UNCHANGED <<Lasting, Recorded>> /\ \A w \in Workers : Careful(worker[w])'
      BY <2>1 DEF Faithful, Lasting, Recorded, Careful, FinalHead, Settled, RollingBack,
                  Complete
    <2> QED
      BY <2>2 DEF Faithful
  <1>2. CASE Mine \/ Reorg
    BY <1>2, MineFaithful, ReorgFaithful
  <1>3. ASSUME NEW w \in Workers, Crash(w) PROVE Faithful'
    BY <1>3, CrashFaithful
  <1>4. ASSUME NEW w \in Workers, Work(w) PROVE Faithful'
    <2>1. CASE \/ ReadHead(w) \/ ReadCursor(w) \/ GetBlock(w) \/ SkipBlock(w)
               \/ Compare(w) \/ QueryLogs(w)
      BY <2>1, ReadFaithful, LoopFaithful, SkipFaithful
    <2>2. CASE InsertEvent(w) \/ SetCursor(w) \/ SetBlock(w)
      BY <2>2, InsertFaithful, SetCursorFaithful, SetBlockFaithful
    <2>3. CASE DropFills(w) \/ DropCancels(w) \/ DropBlocks(w) \/ ResetCursor(w)
      BY <2>3, DropFaithful, DropBlocksFaithful, ResetFaithful
    <2>4. CASE SelectCancels(w) \/ CancelInBook(w) \/ MarkApplied(w)
      BY <2>4, ReconcileFaithful
    <2> QED
      BY <1>4, <2>1, <2>2, <2>3, <2>4 DEF Work
  <1> QED
    BY <1>1, <1>2, <1>3, <1>4 DEF Next

\* The invariant on the tables and the chain holds throughout.
THEOREM TablesFaithful == Spec => []Faithful
  <1>1. Init => Faithful
    <2> SUFFICES ASSUME Init PROVE Faithful
      OBVIOUS
    <2>1. Lasting
      <3>1. /\ chain = <<>> /\ tip = 0
        BY DEF Init
      <3>2. ASSUME NEW n \in 1 .. FinalHead PROVE FALSE
        BY <3>1 DEF FinalHead
      <3> QED
        BY <3>1, <3>2 DEF Lasting
    <2>2. Recorded
      BY DEF Init, Recorded
    <2>3. \A w \in Workers : Careful(worker[w])
      BY DEF Init, Careful, Idle, At, Loop, Rollback
    <2> QED
      BY <2>1, <2>2, <2>3 DEF Faithful
  <1> QED
    BY <1>1, FaithfulStep, Invariant, PTL DEF Spec

\* What the cursor has passed is in the tables, wherever a worker dies and
\* however many of them overlap, but for the heights that were given up.
THEOREM NothingIsMissed == Spec => []NothingMissed
  <1>1. Faithful => NothingMissed
    BY DEF Faithful, Recorded, Settled, Complete, NothingMissed
  <1> QED
    BY <1>1, TablesFaithful, PTL

\* The tables hold only events of the canonical chain, but for those heights.
THEOREM NothingIsInvented == Spec => []NothingInvented
  <1>1. Inv /\ Faithful => NothingInvented
    <2> SUFFICES ASSUME Inv, Faithful, NEW r \in logged, r[1] \notin lost
                 PROVE  r[1] \in DOMAIN chain /\ r[2] \in chain[r[1]].events
      BY DEF NothingInvented
    <2>1. r[1] \in Heights /\ r[1] <= FinalHead /\ tip \in Nat
      BY DEF Inv, TablesInv, Rows, Faithful, Recorded, Lasting
    <2>2. r[1] \in 1 .. FinalHead
      BY <2>1 DEF Heights, FinalHead
    <2> QED
      BY <2>2 DEF Faithful, Recorded, Lasting
  <1> QED
    BY <1>1, TablesFaithful, Invariant, PTL
=============================================================================
