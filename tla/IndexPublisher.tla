---------------------------- MODULE IndexPublisher ----------------------------
(***************************************************************************)
(* The index publisher (index-publisher/worker.js): a cycle reads a price  *)
(* off the matcher's book, clamps it against the last price it logged,     *)
(* logs it and then sends it to the factory, which sets the index price    *)
(* the funding of the market follows.  Cycles are started by a clock or by *)
(* hand; a dry run logs like any other cycle and sends nothing.            *)
(***************************************************************************)
EXTENDS OrderBook

CONSTANTS Publishers,     \* processes that run cycles
          DryRuns,        \* those started with DRY_RUN
          Precision,      \* the price 1
          MaxDeltaBps, Bps,
          MaxBookOps, MaxFaults, MaxKills

ASSUME PublisherAssumption ==
  /\ DryRuns \subseteq Publishers
  /\ Precision \in Nat
  /\ MaxDeltaBps \in Nat /\ Bps \in Nat \ {0}
  /\ \A o \in Orders : o.price \in Nat

NoPrice == -1

VARIABLES last,      \* index_price of the newest row of index_publish_log
          index,     \* the index price on chain
          cycle,     \* the step each publisher is at and its price
          killed,    \* KILL_SWITCH
          ops, faults, kills,
          drift      \* history: a price was logged and not sent, or two
                     \* cycles overlapped

vars == <<book, last, index, cycle, killed, ops, faults, kills, drift>>

Idle == [pc |-> "idle", price |-> NoPrice]

Init ==
  /\ row = [h \in Hashes |-> NoOrder]
  /\ remaining = [h \in Hashes |-> 0] /\ applied = remaining
  /\ last = NoPrice /\ index = NoPrice
  /\ cycle = [w \in Publishers |-> Idle]
  /\ killed = FALSE /\ ops = 0 /\ faults = 0 /\ kills = 0
  /\ drift = FALSE

(***************************************************************************)
(* The price.                                                              *)
(***************************************************************************)
Now == 0    \* the orders of the instances outlive every behaviour

Bid == IF Bids(Now) = {} THEN 0 ELSE BestBid(Now)
Ask == IF Asks(Now) = {} THEN 0 ELSE BestAsk(Now)

BookPrice ==
  CASE Bid > 0 /\ Ask > 0 -> (Bid + Ask) \div 2
    [] Bid > 0 /\ Ask = 0 -> Bid
    [] Bid = 0 /\ Ask > 0 -> Ask
    [] OTHER -> Precision \div 2

MaxDelta(from) == (from * MaxDeltaBps) \div Bps

\* Mutation: the step is a share of the new price.
ClampedByNew(price, from) ==
  IF from = NoPrice THEN price
  ELSE IF price > from + MaxDelta(price) THEN from + MaxDelta(price)
  ELSE IF price < from - MaxDelta(price) THEN from - MaxDelta(price)
  ELSE price

\* Mutation: a price too far off is not followed at all.
ClampedKept(price, from) ==
  IF from # NoPrice /\ (\/ price > from + MaxDelta(from)
                       \/ price < from - MaxDelta(from)) THEN from
  ELSE price

Clamped(price, from) ==
  IF from = NoPrice THEN price
  ELSE IF price > from + MaxDelta(from) THEN from + MaxDelta(from)
  ELSE IF price < from - MaxDelta(from) THEN from - MaxDelta(from)
  ELSE price

(***************************************************************************)
(* The clients of the book and the operator.                               *)
(***************************************************************************)
ChangeBook ==
  /\ ops < MaxBookOps
  /\ ops' = ops + 1
  /\ \/ \E o \in Orders : o.hash \notin Posted /\ InsertOrder(o)
     \/ \E h \in Posted \ Gone : CancelOrder(h)
  /\ UNCHANGED <<last, index, cycle, killed, faults, kills, drift>>

SwitchKill ==
  /\ kills < MaxKills
  /\ kills' = kills + 1
  /\ killed' = ~ killed
  /\ UNCHANGED <<book, last, index, cycle, ops, faults, drift>>

(***************************************************************************)
(* runPublish.                                                             *)
(***************************************************************************)
Others(w) == \E v \in Publishers \ {w} : cycle[v].pc # "idle"

FetchBook(w) ==
  /\ cycle[w].pc = "idle"
  /\ ~ killed
  /\ cycle' = [cycle EXCEPT ![w] = [pc |-> "clamp", price |-> BookPrice]]
  /\ drift' = (drift \/ Others(w))
  /\ UNCHANGED <<book, last, index, killed, ops, faults, kills>>

Clamp(w) ==
  /\ cycle[w].pc = "clamp"
  /\ cycle' = [cycle EXCEPT ![w] = [pc |-> "log", price |-> Clamped(@.price, last)]]
  /\ UNCHANGED <<book, last, index, killed, ops, faults, kills, drift>>

LogPublish(w) ==
  /\ cycle[w].pc = "log"
  /\ last' = cycle[w].price
  /\ cycle' = [cycle EXCEPT ![w] = IF w \in DryRuns THEN Idle
                                   ELSE [@ EXCEPT !.pc = "send"]]
  /\ drift' = (drift \/ w \in DryRuns)
  /\ UNCHANGED <<book, index, killed, ops, faults, kills>>

SetMarketIndexPrice(w) ==
  /\ cycle[w].pc = "send"
  /\ index' = cycle[w].price
  /\ cycle' = [cycle EXCEPT ![w] = Idle]
  /\ UNCHANGED <<book, last, killed, ops, faults, kills, drift>>

\* The book, the database or the node does not answer, the transaction fails,
\* or the process is killed.
Fail(w) ==
  /\ cycle[w].pc # "idle"
  /\ faults < MaxFaults
  /\ faults' = faults + 1
  /\ cycle' = [cycle EXCEPT ![w] = Idle]
  /\ drift' = (drift \/ cycle[w].pc = "send")
  /\ UNCHANGED <<book, last, index, killed, ops, kills>>

Cycle(w) == FetchBook(w) \/ Clamp(w) \/ LogPublish(w) \/ SetMarketIndexPrice(w)

Next == ChangeBook \/ SwitchKill \/ \E w \in Publishers : Cycle(w) \/ Fail(w)

\* The cycle of a publisher that is no dry run is started again and again.
Fairness == \A w \in Publishers \ DryRuns : WF_vars(Cycle(w))

Spec == Init /\ [][Next]_vars /\ Fairness

(***************************************************************************)
(* Properties.                                                             *)
(***************************************************************************)
Distance(p, q) == IF p > q THEN p - q ELSE q - p

\* As long as every logged price was sent and cycles did not overlap, the index
\* on chain moves by at most MaxDeltaBps of itself, although the step is
\* measured against the log and never against the chain ("max delta per
\* update", worker.js:3).
PublishedStep ==
  [][(~ drift /\ index # NoPrice) => Distance(index', index) <= MaxDelta(index)]_vars

\* The log is at a price so low that the largest step is zero.  (A dry run in
\* step with the publisher can keep it there by turns, so once is not enough.)
Stuck == last # NoPrice /\ MaxDelta(last) = 0

\* Once the book has come to rest (its changes are bounded by MaxBookOps) the
\* index reaches its price and stays there, through failed transactions, dry
\* runs and overlapping cycles, unless the largest step is truncated to
\* nothing again and again.
IndexFollowsBook == []<>Stuck \/ <>[](killed \/ index = BookPrice)
=============================================================================
