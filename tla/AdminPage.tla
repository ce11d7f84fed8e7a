------------------------------- MODULE AdminPage -------------------------------
(***************************************************************************)
(* The factories (EventFactoryUpgradeable, BinaryMarketFactory) and the    *)
(* pages of their admin (Admin.tsx of both frontends, CreateEvent.tsx).    *)
(* Each operator has a wallet and a page of its own; a page acts on what   *)
(* it last read, and its calls are mined later, those of one wallet in     *)
(* the order they were sent.  Id i here is the code's id i - 1.            *)
(***************************************************************************)
EXTENDS Integers, Sequences, SequencesExt

CONSTANTS Operators, Nobody,
          Days,        \* what an operator may type as days until resolution
          MaxSent,     \* calls sent
          MaxClock

ASSUME AdminAssumption ==
  /\ Nobody \notin Operators /\ Days \subseteq Nat
  /\ MaxSent \in Nat /\ MaxClock \in Nat

VARIABLES perpetual,       \* the factory: EventFactory or BinaryMarketFactory
          admin, beacon,   \* its admin (Nobody before it is deployed); whether
                           \* marketBeacon is set
          events,          \* _events of EventFactory; empty for the other
          markets,         \* the market contracts
          clock,           \* block.timestamp
          known,           \* per operator: what the page has read
          queue,           \* per operator: calls not mined yet
          sends

factory == <<admin, beacon, events, markets>>
adminPage == <<perpetual, factory, clock, known, queue, sends>>

Ids == 1..MaxSent

AdminInit ==
  /\ perpetual \in BOOLEAN
  /\ admin = Nobody /\ beacon = FALSE
  /\ events = <<>> /\ markets = <<>>
  /\ clock = 0
  /\ known = [p \in Operators |->
       [admin |-> Nobody, count |-> 0,
        rows |-> [i \in Ids |-> [resolved |-> FALSE, closeOnly |-> FALSE]]]]
  /\ queue = [p \in Operators |-> <<>>]
  /\ sends = 0

(***************************************************************************)
(* What a page reads.  A row not read yet shows as unresolved.             *)
(***************************************************************************)
ReadAdmin(p) ==
  /\ known' = [known EXCEPT ![p].admin = admin]
  /\ UNCHANGED <<perpetual, factory, clock, queue, sends>>

ReadCount(p) ==
  /\ known' = [known EXCEPT ![p].count = Len(markets)]
  /\ UNCHANGED <<perpetual, factory, clock, queue, sends>>

ReadRow(p, i) ==
  /\ i <= known[p].count
  /\ known' = [known EXCEPT ![p].rows[i] =
       [resolved |-> markets[i].resolved, closeOnly |-> markets[i].closeOnly]]
  /\ UNCHANGED <<perpetual, factory, clock, queue, sends>>

(***************************************************************************)
(* Calls, with what their page had read when they were sent (history).     *)
(***************************************************************************)
NoArgs == [on |-> FALSE, due |-> 0, oracle |-> Nobody, page |-> FALSE]
RowArgs(on) == [on |-> on, due |-> 0, oracle |-> Nobody, page |-> TRUE]
EventArgs(due, oracle) == [on |-> FALSE, due |-> due, oracle |-> oracle, page |-> FALSE]

SendCall(p, do, i, args) ==
  /\ sends < MaxSent
  /\ sends' = sends + 1
  /\ queue' = [queue EXCEPT ![p] = Append(@, [do |-> do, id |-> i, args |-> args,
       admin |-> known[p].admin, resolved |-> i # 0 /\ known[p].rows[i].resolved])]
  /\ UNCHANGED <<perpetual, factory, clock, known>>

\* The perpetual's pages show their controls to the admin only.
ShownTo(p) == perpetual => known[p].admin = p

\* The button is disabled until the receipt of the market before.
Creating(p) == \E c \in Range(queue[p]) : c.do = "create"

CreateEvent(p, days, oracle) ==
  /\ perpetual /\ ShownTo(p) /\ ~Creating(p)
  /\ SendCall(p, "create", 0, EventArgs(clock + days, oracle))

\* No day given is a year; the factory keeps no resolution time.
CreateMarket(p) ==
  /\ ~perpetual /\ ~Creating(p)
  /\ SendCall(p, "create", 0, NoArgs)

\* Mutation: a resolved market can be resolved from its row again.
OfferedAlways(p, i) == ShownTo(p) /\ i <= known[p].count

\* A row with the buttons to resolve its market.
Offered(p, i) == ShownTo(p) /\ i <= known[p].count /\ ~known[p].rows[i].resolved

ResolveRow(p, i, result) ==
  /\ Offered(p, i)
  /\ SendCall(p, "resolve", i, RowArgs(result))

\* The button sets the opposite of what the row shows.
ToggleCloseOnly(p, i) ==
  /\ perpetual /\ ShownTo(p) /\ i <= known[p].count
  /\ SendCall(p, "closeOnly", i, RowArgs(~known[p].rows[i].closeOnly))

\* Calls no page makes: those of the deployment scripts, and of an oracle.
CallFactory(p) ==
  \/ \E q \in Operators : SendCall(p, "admin", 0, [NoArgs EXCEPT !.oracle = q])
  \/ \E on \in BOOLEAN : SendCall(p, "beacon", 0, [NoArgs EXCEPT !.on = on])
  \/ /\ perpetual
     /\ \E i \in DOMAIN events, on \in BOOLEAN, do \in {"pause", "resolve"} :
          SendCall(p, do, i, [NoArgs EXCEPT !.on = on])

(***************************************************************************)
(* The factories: the call is mined with its effect, or reverts.           *)
(***************************************************************************)
\* The proxy is deployed, with its beacon or with the beacon to be set later.
Initialize(p, on) ==
  /\ admin = Nobody
  /\ admin' = p /\ beacon' = on
  /\ UNCHANGED <<perpetual, events, markets, clock, known, queue, sends>>

Authorized(p, c) ==
  \/ p = admin
  \/ perpetual /\ c.do = "resolve" /\ events[c.id].oracle = p

\* Mutation: resolve() of the market leaves the check to the factory's record.
UnresolvedInRecord(i) == i \in DOMAIN events => ~events[i].resolved

\* AlreadyResolved is checked in the record, or in the market, or in both.
Unresolved(i) ==
  ~markets[i].resolved /\ (i \in DOMAIN events => ~events[i].resolved)

NewMarket == [resolved |-> FALSE, outcome |-> FALSE, closeOnly |-> FALSE]

MineCreate(c) ==
  /\ beacon
  /\ perpetual => c.args.due > clock
  /\ markets' = Append(markets, NewMarket)
  /\ events' = IF ~perpetual THEN events
               ELSE Append(events, [oracle |-> c.args.oracle, resolved |-> FALSE,
                                    outcome |-> FALSE, paused |-> FALSE])
  /\ UNCHANGED <<admin, beacon>>

\* Mutation: the record is resolved, its outcome is not written.
MineResolveForgetful(c) ==
  /\ Unresolved(c.id)
  /\ events' = IF ~perpetual THEN events
               ELSE [events EXCEPT ![c.id].resolved = TRUE]
  /\ markets' = [markets EXCEPT ![c.id] = [@ EXCEPT !.resolved = TRUE,
                                                    !.outcome = c.args.on]]
  /\ UNCHANGED <<admin, beacon>>

MineResolve(c) ==
  /\ Unresolved(c.id)
  /\ events' = IF ~perpetual THEN events
               ELSE [events EXCEPT ![c.id] = [@ EXCEPT !.resolved = TRUE,
                                                       !.outcome = c.args.on]]
  /\ markets' = [markets EXCEPT ![c.id] = [@ EXCEPT !.resolved = TRUE,
                                                    !.outcome = c.args.on]]
  /\ UNCHANGED <<admin, beacon>>

MineSetting(c) ==
  \/ /\ c.do = "closeOnly"
     /\ markets' = [markets EXCEPT ![c.id].closeOnly = c.args.on]
     /\ UNCHANGED <<admin, beacon, events>>
  \/ /\ c.do = "pause"
     /\ events' = [events EXCEPT ![c.id].paused = c.args.on]
     /\ UNCHANGED <<admin, beacon, markets>>
  \/ /\ c.do = "admin"
     /\ admin' = c.args.oracle
     /\ UNCHANGED <<beacon, events, markets>>
  \/ /\ c.do = "beacon"
     /\ beacon' = c.args.on
     /\ UNCHANGED <<admin, events, markets>>

MineCall(p, c) ==
  /\ Authorized(p, c)
  /\ \/ c.do = "create"  /\ MineCreate(c)
     \/ c.do = "resolve" /\ MineResolve(c)
     \/ MineSetting(c)

Refused(p, c) ==
  \/ ~Authorized(p, c)
  \/ c.do = "create"  /\ (~beacon \/ (perpetual /\ c.args.due <= clock))
  \/ c.do = "resolve" /\ ~Unresolved(c.id)

\* The next call of a wallet is mined.
MineNext(p) ==
  /\ queue[p] # <<>>
  /\ \/ MineCall(p, Head(queue[p]))
     \/ Refused(p, Head(queue[p])) /\ UNCHANGED factory
  /\ queue' = [queue EXCEPT ![p] = Tail(@)]
  /\ UNCHANGED <<perpetual, clock, known, sends>>

NextBlock ==
  /\ clock < MaxClock
  /\ clock' = clock + 1
  /\ UNCHANGED <<perpetual, factory, known, queue, sends>>

OperatorStep(p) ==
  \/ ReadAdmin(p) \/ ReadCount(p)
  \/ \E days \in Days, oracle \in Operators : CreateEvent(p, days, oracle)
  \/ CreateMarket(p)
  \/ \E i \in Ids : \/ ReadRow(p, i) \/ ToggleCloseOnly(p, i)
                    \/ \E result \in BOOLEAN : ResolveRow(p, i, result)
  \/ CallFactory(p)
  \/ MineNext(p)

AdminNext ==
  \/ \E p \in Operators, on \in BOOLEAN : Initialize(p, on)
  \/ admin # Nobody /\ ((\E p \in Operators : OperatorStep(p)) \/ NextBlock)

(***************************************************************************)
(* Properties.                                                             *)
(***************************************************************************)
\* EventFactory keeps a second copy of the resolution, and the pages read one
\* or the other: the copies agree, whoever resolves and in whatever order.
RecordsAgree ==
  perpetual => /\ Len(events) = Len(markets)
               /\ \A i \in DOMAIN markets :
                    /\ events[i].resolved = markets[i].resolved
                    /\ events[i].outcome = markets[i].outcome

\* Several operators may send both outcomes for one market; the first that is
\* mined stays, in every market of either factory.
ResolutionIsFinal ==
  [][\A i \in DOMAIN markets : markets[i].resolved =>
       markets'[i].resolved /\ markets'[i].outcome = markets[i].outcome]_adminPage

\* A call from a row reverts only because the admin changed after the page read
\* it; because the market was resolved after the page read the row, or the row
\* was not read at all; or because the binary page, which shows its buttons to
\* everybody, was used by somebody else.  (A call that sets closeOnly to what it
\* is changes nothing either, and does not revert.)
FailedCallIsExcused ==
  [][\A p \in Operators :
       LET c == Head(queue[p])
       IN  queue'[p] # queue[p] /\ Len(queue'[p]) < Len(queue[p])
             /\ c.args.page /\ UNCHANGED factory =>
             \/ c.admin # admin
             \/ ~perpetual /\ c.admin # p
             \/ ~c.resolved /\ markets[c.id].resolved
             \/ c.do = "closeOnly" /\ c.args.on = markets[c.id].closeOnly]_adminPage
=============================================================================
