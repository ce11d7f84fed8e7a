------------------------------- MODULE Matcher -------------------------------
(***************************************************************************)
(* The matcher API (matcher/index.js): express handlers of one process     *)
(* that interleave at every await.  A request with an Idempotency-Key      *)
(* looks for a stored answer in Redis and then in the database, acts on    *)
(* the orders table, stores its answer in Redis and then in the database,  *)
(* and replies.  The process may end at any await and starts again with    *)
(* empty rate limits; the two stores and the table survive.  Redis is      *)
(* optional and its errors are swallowed: a read may find nothing and a    *)
(* write may be lost at any time.  The database is neither asked nor told  *)
(* about a key longer than 128 characters.  The two days a stored answer   *)
(* is kept are longer than any behaviour modelled.                         *)
(***************************************************************************)
EXTENDS OrderBook, RateLimit, FiniteSets, Functions

CONSTANTS Ips,                \* what getIp takes for the client's address: the
                              \* first of X-Forwarded-For, or the socket's
          Spellings,          \* what orders give as their maker, in lower case
          Keys, NoKey,        \* values of the Idempotency-Key header
          LongKeys,           \* those of more than 128 characters
          Requests, NoRequest,
          Handlers,           \* requests the process works on at once
          NoMaker,            \* an order or a cancel that names no maker
          NoSalt, EmptySalt,  \* no salt in the order; the empty string
          MaxExpiryOffset,
          MaxNow, MaxSends, MaxFaults

ASSUME RequestAssumption ==
  /\ Window \in Nat /\ MaxNow \in Nat
  /\ IpLimit \in Nat /\ MakerLimit \in Nat
  /\ IsFiniteSet(Handlers)
  /\ NoKey \notin Keys /\ LongKeys \subseteq Keys
  /\ Ips \cap Spellings = {}
  /\ NoRequest \notin Requests
  /\ \A r \in Requests :
       /\ r.ip \in Ips
       /\ r.key \in Keys \cup {NoKey}
       /\ r.kind \in {"order", "cancel", "fill", "invalidate", "read"}
       /\ r.kind = "order" => /\ r.order \in Orders
                              /\ r.spelled \in Spellings \cup {NoMaker}
       /\ r.kind = "cancel" => /\ r.hash \in Hashes \cup {NoHash}
                             /\ r.maker \in Makers \cup {NoMaker}
       /\ r.kind = "fill" => r.hash \in Hashes /\ r.size \in Nat
       /\ r.kind = "invalidate" => r.maker \in Makers /\ r.nonce \in Nat

Answers == [body : {"exists", "notFound", "malformed", "canceled",
                    "applied", "notApplied", "ok"},
            hash : Hashes \cup {NoHash}]
Answer(body, h) == [body |-> body, hash |-> h]
NoAnswer == Answer("none", NoHash)

Jobs == [pc : {"idle", "redis", "db", "find", "act", "storeRedis", "storeDb"},
         req : Requests \cup {NoRequest},
         found : Hashes \cup {NoHash},
         answer : Answers \cup {NoAnswer},
         late : BOOLEAN]
Idle == [pc |-> "idle", req |-> NoRequest, found |-> NoHash,
         answer |-> NoAnswer, late |-> FALSE]

VARIABLES redis, db,      \* stored answer of each key
          job,            \* what each handler is working on
          rate,           \* ipCounts and makerCounts
          now, sent, faults, crashes,
          effects,        \* history: statements that took effect, per key
          excused,        \* history: overlaps and lost answers, per key
          confirmed,      \* history: keys answered out of the database or
                          \* after the answer was stored there
          toldCanceled,   \* history: orders a client was told are cancelled
          admitted        \* history: requests a limit let through, by time

stores == <<redis, db>>
limits == <<rate, admitted>>
history == <<effects, excused, confirmed, toldCanceled>>
Subjects == Ips \cup Spellings

clock == <<now, sent, faults, crashes>>
vars == <<book, stores, job, limits, history, clock>>

Init ==
  /\ \E P \in SUBSET {o \in Orders : o.salt # NoSalt} :
       /\ \A o, p \in P : o.hash = p.hash => o = p
       /\ row = [h \in Hashes |-> IF \E o \in P : o.hash = h
                                    THEN CHOOSE o \in P : o.hash = h
                                    ELSE NoOrder]
       /\ remaining = [h \in Hashes |-> IF row[h] = NoOrder THEN 0
                                                            ELSE row[h].size]
  /\ applied = [h \in Hashes |-> 0]
  /\ redis = [k \in Keys |-> NoAnswer] /\ db = redis
  /\ job = [h \in Handlers |-> Idle]
  /\ rate = [s \in Subjects |-> NoEntry]
  /\ admitted = [s \in Subjects |-> [t \in 0 .. MaxNow |-> 0]]
  /\ effects = [k \in Keys |-> 0] /\ excused = effects
  /\ confirmed = {} /\ toldCanceled = {}
  /\ now = 0 /\ sent = 0 /\ faults = 0 /\ crashes = 0

(***************************************************************************)
(* Receiving a request: everything before the first await.                 *)
(***************************************************************************)
Limit(s) == IF s \in Ips THEN IpLimit ELSE MakerLimit

Passes(s) == Bump(rate[s], now).count <= Limit(s)

\* rateLimitByIp runs for every request, rateLimitByMaker for a POST /orders
\* that got past it and names a maker.  It counts under the maker as the body
\* spells it: the address is parsed later, and an account has many spellings.
Counted(r) ==
  IF r.kind = "order" /\ Passes(r.ip) THEN {r.ip, r.spelled} \ {NoMaker}
                                      ELSE {r.ip}

CountRequest(r) ==
  /\ rate' = [s \in Subjects |-> IF s \in Counted(r) THEN Bump(rate[s], now)
                                                     ELSE rate[s]]
  /\ admitted' = [s \in Subjects |-> IF s \in Counted(r) /\ Passes(s)
                                       THEN [admitted[s] EXCEPT ![now] = @ + 1]
                                       ELSE admitted[s]]

InternalAuth(r) == r.kind \in {"fill", "invalidate"} => r.trusted

Admits(r) == InternalAuth(r) /\ \A s \in Counted(r) : Passes(s)

\* A signature is optional, and its kind must match the salt: V1 is verified
\* only for an empty salt.  Without a salt the order cannot be hashed (500).
VerifyOrderSignature(o) ==
  o.sig \in {"none", IF o.salt = EmptySalt THEN "V1" ELSE "V2"}

ValidateOrderBody(o) ==
  o.size > 0 /\ o.expiry >= now /\ o.expiry <= now + MaxExpiryOffset

Accepts(r) == r.kind = "order" =>
  /\ r.spelled # NoMaker
  /\ ValidateOrderBody(r.order)
  /\ r.order.salt # NoSalt
  /\ VerifyOrderSignature(r.order)

\* The handler past its look at the stored answers; what is refused here is
\* answered at once and not stored.
Started(r, j) ==
  IF ~ Accepts(r) THEN Idle
  ELSE IF r.kind # "cancel" \/ r.hash # NoHash THEN [j EXCEPT !.pc = "act"]
  ELSE IF r.maker # NoMaker THEN [j EXCEPT !.pc = "find"]
  ELSE IF r.key = NoKey THEN Idle
  ELSE [j EXCEPT !.pc = "storeRedis", !.answer = Answer("malformed", NoHash)]

Working(k) == {h \in Handlers : job[h].pc # "idle" /\ job[h].req.key = k}

Excuse(K) == excused' = [k \in Keys |-> IF k \in K THEN excused[k] + 1
                                                   ELSE excused[k]]

Receive(h, r) ==
  /\ job[h].pc = "idle"
  /\ sent < MaxSends
  /\ sent' = sent + 1
  /\ CountRequest(r)
  /\ LET new == [Idle EXCEPT !.req = r, !.late = r.key \in confirmed]
     IN  job' = [job EXCEPT ![h] =
                   IF ~ Admits(r) \/ r.kind = "read" THEN Idle
                   ELSE IF r.key = NoKey THEN Started(r, new)
                   ELSE [new EXCEPT !.pc = "redis"]]
  /\ Excuse(IF Admits(r) /\ r.key \notin confirmed /\ Working(r.key) # {}
              THEN {r.key} ELSE {})
  /\ UNCHANGED <<book, stores, effects, confirmed, toldCanceled, now, faults,
                 crashes>>

(***************************************************************************)
(* The steps of a handler.                                                 *)
(***************************************************************************)
Reply(h, a) ==
  /\ job' = [job EXCEPT ![h] = Idle]
  /\ toldCanceled' = IF a.body = "canceled" THEN toldCanceled \cup {a.hash}
                                            ELSE toldCanceled

ReadRedis(h) ==
  /\ job[h].pc = "redis"
  /\ LET k == job[h].req.key
     IN  \/ redis[k] # NoAnswer /\ Reply(h, redis[k])
         \/ /\ job' = [job EXCEPT ![h].pc = "db"]
            /\ UNCHANGED toldCanceled
  /\ UNCHANGED <<book, stores, limits, effects, excused, confirmed, clock>>

\* Mutation: only Redis is asked.
ReadDbSkipped(h) ==
  /\ job[h].pc = "db"
  /\ job' = [job EXCEPT ![h] = Started(job[h].req, job[h])]
  /\ UNCHANGED <<book, stores, limits, history, clock>>

\* The answer the database gives for a key: a long one is not looked up.
StoredAnswer(k) == IF k \in LongKeys THEN NoAnswer ELSE db[k]

ReadDb(h) ==
  /\ job[h].pc = "db"
  /\ LET k == job[h].req.key
     IN  \/ /\ StoredAnswer(k) # NoAnswer
            /\ Reply(h, StoredAnswer(k))
            /\ confirmed' = confirmed \cup {k}
         \/ /\ StoredAnswer(k) = NoAnswer
            /\ job' = [job EXCEPT ![h] = Started(job[h].req, job[h])]
            /\ UNCHANGED <<confirmed, toldCanceled>>
  /\ UNCHANGED <<book, stores, limits, effects, excused, clock>>

\* Mutation: the answer is sent and not stored.
ConcludeUnstored(h, a) == Reply(h, a)

\* The handler is done but for storing its answer, if there is a key.
Conclude(h, a) ==
  IF job[h].req.key = NoKey
    THEN Reply(h, a)
    ELSE /\ job' = [job EXCEPT ![h].pc = "storeRedis", ![h].answer = a]
         /\ UNCHANGED toldCanceled

Effective(h, took) ==
  effects' = [k \in Keys |-> IF took /\ k = job[h].req.key THEN effects[k] + 1
                                                           ELSE effects[k]]

FindOrderByMakerSalt(h) ==
  /\ job[h].pc = "find"
  /\ LET r == job[h].req
         C == Candidates(r.maker, r.salt)
     IN  \/ \E c \in C : /\ job' = [job EXCEPT ![h].pc = "act", ![h].found = c]
                         /\ UNCHANGED toldCanceled
         \/ C = {} /\ Conclude(h, Answer("notFound", NoHash))
  /\ UNCHANGED <<book, stores, limits, effects, excused, confirmed, clock>>

\* A row that was inserted is answered with 500: the body holds BigInts, and
\* serialising it throws, for the reply and for the stored answer alike.
AddOrder(h) ==
  /\ job[h].pc = "act" /\ job[h].req.kind = "order"
  /\ LET o == job[h].req.order
         inserted == o.hash \notin Posted
     IN  /\ InsertOrder(o)
         /\ Effective(h, inserted)
         /\ \/ /\ inserted
               /\ job' = [job EXCEPT ![h] = Idle]
               /\ Excuse({job[h].req.key})
               /\ UNCHANGED toldCanceled
            \/ /\ ~ inserted
               /\ Conclude(h, Answer("exists", o.hash))
               /\ UNCHANGED excused
  /\ UNCHANGED <<stores, limits, confirmed, clock>>

Cancel(h) ==
  /\ job[h].pc = "act" /\ job[h].req.kind = "cancel"
  /\ LET i == IF job[h].req.hash = NoHash THEN job[h].found ELSE job[h].req.hash
     IN  /\ CancelOrder(i)
         /\ Effective(h, i \in Posted)
         /\ Conclude(h, IF i \in Posted THEN Answer("canceled", i)
                                        ELSE Answer("notFound", NoHash))
  /\ UNCHANGED <<stores, limits, excused, confirmed, clock>>

ApplyFillRequest(h) ==
  /\ job[h].pc = "act" /\ job[h].req.kind = "fill"
  /\ LET r == job[h].req
     IN  /\ ApplyFill(r.hash, r.size)
         /\ Effective(h, Fits(r.hash, r.size))
         /\ Conclude(h, Answer(IF Fits(r.hash, r.size) THEN "applied"
                                                       ELSE "notApplied", r.hash))
  /\ UNCHANGED <<stores, limits, excused, confirmed, clock>>

InvalidateNonce(h) ==
  /\ job[h].pc = "act" /\ job[h].req.kind = "invalidate"
  /\ InvalidateByNonce(job[h].req.maker, job[h].req.nonce)
  /\ Effective(h, TRUE)
  /\ Conclude(h, Answer("ok", NoHash))
  /\ UNCHANGED <<stores, limits, excused, confirmed, clock>>

\* Redis keeps the last answer of a key; its errors are swallowed.
StoreRedis(h) ==
  /\ job[h].pc = "storeRedis"
  /\ redis' \in {redis, [redis EXCEPT ![job[h].req.key] = job[h].answer]}
  /\ job' = [job EXCEPT ![h].pc = "storeDb"]
  /\ UNCHANGED <<book, db, limits, history, clock>>

\* The database keeps the first answer, and none of a long key.
DbKeeps(h) ==
  [k \in Keys |-> IF k = job[h].req.key /\ k \notin LongKeys /\ db[k] = NoAnswer
                    THEN job[h].answer ELSE db[k]]

\* Mutation: an error of the database is swallowed like one of Redis.
StoreDbSwallowed(h) ==
  /\ job[h].pc = "storeDb"
  /\ db' \in {db, DbKeeps(h)}
  /\ Reply(h, job[h].answer)
  /\ confirmed' = confirmed \cup {job[h].req.key}
  /\ UNCHANGED <<book, redis, limits, effects, excused, clock>>

StoreDb(h) ==
  /\ job[h].pc = "storeDb"
  /\ db' = DbKeeps(h)
  /\ Reply(h, job[h].answer)
  /\ confirmed' = confirmed \cup {job[h].req.key}
  /\ UNCHANGED <<book, redis, limits, effects, excused, clock>>

(***************************************************************************)
(* Failures.                                                               *)
(***************************************************************************)
HasActed(h) == job[h].pc \in {"storeRedis", "storeDb"}

\* A query throws inside the try block and the client gets a 500: before the
\* statement ran, in the queries that follow it, or in the one that stores
\* the answer (the row may have been written), which a long key never runs.
QueryFails(h) ==
  /\ job[h].pc \in {"find", "act", "storeRedis", "storeDb"}
  /\ job[h].pc = "storeDb" => job[h].req.key \notin LongKeys
  /\ faults < MaxFaults
  /\ faults' = faults + 1
  /\ job' = [job EXCEPT ![h] = Idle]
  /\ Excuse(IF HasActed(h) THEN {job[h].req.key} ELSE {})
  /\ db' \in {db} \cup IF job[h].pc = "storeDb" THEN {DbKeeps(h)} ELSE {}
  /\ UNCHANGED <<book, redis, limits, effects, confirmed, toldCanceled, now,
                 sent, crashes>>

\* The process ends: killed, or by the rejection nobody handles when the look
\* at the stored answers, outside the try block, meets a database error.
Crash ==
  /\ faults < MaxFaults
  /\ faults' = faults + 1
  /\ crashes' = crashes + 1
  /\ job' = [h \in Handlers |-> Idle]
  /\ rate' = [s \in Subjects |-> NoEntry]
  /\ Excuse({job[h].req.key : h \in {g \in Handlers : HasActed(g)}})
  /\ UNCHANGED <<book, stores, admitted, effects, confirmed, toldCanceled, now,
                 sent>>

Tick ==
  /\ now < MaxNow
  /\ now' = now + 1
  /\ UNCHANGED <<book, stores, job, limits, history, sent, faults, crashes>>

Step(h) ==
  \/ \E r \in Requests : Receive(h, r)
  \/ ReadRedis(h) \/ ReadDb(h)
  \/ FindOrderByMakerSalt(h)
  \/ AddOrder(h) \/ Cancel(h) \/ ApplyFillRequest(h) \/ InvalidateNonce(h)
  \/ StoreRedis(h) \/ StoreDb(h)
  \/ QueryFails(h)

Next == Crash \/ Tick \/ \E h \in Handlers : Step(h)

Spec == Init /\ [][Next]_vars

(***************************************************************************)
(* Properties.                                                             *)
(***************************************************************************)
\* The types of the variables; that remaining is a natural number says that no
\* interleaving of fills and cancels takes remaining_size below zero.
TypeOK ==
  /\ BookTypeOK
  /\ redis \in [Keys -> Answers \cup {NoAnswer}]
  /\ db \in [Keys -> Answers \cup {NoAnswer}]
  /\ job \in [Handlers -> Jobs]
  /\ rate \in [Subjects -> Entry]
  /\ admitted \in [Subjects -> [0 .. MaxNow -> Nat]]
  /\ effects \in [Keys -> Nat] /\ excused \in [Keys -> Nat]
  /\ confirmed \subseteq Keys /\ toldCanceled \subseteq Hashes
  /\ now \in 0 .. MaxNow /\ sent \in Nat /\ faults \in Nat /\ crashes \in Nat

\* A handler that got past its look at the stored answers with a key that was
\* answered before its request came in.
ActsAgain(h) == job[h].late /\ job[h].pc \notin {"redis", "db"}

\* A request whose key has at most 128 characters and was answered before it
\* came in never acts on the orders table again, whatever Redis has lost since
\* (db/idempotency.js:3: "return stored response and skip mutation").
RetryIsSafe ==
  \A h \in Handlers : ActsAgain(h) => job[h].req.key \in LongKeys

\* A key of at most 128 characters takes effect more than once only if its
\* requests overlapped, or an answer was lost after the statement had run: once
\* per such mishap.  (The check at index.js:39 and the store at 83 are steps
\* apart, and an inserted order is answered with an error and not stored.)
OneEffectPerKey == \A k \in Keys \ LongKeys : effects[k] <= 1 + excused[k]

\* Redis and the database answer a retry alike, unless requests of the key
\* overlapped or one of them was broken off.
CachesAgree ==
  \A k \in Keys : (redis[k] # NoAnswer /\ db[k] # NoAnswer /\ redis[k] # db[k])
                    => excused[k] > 0

\* An order a client was told is cancelled is out of the book and never comes
\* back, whoever posts it again and however old the answer was.
CanceledMeansGone == \A i \in toldCanceled : i \in Posted /\ remaining[i] = 0

\* No address, as rateLimit.js:26 reads it, and no spelling of a maker gets more
\* than two windows' worth of requests through in a stretch as long as a window,
\* wherever it lies across the windows, and one more for every restart.  Nothing
\* is said of an account that spells its address in several ways.
RateBounded ==
  \A s \in Subjects : \A t \in 0 .. MaxNow :
    SumFunctionOnSet(admitted[s], (t .. t + Window) \cap (0 .. MaxNow))
      <= (2 + crashes) * Limit(s)
=============================================================================
