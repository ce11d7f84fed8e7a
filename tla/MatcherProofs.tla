----------------------------- MODULE MatcherProofs -----------------------------
(***************************************************************************)
(* Theorems of Matcher, for every set of requests, handlers and limits.    *)
(***************************************************************************)
EXTENDS Matcher, OrderBookProofs, SumLemmas

USE OrderAssumption, RequestAssumption

(***************************************************************************)
(* Types.  The invariant also says what a handler knows at each step, and  *)
(* that an answer "canceled", wherever it is kept, names an order that is  *)
(* out of the book: without it neither the types nor CanceledMeansGone are *)
(* inductive.                                                              *)
(***************************************************************************)
Knows(j) ==
  /\ j.pc # "idle" => j.req \in Requests
  /\ j.pc \in {"redis", "db", "storeRedis", "storeDb"} => j.req.key \in Keys
  /\ j.pc = "find" => j.req.kind = "cancel"
  /\ j.pc = "act" /\ j.req.kind = "cancel" /\ j.req.hash = NoHash
       => j.found \in Hashes
  /\ j.pc \in {"storeRedis", "storeDb"} => j.answer \in Answers

\* The keys whose answers the database keeps.
ShortKeys == Keys \ LongKeys
USE DEF ShortKeys

Late(j, C) == j.late => /\ j.req.key \in C
                        /\ j.req.key \in ShortKeys => j.pc \in {"redis", "db"}

Honest(a, G) == a.body = "canceled" => a.hash \in G

JobsOK == \A h \in Handlers : /\ Knows(job[h])
                              /\ Late(job[h], confirmed)
                              /\ Honest(job[h].answer, Gone)

AnswersOK == /\ toldCanceled \subseteq Gone
             /\ \A k \in Keys : Honest(redis[k], Gone) /\ Honest(db[k], Gone)
             /\ \A k \in confirmed \cap ShortKeys : db[k] # NoAnswer
             /\ \A k \in LongKeys : db[k] = NoAnswer

TypeInv == TypeOK /\ BookInv /\ JobsOK /\ AnswersOK

\* No stored answer is the missing one.
LEMMA NoAnswerApart == NoAnswer \notin Answers
  BY DEF NoAnswer, Answers, Answer

\* The database answers every key with what it holds for it.
LEMMA StoredIsDb ==
  ASSUME TypeInv, NEW k
  PROVE  StoredAnswer(k) = db[k]
  BY DEF TypeInv, AnswersOK, StoredAnswer

\* A rate entry stays one.
LEMMA BumpTyped ==
  ASSUME NEW e \in Entry, NEW t \in Nat
  PROVE  Bump(e, t) \in Entry
  BY DEF Bump, Entry

\* Counting a request keeps the limits typed.
LEMMA CountTyped ==
  ASSUME TypeOK, NEW r \in Requests, CountRequest(r)
  PROVE  /\ rate' \in [Subjects -> Entry]
         /\ admitted' \in [Subjects -> [0 .. MaxNow -> Nat]]
  <1>1. now \in Nat
    BY DEF TypeOK
  <1>2. rate' \in [Subjects -> Entry]
    <2>1. \A s \in Subjects : Bump(rate[s], now) \in Entry
      BY <1>1, BumpTyped DEF TypeOK
    <2> QED
      BY <2>1 DEF CountRequest, TypeOK
  <1>3. admitted' \in [Subjects -> [0 .. MaxNow -> Nat]]
    <2>1. \A s \in Subjects : [admitted[s] EXCEPT ![now] = @ + 1] \in [0 .. MaxNow -> Nat]
      BY DEF TypeOK
    <2> QED
      BY <2>1 DEF CountRequest, TypeOK
  <1> QED
    BY <1>2, <1>3

\* Excusing keys keeps the history typed.
LEMMA ExcuseTyped ==
  ASSUME TypeOK, NEW K, Excuse(K)
  PROVE  excused' \in [Keys -> Nat]
  BY DEF TypeOK, Excuse

\* Counting an effect keeps the history typed.
LEMMA EffectiveTyped ==
  ASSUME TypeOK, NEW h, NEW took, Effective(h, took)
  PROVE  effects' \in [Keys -> Nat]
  BY DEF TypeOK, Effective

\* The handler goes on, or is done, with what it must know.
LEMMA StartedOK ==
  ASSUME NEW r \in Requests, NEW j \in Jobs, j.req = r
  PROVE  /\ Started(r, j) \in Jobs
         /\ Started(r, j).pc # "idle" => Started(r, j).req = r
         /\ Started(r, j).late <=> (j.late /\ Started(r, j).pc # "idle")
         /\ Started(r, j).pc \in {"idle", "find", "act", "storeRedis"}
         /\ Started(r, j).pc = "find" => r.kind = "cancel"
         /\ Started(r, j).pc = "act" /\ r.kind = "cancel" => r.hash # NoHash
         /\ Started(r, j).pc = "storeRedis" =>
              /\ r.key \in Keys
              /\ Started(r, j).answer = Answer("malformed", NoHash)
         /\ Started(r, j).answer.body # "canceled" \/ Started(r, j).answer = j.answer
  <1>0. /\ Idle \in Jobs /\ Idle.pc = "idle" /\ Idle.late = FALSE
        /\ Idle.answer.body # "canceled"
        /\ Answer("malformed", NoHash).body # "canceled"
        /\ Answer("malformed", NoHash) \in Answers
    BY DEF Idle, Jobs, Answers, Answer, NoAnswer
  <1>1. CASE ~ Accepts(r)
    BY <1>0, <1>1 DEF Started
  <1>2. CASE Accepts(r) /\ r.kind = "cancel" /\ r.hash = NoHash
    <2>1. CASE r.maker # NoMaker
      <3>1. Started(r, j) = [j EXCEPT !.pc = "find"]
        BY <1>2, <2>1 DEF Started
      <3> QED
        BY <1>2, <3>1 DEF Jobs
    <2>2. CASE r.maker = NoMaker /\ r.key = NoKey
      <3>1. Started(r, j) = Idle
        BY <1>2, <2>2 DEF Started
      <3> QED
        BY <1>0, <3>1
    <2>3. CASE r.maker = NoMaker /\ r.key # NoKey
      <3>1. Started(r, j)
              = [j EXCEPT !.pc = "storeRedis", !.answer = Answer("malformed", NoHash)]
        BY <1>2, <2>3 DEF Started
      <3> QED
        BY <1>0, <2>3, <3>1 DEF Jobs
    <2> QED
      BY <2>1, <2>2, <2>3
  <1>3. CASE Accepts(r) /\ ~ (r.kind = "cancel" /\ r.hash = NoHash)
    <2>1. Started(r, j) = [j EXCEPT !.pc = "act"]
      BY <1>3 DEF Started
    <2> QED
      BY <1>3, <2>1 DEF Jobs
  <1> QED
    BY <1>1, <1>2, <1>3

\* Every initial state is typed.
LEMMA InitTyped == Init => TypeInv
  <1> SUFFICES ASSUME Init PROVE TypeInv
    OBVIOUS
  <1>1. BookInv
    <2>1. PICK P \in SUBSET {o \in Orders : o.salt # NoSalt} :
            /\ \A o, p \in P : o.hash = p.hash => o = p
            /\ row = [h \in Hashes |-> IF \E o \in P : o.hash = h
                                         THEN CHOOSE o \in P : o.hash = h
                                         ELSE NoOrder]
            /\ remaining = [h \in Hashes |-> IF row[h] = NoOrder THEN 0
                                                                 ELSE row[h].size]
      BY DEF Init
    <2>2. \A h \in Hashes : \/ row[h] = NoOrder
                            \/ row[h] \in Orders /\ row[h].hash = h
      <3> SUFFICES ASSUME NEW h \in Hashes, \E o \in P : o.hash = h
                   PROVE  row[h] \in Orders /\ row[h].hash = h
        BY <2>1
      <3>1. row[h] = CHOOSE o \in P : o.hash = h
        BY <2>1
      <3> QED
        BY <3>1
    <2>3. applied = [h \in Hashes |-> 0]
      BY DEF Init
    <2>4. BookTypeOK
      BY <2>1, <2>2, <2>3 DEF BookTypeOK
    <2> QED
      BY <2>1, <2>2, <2>3, <2>4 DEF BookInv
  <1>2. BookTypeOK
    BY <1>1 DEF BookInv
  <1>3. /\ Idle \in Jobs /\ Idle.pc = "idle" /\ Idle.late = FALSE
        /\ NoEntry \in Entry /\ 0 \in 0 .. MaxNow
    BY DEF Idle, Jobs, NoEntry, Entry
  <1>4. TypeOK
    BY <1>2, <1>3 DEF Init, TypeOK
  <1>5. JobsOK /\ AnswersOK
    BY DEF Init, JobsOK, AnswersOK, Knows, Late, Honest, Idle, NoAnswer, Answer
  <1> QED
    BY <1>1, <1>4, <1>5 DEF TypeInv

\* The other handlers know what they knew when one of them moves to n.
LEMMA JobMoves ==
  ASSUME TypeInv, BookStep, NEW h \in Handlers, NEW n \in Jobs,
         job' = [job EXCEPT ![h] = n], confirmed \subseteq confirmed',
         Knows(n), Late(n, confirmed'), Honest(n.answer, Gone')
  PROVE  job' \in [Handlers -> Jobs] /\ JobsOK'
  <1>1. job' \in [Handlers -> Jobs]
    BY DEF TypeInv, TypeOK
  <1>2. ASSUME NEW g \in Handlers
        PROVE  /\ Knows(job'[g]) /\ Late(job'[g], confirmed')
               /\ Honest(job'[g].answer, Gone')
    <2>1. CASE g = h
      BY <2>1 DEF TypeInv, TypeOK
    <2>2. CASE g # h
      <3>1. job'[g] = job[g]
        BY <2>2 DEF TypeInv, TypeOK
      <3> QED
        BY <3>1 DEF TypeInv, JobsOK, Late, Honest, BookStep
    <2> QED
      BY <2>1, <2>2
  <1> QED
    BY <1>1, <1>2 DEF JobsOK, Knows

\* An idle handler knows nothing and need not.
LEMMA IdleOK ==
  ASSUME NEW C, NEW G
  PROVE  /\ Idle \in Jobs /\ Idle.pc = "idle" /\ Idle.late = FALSE
         /\ Knows(Idle) /\ Late(Idle, C) /\ Honest(Idle.answer, G)
  BY DEF Idle, Jobs, Knows, Late, Honest, NoAnswer, Answer

\* A handler that replies.
LEMMA ReplyOK ==
  ASSUME TypeInv, BookStep, NEW h \in Handlers, NEW a, Reply(h, a),
         Honest(a, Gone'), confirmed \subseteq confirmed'
  PROVE  job' \in [Handlers -> Jobs] /\ JobsOK' /\ toldCanceled' \subseteq Gone'
  <1>1. job' \in [Handlers -> Jobs] /\ JobsOK'
    BY IdleOK, JobMoves DEF Reply
  <1>2. toldCanceled' \subseteq Gone'
    BY DEF Reply, Honest, TypeInv, AnswersOK, BookStep
  <1> QED
    BY <1>1, <1>2

\* A handler that is done but for storing its answer.
LEMMA ConcludeOK ==
  ASSUME TypeInv, BookStep, NEW h \in Handlers, NEW a \in Answers, Conclude(h, a),
         job[h].pc \in {"find", "act"}, Honest(a, Gone'), confirmed' = confirmed
  PROVE  job' \in [Handlers -> Jobs] /\ JobsOK' /\ toldCanceled' \subseteq Gone'
  <1>1. CASE job[h].req.key = NoKey
    BY <1>1, ReplyOK DEF Conclude
  <1>2. CASE job[h].req.key # NoKey
    <2> DEFINE n == [job[h] EXCEPT !.pc = "storeRedis", !.answer = a]
    <2>1. job[h] \in Jobs /\ Knows(job[h]) /\ Late(job[h], confirmed)
      BY DEF TypeInv, TypeOK, JobsOK
    <2>2. /\ n \in Jobs /\ n.pc = "storeRedis" /\ n.answer = a
          /\ n.req = job[h].req /\ n.late = job[h].late
      BY <2>1 DEF Jobs
    <2>3. job' = [job EXCEPT ![h] = n] /\ toldCanceled' = toldCanceled
      BY <1>2 DEF Conclude, TypeInv, TypeOK
    <2> HIDE DEF n
    <2>4. Knows(n) /\ Late(n, confirmed') /\ Honest(n.answer, Gone')
      BY <1>2, <2>1, <2>2 DEF Knows, Late
    <2>5. job' \in [Handlers -> Jobs] /\ JobsOK'
      BY <2>2, <2>3, <2>4, JobMoves
    <2> QED
      BY <2>3, <2>5 DEF TypeInv, AnswersOK, BookStep
  <1> QED
    BY <1>1, <1>2

\* A request that comes in.
LEMMA ReceiveTyped ==
  ASSUME TypeInv, NEW h \in Handlers, NEW r \in Requests, Receive(h, r)
  PROVE  TypeInv'
  <1> DEFINE known == r.key \in confirmed
             new == [Idle EXCEPT !.req = r, !.late = known]
             next == IF ~ Admits(r) \/ r.kind = "read" THEN Idle
                     ELSE IF r.key = NoKey THEN Started(r, new)
                     ELSE [new EXCEPT !.pc = "redis"]
  <1>1. /\ job' = [job EXCEPT ![h] = next]
        /\ UNCHANGED <<book, redis, db, effects, confirmed, toldCanceled, now, faults,
                       crashes>>
        /\ sent' = sent + 1
    BY DEF Receive, stores
  <1>2. /\ rate' \in [Subjects -> Entry]
        /\ admitted' \in [Subjects -> [0 .. MaxNow -> Nat]]
    BY CountTyped DEF Receive, TypeInv
  <1>3. excused' \in [Keys -> Nat]
    <2> DEFINE K == IF Admits(r) /\ r.key \notin confirmed /\ Working(r.key) # {}
                      THEN {r.key} ELSE {}
    <2>1. Excuse(K)
      BY DEF Receive
    <2> QED
      BY <2>1, ExcuseTyped DEF TypeInv
  <1>4. /\ Idle \in Jobs /\ Idle.pc = "idle" /\ Idle.late = FALSE
        /\ new \in Jobs /\ new.req = r /\ new.late = known
        /\ Idle.answer.body # "canceled" /\ new.answer = Idle.answer
        /\ [new EXCEPT !.pc = "redis"].answer = Idle.answer
        /\ [new EXCEPT !.pc = "redis"] \in Jobs
        /\ [new EXCEPT !.pc = "redis"].pc = "redis"
        /\ [new EXCEPT !.pc = "redis"].req = r
        /\ [new EXCEPT !.pc = "redis"].late = known
    <2>1. known \in BOOLEAN
      OBVIOUS
    <2> HIDE DEF known
    <2> QED
      BY <2>1 DEF Idle, Jobs, NoAnswer, Answer
  <1>5. Keys \cap {NoKey} = {} /\ confirmed \subseteq Keys /\ r.key \in Keys \cup {NoKey}
    BY DEF TypeInv, TypeOK
  <1> HIDE DEF new
  <1>6. /\ next \in Jobs
        /\ next.pc # "idle" => next.req = r
        /\ next.pc \in {"idle", "redis", "find", "act", "storeRedis"}
        /\ next.pc \in {"redis", "storeRedis"} => r.key \in Keys
        /\ next.pc = "find" => r.kind = "cancel"
        /\ next.pc = "act" /\ r.kind = "cancel" => r.hash # NoHash
        /\ next.pc = "storeRedis" => next.answer = Answer("malformed", NoHash)
        /\ next.late => next.pc = "redis" /\ r.key \in confirmed
        /\ next.answer.body # "canceled"
    <2>1. CASE ~ Admits(r) \/ r.kind = "read"
      BY <1>4, <2>1
    <2>2. CASE Admits(r) /\ r.kind # "read" /\ r.key = NoKey
      <3>1. next = Started(r, new)
        BY <2>2
      <3> HIDE DEF next
      <3>2. \/ next.answer.body # "canceled"
            \/ next.answer = new.answer
        BY <1>4, <3>1, StartedOK
      <3>3. next.answer.body # "canceled"
        BY <1>4, <3>2
      <3>7. ~ known
        BY <1>5, <2>2
      <3> HIDE DEF known
      <3>4. ~ new.late
        BY <1>4, <3>7
      <3>5. ~ next.late
        BY <1>4, <3>1, <3>4, StartedOK
      <3>6. /\ next \in Jobs
            /\ next.pc # "idle" => next.req = r
            /\ next.pc \in {"idle", "find", "act", "storeRedis"}
            /\ next.pc = "find" => r.kind = "cancel"
            /\ next.pc = "act" /\ r.kind = "cancel" => r.hash # NoHash
            /\ next.pc = "storeRedis" =>
                 r.key \in Keys /\ next.answer = Answer("malformed", NoHash)
        BY <1>4, <3>1, StartedOK
      <3> QED
        BY <3>3, <3>5, <3>6
    <2>3. CASE Admits(r) /\ r.kind # "read" /\ r.key # NoKey
      <3>1. next = [new EXCEPT !.pc = "redis"]
        BY <2>3
      <3> QED
        BY <1>4, <1>5, <2>3, <3>1
    <2> QED
      BY <2>1, <2>2, <2>3
  <1> HIDE DEF next
  <1>7. Answer("malformed", NoHash) \in Answers
    BY DEF Answer, Answers
  <1>8. BookStep
    BY <1>1, IdleStep DEF TypeInv
  <1>9. Knows(next) /\ Late(next, confirmed') /\ Honest(next.answer, Gone')
    BY <1>1, <1>4, <1>6, <1>7 DEF Knows, Late, Honest
  <1>10. job' \in [Handlers -> Jobs] /\ JobsOK'
    BY <1>1, <1>6, <1>8, <1>9, JobMoves
  <1>11. TypeOK'
    BY <1>1, <1>2, <1>3, <1>8, <1>10 DEF TypeInv, TypeOK, BookStep, BookInv
  <1>12. AnswersOK'
    BY <1>1, <1>8 DEF TypeInv, AnswersOK, Honest, BookStep
  <1> QED
    BY <1>8, <1>10, <1>11, <1>12 DEF TypeInv, BookStep

\* What a step of a working handler has to show, beyond its own variables.
LEMMA StepTyped ==
  ASSUME TypeInv, BookStep, job' \in [Handlers -> Jobs], JobsOK', AnswersOK',
         redis' \in [Keys -> Answers \cup {NoAnswer}],
         db' \in [Keys -> Answers \cup {NoAnswer}],
         effects' \in [Keys -> Nat], excused' \in [Keys -> Nat],
         confirmed' \subseteq Keys, UNCHANGED <<limits, clock>>
  PROVE  TypeInv'
  <1>1. toldCanceled' \subseteq Hashes
    BY DEF AnswersOK, Gone, Posted
  <1>2. TypeOK'
    BY <1>1 DEF TypeInv, TypeOK, BookStep, BookInv, limits, clock
  <1> QED
    BY <1>2 DEF TypeInv, BookStep

\* The answers stay honest when neither store is written.
LEMMA StoresKept ==
  ASSUME TypeInv, BookStep, UNCHANGED <<stores, confirmed>>, toldCanceled' \subseteq Gone'
  PROVE  /\ AnswersOK'
         /\ redis' \in [Keys -> Answers \cup {NoAnswer}]
         /\ db' \in [Keys -> Answers \cup {NoAnswer}]
         /\ confirmed' \subseteq Keys /\ confirmed \subseteq confirmed'
  BY DEF TypeInv, TypeOK, AnswersOK, Honest, BookStep, stores

\* The look at Redis.
LEMMA ReadRedisTyped ==
  ASSUME TypeInv, NEW h \in Handlers, ReadRedis(h)
  PROVE  TypeInv'
  <1>1. /\ job[h] \in Jobs /\ Knows(job[h]) /\ Late(job[h], confirmed)
        /\ Honest(job[h].answer, Gone) /\ job[h].pc = "redis"
    BY DEF TypeInv, TypeOK, JobsOK, ReadRedis
  <1>2. job[h].req.key \in Keys
    BY <1>1 DEF Knows
  <1>3. BookStep /\ UNCHANGED <<stores, limits, effects, excused, confirmed, clock>>
    BY IdleStep DEF ReadRedis, TypeInv
  <1>4. job' \in [Handlers -> Jobs] /\ JobsOK' /\ toldCanceled' \subseteq Gone'
    <2> DEFINE k == job[h].req.key
               n == [job[h] EXCEPT !.pc = "db"]
    <2>1. CASE Reply(h, redis[k])
      <3>1. Honest(redis[k], Gone')
        BY <1>2, <1>3 DEF TypeInv, AnswersOK, Honest, BookStep
      <3> QED
        BY <1>3, <2>1, <3>1, ReplyOK
    <2>2. CASE job' = [job EXCEPT ![h].pc = "db"] /\ UNCHANGED toldCanceled
      <3>1. /\ n \in Jobs /\ n.pc = "db" /\ n.req = job[h].req
            /\ n.late = job[h].late /\ n.answer = job[h].answer
        BY <1>1 DEF Jobs
      <3>2. job' = [job EXCEPT ![h] = n]
        BY <2>2 DEF TypeInv, TypeOK
      <3> HIDE DEF n
      <3>3. Knows(n) /\ Late(n, confirmed') /\ Honest(n.answer, Gone')
        BY <1>1, <1>3, <3>1 DEF Knows, Late, Honest, BookStep
      <3>4. job' \in [Handlers -> Jobs] /\ JobsOK'
        BY <1>3, <3>1, <3>2, <3>3, JobMoves
      <3> QED
        BY <1>3, <2>2, <3>4 DEF TypeInv, AnswersOK, BookStep
    <2> QED
      BY <2>1, <2>2 DEF ReadRedis
  <1>5. effects' \in [Keys -> Nat] /\ excused' \in [Keys -> Nat]
    BY <1>3 DEF TypeInv, TypeOK
  <1> QED
    BY <1>3, <1>4, <1>5, StoresKept, StepTyped

\* The look at the database.
LEMMA ReadDbTyped ==
  ASSUME TypeInv, NEW h \in Handlers, ReadDb(h)
  PROVE  TypeInv'
  <1>1. /\ job[h] \in Jobs /\ Knows(job[h]) /\ Late(job[h], confirmed)
        /\ Honest(job[h].answer, Gone) /\ job[h].pc = "db"
    BY DEF TypeInv, TypeOK, JobsOK, ReadDb
  <1>2. job[h].req \in Requests /\ job[h].req.key \in Keys
    BY <1>1 DEF Knows
  <1>3. BookStep /\ UNCHANGED <<stores, limits, effects, excused, clock>>
    BY IdleStep DEF ReadDb, TypeInv
  <1>4. effects' \in [Keys -> Nat] /\ excused' \in [Keys -> Nat]
    BY <1>3 DEF TypeInv, TypeOK
  <1> DEFINE k == job[h].req.key
  <1>0. StoredAnswer(k) = db[k]
    BY StoredIsDb
  <1>5. CASE db[k] # NoAnswer /\ Reply(h, db[k]) /\ confirmed' = confirmed \cup {k}
    <2>1. Honest(db[k], Gone')
      BY <1>2, <1>3 DEF TypeInv, AnswersOK, Honest, BookStep
    <2>2. job' \in [Handlers -> Jobs] /\ JobsOK' /\ toldCanceled' \subseteq Gone'
      BY <1>3, <1>5, <2>1, ReplyOK
    <2>3. confirmed' \subseteq Keys
      BY <1>2, <1>5 DEF TypeInv, TypeOK
    <2>4. AnswersOK'
      BY <1>3, <1>5, <2>2 DEF TypeInv, AnswersOK, Honest, BookStep, stores
    <2>5. /\ redis' \in [Keys -> Answers \cup {NoAnswer}]
          /\ db' \in [Keys -> Answers \cup {NoAnswer}]
      BY <1>3 DEF stores, TypeInv, TypeOK
    <2> QED
      BY <1>3, <1>4, <2>2, <2>3, <2>4, <2>5, StepTyped
  <1>6. CASE /\ db[k] = NoAnswer
             /\ job' = [job EXCEPT ![h] = Started(job[h].req, job[h])]
             /\ UNCHANGED <<confirmed, toldCanceled>>
    <2> DEFINE n == Started(job[h].req, job[h])
    <2>1. job[h].late => job[h].req.key \in confirmed \ ShortKeys
      BY <1>1, <1>6 DEF Late, TypeInv, AnswersOK
    <2>2. /\ n \in Jobs
          /\ n.pc # "idle" => n.req = job[h].req
          /\ n.late <=> (job[h].late /\ n.pc # "idle")
          /\ n.pc \in {"idle", "find", "act", "storeRedis"}
          /\ n.pc = "find" => job[h].req.kind = "cancel"
          /\ n.pc = "act" /\ job[h].req.kind = "cancel" => job[h].req.hash # NoHash
          /\ n.pc = "storeRedis" => n.answer = Answer("malformed", NoHash)
          /\ n.answer.body # "canceled" \/ n.answer = job[h].answer
      BY <1>1, <1>2, StartedOK
    <2>3. job' = [job EXCEPT ![h] = n]
      BY <1>6
    <2>4. Answer("malformed", NoHash) \in Answers
      BY DEF Answer, Answers
    <2> HIDE DEF n
    <2>5. Knows(n) /\ Late(n, confirmed')
      BY <1>2, <1>6, <2>1, <2>2, <2>4 DEF Knows, Late
    <2>6. Honest(n.answer, Gone')
      BY <1>1, <1>3, <2>2 DEF Honest, BookStep
    <2>7. job' \in [Handlers -> Jobs] /\ JobsOK'
      BY <1>3, <1>6, <2>2, <2>3, <2>5, <2>6, JobMoves
    <2>8. toldCanceled' \subseteq Gone'
      BY <1>3, <1>6 DEF TypeInv, AnswersOK, BookStep
    <2> QED
      BY <1>3, <1>4, <1>6, <2>7, <2>8, StoresKept, StepTyped
  <1> QED
    BY <1>0, <1>5, <1>6 DEF ReadDb

\* The candidate of a cancel by maker and salt.
LEMMA FindTyped ==
  ASSUME TypeInv, NEW h \in Handlers, FindOrderByMakerSalt(h)
  PROVE  TypeInv'
  <1>1. /\ job[h] \in Jobs /\ Knows(job[h]) /\ Late(job[h], confirmed)
        /\ Honest(job[h].answer, Gone) /\ job[h].pc = "find"
    BY DEF TypeInv, TypeOK, JobsOK, FindOrderByMakerSalt
  <1>2. BookStep /\ UNCHANGED <<stores, limits, effects, excused, confirmed, clock>>
    BY IdleStep DEF FindOrderByMakerSalt, TypeInv
  <1>3. effects' \in [Keys -> Nat] /\ excused' \in [Keys -> Nat]
    BY <1>2 DEF TypeInv, TypeOK
  <1>4. job' \in [Handlers -> Jobs] /\ JobsOK' /\ toldCanceled' \subseteq Gone'
    <2>1. ASSUME NEW c \in Candidates(job[h].req.maker, job[h].req.salt),
                 job' = [job EXCEPT ![h].pc = "act", ![h].found = c],
                 UNCHANGED toldCanceled
          PROVE  job' \in [Handlers -> Jobs] /\ JobsOK' /\ toldCanceled' \subseteq Gone'
      <3> DEFINE n == [job[h] EXCEPT !.pc = "act", !.found = c]
      <3>1. c \in Hashes
        BY DEF Candidates, Posted
      <3>2. /\ n \in Jobs /\ n.pc = "act" /\ n.found = c /\ n.req = job[h].req
            /\ n.late = job[h].late /\ n.answer = job[h].answer
        BY <1>1, <3>1 DEF Jobs
      <3>3. job' = [job EXCEPT ![h] = n]
        BY <2>1 DEF TypeInv, TypeOK
      <3> HIDE DEF n
      <3>4. Knows(n) /\ Late(n, confirmed') /\ Honest(n.answer, Gone')
        BY <1>1, <1>2, <3>1, <3>2 DEF Knows, Late, Honest, BookStep
      <3>5. job' \in [Handlers -> Jobs] /\ JobsOK'
        BY <1>2, <3>2, <3>3, <3>4, JobMoves
      <3> QED
        BY <1>2, <2>1, <3>5 DEF TypeInv, AnswersOK, BookStep
    <2>2. CASE Conclude(h, Answer("notFound", NoHash))
      <3>1. /\ Answer("notFound", NoHash) \in Answers
            /\ Honest(Answer("notFound", NoHash), Gone')
        BY DEF Answer, Answers, Honest
      <3> QED
        BY <1>1, <1>2, <2>2, <3>1, ConcludeOK
    <2> QED
      BY <2>1, <2>2 DEF FindOrderByMakerSalt
  <1> QED
    BY <1>2, <1>3, <1>4, StoresKept, StepTyped

\* What every handler that acts on the orders table has to show.
LEMMA ActTyped ==
  ASSUME TypeInv, NEW h \in Handlers, job[h].pc = "act", BookStep,
         NEW a \in Answers, Conclude(h, a), Honest(a, Gone'),
         NEW took, Effective(h, took),
         UNCHANGED <<stores, limits, excused, confirmed, clock>>
  PROVE  TypeInv'
  <1>1. job' \in [Handlers -> Jobs] /\ JobsOK' /\ toldCanceled' \subseteq Gone'
    BY ConcludeOK
  <1>2. effects' \in [Keys -> Nat] /\ excused' \in [Keys -> Nat]
    BY EffectiveTyped DEF TypeInv, TypeOK
  <1> QED
    BY <1>1, <1>2, StoresKept, StepTyped

\* Posting an order.
LEMMA AddOrderTyped ==
  ASSUME TypeInv, NEW h \in Handlers, AddOrder(h)
  PROVE  TypeInv'
  <1> DEFINE o == job[h].req.order
             inserted == o.hash \notin Posted
  <1>1. job[h].pc = "act" /\ o \in Orders /\ o.hash \in Hashes
    BY DEF TypeInv, JobsOK, Knows, AddOrder
  <1>2. BookStep /\ Effective(h, inserted)
    BY <1>1, InsertOrderStep DEF AddOrder, TypeInv
  <1>3. UNCHANGED <<stores, limits, confirmed, clock>>
    BY DEF AddOrder
  <1>4. CASE /\ job' = [job EXCEPT ![h] = Idle] /\ Excuse({job[h].req.key})
             /\ UNCHANGED toldCanceled
    <2>1. job' \in [Handlers -> Jobs] /\ JobsOK'
      BY <1>2, <1>3, <1>4, IdleOK, JobMoves
    <2>2. toldCanceled' \subseteq Gone'
      BY <1>2, <1>4 DEF TypeInv, AnswersOK, BookStep
    <2>3. effects' \in [Keys -> Nat]
      BY <1>2, EffectiveTyped DEF TypeInv
    <2>4. excused' \in [Keys -> Nat]
      BY <1>4, ExcuseTyped DEF TypeInv
    <2> QED
      BY <1>2, <1>3, <2>1, <2>2, <2>3, <2>4, StoresKept, StepTyped
  <1>5. CASE Conclude(h, Answer("exists", o.hash)) /\ UNCHANGED excused
    <2>1. /\ Answer("exists", o.hash) \in Answers
          /\ Honest(Answer("exists", o.hash), Gone')
      BY <1>1 DEF Answer, Answers, Honest
    <2> QED
      BY <1>1, <1>2, <1>3, <1>5, <2>1, ActTyped
  <1> QED
    BY <1>4, <1>5 DEF AddOrder

\* Cancelling: the hash named, or the candidate found.
LEMMA CancelTyped ==
  ASSUME TypeInv, NEW h \in Handlers, Cancel(h)
  PROVE  TypeInv'
  <1> DEFINE i == IF job[h].req.hash = NoHash THEN job[h].found ELSE job[h].req.hash
             a == IF i \in Posted THEN Answer("canceled", i)
                                  ELSE Answer("notFound", NoHash)
  <1>1. job[h].pc = "act" /\ i \in Hashes
    BY DEF TypeInv, JobsOK, Knows, Cancel
  <1>2. CancelOrder(i) /\ Effective(h, i \in Posted) /\ Conclude(h, a)
    BY DEF Cancel
  <1>3. UNCHANGED <<stores, limits, excused, confirmed, clock>>
    BY DEF Cancel
  <1> HIDE DEF i
  <1>4. BookStep /\ (i \in Posted => i \in Gone')
    BY <1>1, <1>2, CancelOrderStep DEF TypeInv
  <1>5. a \in Answers /\ Honest(a, Gone')
    BY <1>1, <1>4 DEF Answer, Answers, Honest
  <1> HIDE DEF a
  <1> QED
    BY <1>1, <1>2, <1>3, <1>4, <1>5, ActTyped

\* Applying a fill.
LEMMA ApplyFillTyped ==
  ASSUME TypeInv, NEW h \in Handlers, ApplyFillRequest(h)
  PROVE  TypeInv'
  <1> DEFINE r == job[h].req
             a == Answer(IF Fits(r.hash, r.size) THEN "applied" ELSE "notApplied", r.hash)
  <1>1. job[h].pc = "act" /\ r.hash \in Hashes /\ r.size \in Nat
    BY DEF TypeInv, JobsOK, Knows, ApplyFillRequest
  <1>2. /\ ApplyFill(r.hash, r.size) /\ Effective(h, Fits(r.hash, r.size))
        /\ Conclude(h, a) /\ UNCHANGED <<stores, limits, excused, confirmed, clock>>
    BY DEF ApplyFillRequest
  <1>3. BookStep
    BY <1>1, <1>2, ApplyFillStep DEF TypeInv
  <1>4. a \in Answers /\ Honest(a, Gone')
    BY <1>1 DEF Answer, Answers, Honest
  <1> HIDE DEF a
  <1> QED
    BY <1>1, <1>2, <1>3, <1>4, ActTyped

\* Invalidating by nonce.
LEMMA InvalidateTyped ==
  ASSUME TypeInv, NEW h \in Handlers, InvalidateNonce(h)
  PROVE  TypeInv'
  <1>1. /\ job[h].pc = "act" /\ Effective(h, TRUE)
        /\ Conclude(h, Answer("ok", NoHash))
        /\ UNCHANGED <<stores, limits, excused, confirmed, clock>>
    BY DEF InvalidateNonce
  <1>2. BookStep
    BY InvalidateStep DEF TypeInv, InvalidateNonce
  <1>3. Answer("ok", NoHash) \in Answers /\ Honest(Answer("ok", NoHash), Gone')
    BY DEF Answer, Answers, Honest
  <1> QED
    BY <1>1, <1>2, <1>3, ActTyped

\* Storing the answer in Redis.
LEMMA StoreRedisTyped ==
  ASSUME TypeInv, NEW h \in Handlers, StoreRedis(h)
  PROVE  TypeInv'
  <1>1. /\ job[h] \in Jobs /\ Knows(job[h]) /\ Late(job[h], confirmed)
        /\ Honest(job[h].answer, Gone) /\ job[h].pc = "storeRedis"
    BY DEF TypeInv, TypeOK, JobsOK, StoreRedis
  <1>2. job[h].req.key \in Keys /\ job[h].answer \in Answers
    BY <1>1 DEF Knows
  <1>3. BookStep /\ UNCHANGED <<db, limits, history, clock>>
    BY IdleStep DEF StoreRedis, TypeInv
  <1>4. redis' \in {redis, [redis EXCEPT ![job[h].req.key] = job[h].answer]}
    BY DEF StoreRedis
  <1>5. redis' \in [Keys -> Answers \cup {NoAnswer}]
    BY <1>2, <1>4 DEF TypeInv, TypeOK
  <1>6. \A k \in Keys : Honest(redis'[k], Gone')
    BY <1>1, <1>2, <1>3, <1>4 DEF TypeInv, TypeOK, AnswersOK, Honest, BookStep
  <1>7. job' \in [Handlers -> Jobs] /\ JobsOK'
    <2> DEFINE n == [job[h] EXCEPT !.pc = "storeDb"]
    <2>1. /\ n \in Jobs /\ n.pc = "storeDb" /\ n.answer = job[h].answer
          /\ n.req = job[h].req /\ n.late = job[h].late
      BY <1>1 DEF Jobs
    <2>2. job' = [job EXCEPT ![h] = n]
      BY DEF StoreRedis, TypeInv, TypeOK
    <2> HIDE DEF n
    <2>3. Knows(n) /\ Late(n, confirmed') /\ Honest(n.answer, Gone')
      BY <1>1, <1>2, <1>3, <2>1 DEF Knows, Late, Honest, BookStep, history
    <2> QED
      BY <1>3, <2>1, <2>2, <2>3, JobMoves DEF history
  <1>8. AnswersOK'
    BY <1>3, <1>6 DEF TypeInv, AnswersOK, Honest, BookStep, history
  <1> QED
    BY <1>3, <1>5, <1>7, <1>8, StepTyped DEF history, TypeInv, TypeOK

\* What the database keeps of an honest answer.
LEMMA DbKeepsOK ==
  ASSUME TypeInv, NEW h \in Handlers, job[h].pc = "storeDb", BookStep
  PROVE  /\ DbKeeps(h) \in [Keys -> Answers \cup {NoAnswer}]
         /\ \A k \in Keys : Honest(DbKeeps(h)[k], Gone')
         /\ \A k \in Keys : db[k] # NoAnswer => DbKeeps(h)[k] = db[k]
         /\ \A k \in LongKeys : DbKeeps(h)[k] = NoAnswer
         /\ job[h].req.key \in Keys
         /\ job[h].req.key \in ShortKeys => DbKeeps(h)[job[h].req.key] # NoAnswer
  <1>1. /\ job[h].req.key \in Keys /\ job[h].answer \in Answers
        /\ Honest(job[h].answer, Gone)
    BY DEF TypeInv, JobsOK, Knows
  <1>2. /\ DbKeeps(h) = [k \in Keys |->
                            IF k = job[h].req.key /\ k \notin LongKeys /\ db[k] = NoAnswer
                              THEN job[h].answer ELSE db[k]]
        /\ \A k \in LongKeys : db[k] = NoAnswer
    BY DEF DbKeeps, TypeInv, AnswersOK
  <1>3. \A k \in Keys : db[k] \in Answers \cup {NoAnswer} /\ Honest(db[k], Gone)
    BY DEF TypeInv, TypeOK, AnswersOK
  <1>4. job[h].answer # NoAnswer
    BY <1>1, NoAnswerApart
  <1>5. \A k \in Keys :
          DbKeeps(h)[k] = IF k = job[h].req.key /\ k \notin LongKeys /\ db[k] = NoAnswer
                            THEN job[h].answer ELSE db[k]
    BY <1>2
  <1>6. DbKeeps(h) \in [Keys -> Answers \cup {NoAnswer}]
    BY <1>1, <1>2, <1>3
  <1>7. \A k \in Keys : Honest(DbKeeps(h)[k], Gone)
    BY <1>1, <1>3, <1>5
  <1>8. \A k \in Keys : Honest(DbKeeps(h)[k], Gone')
    BY <1>7 DEF Honest, BookStep
  <1> QED
    BY <1>1, <1>2, <1>4, <1>5, <1>6, <1>8 DEF ShortKeys

\* Storing the answer in the database, and replying.
LEMMA StoreDbTyped ==
  ASSUME TypeInv, NEW h \in Handlers, StoreDb(h)
  PROVE  TypeInv'
  <1>1. job[h].pc = "storeDb" /\ Honest(job[h].answer, Gone)
    BY DEF TypeInv, JobsOK, StoreDb
  <1>2. /\ BookStep /\ UNCHANGED <<redis, limits, effects, excused, clock>>
        /\ db' = DbKeeps(h) /\ Reply(h, job[h].answer)
        /\ confirmed' = confirmed \cup {job[h].req.key}
    BY IdleStep DEF StoreDb, TypeInv
  <1>3. job' \in [Handlers -> Jobs] /\ JobsOK' /\ toldCanceled' \subseteq Gone'
    <2>1. Honest(job[h].answer, Gone')
      BY <1>1, <1>2 DEF Honest, BookStep
    <2> QED
      BY <1>2, <2>1, ReplyOK
  <1>4. AnswersOK' /\ confirmed' \subseteq Keys
    <2>1. \A k \in Keys : Honest(redis'[k], Gone')
      BY <1>2 DEF TypeInv, AnswersOK, Honest, BookStep
    <2>2. \A k \in Keys : Honest(db'[k], Gone')
      BY <1>1, <1>2, DbKeepsOK
    <2>3. /\ job[h].req.key \in Keys
          /\ job[h].req.key \in ShortKeys => db'[job[h].req.key] # NoAnswer
          /\ \A k \in Keys : db[k] # NoAnswer => db'[k] # NoAnswer
          /\ \A k \in LongKeys : db'[k] = NoAnswer
      BY <1>1, <1>2, DbKeepsOK
    <2>4. /\ confirmed \subseteq Keys
          /\ \A k \in confirmed \cap ShortKeys : db[k] # NoAnswer
      BY DEF TypeInv, TypeOK, AnswersOK
    <2>5. /\ confirmed' \subseteq Keys
          /\ \A k \in confirmed' \cap ShortKeys : db'[k] # NoAnswer
          /\ \A k \in LongKeys : db'[k] = NoAnswer
      BY <1>2, <2>3, <2>4
    <2> QED
      BY <1>3, <2>1, <2>2, <2>5 DEF AnswersOK
  <1>5. db' \in [Keys -> Answers \cup {NoAnswer}]
    BY <1>1, <1>2, DbKeepsOK
  <1> QED
    BY <1>2, <1>3, <1>4, <1>5, StepTyped DEF TypeInv, TypeOK

\* A query that fails.
LEMMA QueryFailsTyped ==
  ASSUME TypeInv, NEW h \in Handlers, QueryFails(h)
  PROVE  TypeInv'
  <1>1. /\ BookStep /\ job' = [job EXCEPT ![h] = Idle] /\ faults' = faults + 1
        /\ UNCHANGED <<redis, limits, effects, confirmed, toldCanceled, now, sent,
                       crashes>>
    BY IdleStep DEF QueryFails, TypeInv
  <1>2. job' \in [Handlers -> Jobs] /\ JobsOK'
    BY <1>1, IdleOK, JobMoves
  <1>3. /\ db' \in [Keys -> Answers \cup {NoAnswer}]
        /\ \A k \in Keys : Honest(db'[k], Gone')
        /\ \A k \in Keys : db[k] # NoAnswer => db'[k] = db[k]
        /\ \A k \in LongKeys : db'[k] = NoAnswer
    <2>1. CASE db' = db
      BY <1>1, <2>1 DEF TypeInv, TypeOK, AnswersOK, Honest, BookStep
    <2>2. CASE job[h].pc = "storeDb" /\ db' = DbKeeps(h)
      BY <1>1, <2>2, DbKeepsOK
    <2> QED
      BY <2>1, <2>2 DEF QueryFails
  <1>4. excused' \in [Keys -> Nat]
    <2> DEFINE K == IF HasActed(h) THEN {job[h].req.key} ELSE {}
    <2>1. Excuse(K)
      BY DEF QueryFails
    <2> QED
      BY <2>1, ExcuseTyped DEF TypeInv
  <1>5. AnswersOK'
    BY <1>1, <1>3 DEF TypeInv, TypeOK, AnswersOK, Honest, BookStep
  <1>6. TypeOK'
    BY <1>1, <1>2, <1>3, <1>4, <1>5 DEF TypeInv, TypeOK, BookStep, BookInv, limits
  <1> QED
    BY <1>1, <1>2, <1>5, <1>6 DEF TypeInv, BookStep

\* The end of the process.
LEMMA CrashTyped == ASSUME TypeInv, Crash PROVE TypeInv'
  <1>1. /\ BookStep /\ job' = [h \in Handlers |-> Idle]
        /\ rate' = [s \in Subjects |-> NoEntry]
        /\ faults' = faults + 1 /\ crashes' = crashes + 1
        /\ UNCHANGED <<stores, admitted, effects, confirmed, toldCanceled, now, sent>>
    BY IdleStep DEF Crash, TypeInv
  <1>2. job' \in [Handlers -> Jobs] /\ JobsOK'
    BY <1>1, IdleOK DEF JobsOK, Knows
  <1>3. excused' \in [Keys -> Nat]
    <2> DEFINE K == {job[h].req.key : h \in {g \in Handlers : HasActed(g)}}
    <2>1. Excuse(K)
      BY DEF Crash
    <2> QED
      BY <2>1, ExcuseTyped DEF TypeInv
  <1>4. rate' \in [Subjects -> Entry]
    BY <1>1 DEF NoEntry, Entry
  <1>5. AnswersOK'
    BY <1>1 DEF TypeInv, AnswersOK, Honest, BookStep, stores
  <1>6. TypeOK'
    <2>1. TypeOK /\ BookTypeOK' /\ crashes' \in Nat /\ faults' \in Nat
      BY <1>1 DEF TypeInv, TypeOK, BookStep, BookInv, Crash
    <2> QED
      BY <1>1, <1>2, <1>3, <1>4, <2>1 DEF TypeOK, stores
  <1> QED
    BY <1>1, <1>2, <1>5, <1>6 DEF TypeInv, BookStep

\* A tick of the clock.
LEMMA TickTyped == ASSUME TypeInv, Tick PROVE TypeInv'
  <1>1. /\ now < MaxNow /\ now' = now + 1 /\ BookStep
        /\ UNCHANGED <<stores, job, limits, history, sent, faults, crashes>>
    BY IdleStep DEF Tick, TypeInv
  <1>2. now' \in 0 .. MaxNow
    BY <1>1 DEF TypeInv, TypeOK
  <1>3. AnswersOK' /\ JobsOK'
    BY <1>1 DEF TypeInv, AnswersOK, JobsOK, Knows, Honest, BookStep, stores, history
  <1>4. TypeOK'
    BY <1>1, <1>2 DEF TypeInv, TypeOK, BookStep, BookInv, stores, limits, history
  <1> QED
    BY <1>1, <1>3, <1>4 DEF TypeInv, BookStep

\* Every step of the matcher is a step of the orders table.
LEMMA NextIsBookStep == ASSUME TypeInv, [Next]_vars PROVE BookStep
  <1>1. CASE UNCHANGED book
    BY <1>1, IdleStep DEF TypeInv
  <1>2. ASSUME NEW h \in Handlers, AddOrder(h) PROVE BookStep
    <2>1. job[h].req.order \in Orders /\ InsertOrder(job[h].req.order)
      BY <1>2 DEF TypeInv, JobsOK, Knows, AddOrder
    <2> QED
      BY <2>1, InsertOrderStep DEF TypeInv
  <1>3. ASSUME NEW h \in Handlers, Cancel(h) PROVE BookStep
    <2> DEFINE i == IF job[h].req.hash = NoHash THEN job[h].found
                                                ELSE job[h].req.hash
    <2>1. i \in Hashes /\ CancelOrder(i)
      BY <1>3 DEF TypeInv, JobsOK, Knows, Cancel
    <2> QED
      BY <2>1, CancelOrderStep DEF TypeInv
  <1>4. ASSUME NEW h \in Handlers, ApplyFillRequest(h) PROVE BookStep
    <2>1. /\ job[h].req.hash \in Hashes /\ job[h].req.size \in Nat
          /\ ApplyFill(job[h].req.hash, job[h].req.size)
      BY <1>4 DEF TypeInv, JobsOK, Knows, ApplyFillRequest
    <2> QED
      BY <2>1, ApplyFillStep DEF TypeInv
  <1>5. ASSUME NEW h \in Handlers, InvalidateNonce(h) PROVE BookStep
    BY <1>5, InvalidateStep DEF TypeInv, InvalidateNonce
  <1>6. ASSUME NEW h \in Handlers, Step(h)
        PROVE  \/ UNCHANGED book
               \/ AddOrder(h) \/ Cancel(h) \/ ApplyFillRequest(h) \/ InvalidateNonce(h)
    BY <1>6 DEF Step, Receive, ReadRedis, ReadDb, FindOrderByMakerSalt, StoreRedis,
                StoreDb, QueryFails
  <1>7. Next \/ UNCHANGED book
    BY DEF vars
  <1>8. CASE Crash \/ Tick
    BY <1>1, <1>8 DEF Crash, Tick
  <1> QED
    BY <1>1, <1>2, <1>3, <1>4, <1>5, <1>6, <1>7, <1>8 DEF Next

\* No step breaks the invariant.
LEMMA TypeStep == ASSUME TypeInv, [Next]_vars PROVE TypeInv'
  <1>1. CASE UNCHANGED vars
    <2>1. BookStep /\ UNCHANGED <<stores, job, limits, history, clock>>
      BY <1>1, IdleStep DEF vars, TypeInv
    <2>2. AnswersOK' /\ JobsOK'
      BY <2>1 DEF TypeInv, AnswersOK, JobsOK, Knows, Honest, BookStep, stores, history
    <2>3. TypeOK'
      BY <2>1 DEF TypeInv, TypeOK, BookStep, BookInv, stores, limits, history, clock
    <2> QED
      BY <2>1, <2>2, <2>3 DEF TypeInv, BookStep
  <1>2. CASE Crash \/ Tick
    BY <1>2, CrashTyped, TickTyped
  <1>3. ASSUME NEW h \in Handlers, Step(h) PROVE TypeInv'
    BY <1>3, ReceiveTyped, ReadRedisTyped, ReadDbTyped, FindTyped, AddOrderTyped,
       CancelTyped, ApplyFillTyped, InvalidateTyped, StoreRedisTyped, StoreDbTyped,
       QueryFailsTyped DEF Step
  <1> QED
    BY <1>1, <1>2, <1>3 DEF Next

\* The invariant holds throughout.
THEOREM TypeInvariant == Spec => []TypeInv
  BY InitTyped, TypeStep, PTL DEF Spec

\* The variables of the matcher keep their types: whatever fills and cancels
\* interleave, remaining_size never goes below zero.
THEOREM TypeCorrect == Spec => []TypeOK
  <1>1. TypeInv => TypeOK
    BY DEF TypeInv
  <1> QED
    BY <1>1, TypeInvariant, PTL

\* An order that a client was told is cancelled is out of the book and stays
\* out.
THEOREM CanceledStaysGone == Spec => []CanceledMeansGone
  <1>1. TypeInv => CanceledMeansGone
    BY DEF TypeInv, AnswersOK, CanceledMeansGone, Gone
  <1> QED
    BY <1>1, TypeInvariant, PTL

\* A request whose key has at most 128 characters and was answered before it
\* came in never acts on the orders table, whatever Redis lost.
THEOREM RetrySafe == Spec => []RetryIsSafe
  <1>1. TypeInv => RetryIsSafe
    <2> SUFFICES ASSUME TypeInv, NEW h \in Handlers, ActsAgain(h)
                 PROVE  job[h].req.key \in LongKeys
      BY DEF RetryIsSafe
    <2>1. job[h].req.key \in Keys /\ job[h].req.key \notin ShortKeys
      BY DEF TypeInv, TypeOK, JobsOK, Late, ActsAgain
    <2> QED
      BY <2>1 DEF ShortKeys
  <1> QED
    BY <1>1, TypeInvariant, PTL

\* The orders table under the matcher implements OrderLifecycle: no order is
\* filled beyond the size its maker signed, and a dead order stays dead.
THEOREM OrdersImplementLifecycle == Spec => OrdersKeepPromise
  <1>1. Init => Lifecycle!Init
    BY DEF Init, Lifecycle!Init, Gone, Posted
  <1>2. TypeInv /\ [Next]_vars => [Lifecycle!Next]_(Lifecycle!vars)
    BY NextIsBookStep DEF BookStep
  <1> QED
    BY <1>1, <1>2, TypeInvariant, PTL DEF Spec, OrdersKeepPromise, Lifecycle!Spec

(***************************************************************************)
(* Effects of a key.                                                       *)
(***************************************************************************)
\* A request that may still act, and whose key was not answered before it came
\* in.
ReadyJob(j, k) == j.pc \in {"redis", "db", "find", "act"} /\ j.req.key = k /\ ~ j.late
Ready(J, k) == {h \in Handlers : ReadyJob(J[h], k)}

\* Every request that may still act has an effect left to it.
EffectInv ==
  \A k \in ShortKeys : /\ effects[k] + Cardinality(Ready(job, k)) <= 1 + excused[k]
                       /\ k \notin confirmed /\ Working(k) = {}
                            => effects[k] <= excused[k]

Room(j, k) == IF ReadyJob(j, k) THEN 1 ELSE 0

\* There are finitely many requests at work.
LEMMA ReadyFinite ==
  ASSUME NEW J, NEW k
  PROVE  IsFiniteSet(Ready(J, k)) /\ Cardinality(Ready(J, k)) \in Nat
  <1>1. Ready(J, k) \in SUBSET Handlers
    BY DEF Ready
  <1>2. IsFiniteSet(Ready(J, k))
    BY <1>1, FS_Subset
  <1> QED
    BY <1>2, FS_CardinalityType

\* A request that may still act has room for its effect.
LEMMA ReadyHasRoom ==
  ASSUME TypeInv, EffectInv, NEW k \in ShortKeys, NEW h \in Handlers, ReadyJob(job[h], k)
  PROVE  effects[k] <= excused[k]
  <1>1. Cardinality(Ready(job, k)) # 0
    <2>1. Ready(job, k) # {}
      BY DEF Ready
    <2> QED
      BY <2>1, ReadyFinite, FS_EmptySet
  <1>2. effects[k] \in Nat /\ excused[k] \in Nat
    BY DEF TypeInv, TypeOK
  <1>3. Cardinality(Ready(job, k)) \in Nat
    BY ReadyFinite
  <1> QED
    BY <1>1, <1>2, <1>3 DEF EffectInv

\* One handler moves: the others are as ready as they were.
LEMMA ReadyMove ==
  ASSUME NEW h \in Handlers, NEW k,
         \A g \in Handlers \ {h} : job'[g] = job[g]
  PROVE  Cardinality(Ready(job', k)) + Room(job[h], k) = Cardinality(Ready(job, k)) + Room(job'[h], k)
  <1>0. /\ IsFiniteSet(Ready(job, k)) /\ Cardinality(Ready(job, k)) \in Nat
        /\ Cardinality(Ready(job', k)) \in Nat
    BY ReadyFinite
  <1>1. CASE ReadyJob(job[h], k) /\ ~ ReadyJob(job'[h], k)
    <2>1. Ready(job', k) = Ready(job, k) \ {h} /\ h \in Ready(job, k)
      BY <1>1 DEF Ready
    <2>2. Cardinality(Ready(job', k)) = Cardinality(Ready(job, k)) - 1
      <3>1. Cardinality(Ready(job, k) \ {h}) = Cardinality(Ready(job, k)) - 1
        BY <1>0, <2>1, FS_RemoveElement
      <3> QED
        BY <2>1, <3>1
    <2>3. Room(job[h], k) = 1 /\ Room(job'[h], k) = 0
      BY <1>1 DEF Room
    <2> QED
      BY <1>0, <2>2, <2>3
  <1>2. CASE ~ ReadyJob(job[h], k) /\ ReadyJob(job'[h], k)
    <2>1. Ready(job', k) = Ready(job, k) \cup {h} /\ h \notin Ready(job, k)
      BY <1>2 DEF Ready
    <2>2. Cardinality(Ready(job', k)) = Cardinality(Ready(job, k)) + 1
      BY <1>0, <2>1, FS_AddElement
    <2>3. Room(job[h], k) = 0 /\ Room(job'[h], k) = 1
      BY <1>2 DEF Room
    <2> QED
      BY <1>0, <2>2, <2>3
  <1>3. CASE \/ ReadyJob(job[h], k) /\ ReadyJob(job'[h], k)
             \/ ~ ReadyJob(job[h], k) /\ ~ ReadyJob(job'[h], k)
    <2>1. Ready(job', k) = Ready(job, k)
      BY <1>3 DEF Ready
    <2>2. Room(job[h], k) = Room(job'[h], k)
      BY <1>3 DEF Room
    <2> QED
      BY <1>0, <2>1, <2>2
  <1> QED
    BY <1>1, <1>2, <1>3

\* The effect of a step of h to n uses the room of its request, or is excused.
Pays(h, n) ==
  \A k \in ShortKeys :
    /\ effects'[k] + excused[k] + Room(n, k)
         <= effects[k] + excused'[k] + Room(job[h], k)
    /\ k # job[h].req.key => effects'[k] = effects[k] /\ excused'[k] = excused[k]
    /\ k = job[h].req.key /\ n.pc = "idle" /\ k \notin confirmed'
         => effects'[k] <= excused'[k]

\* A handler moves on with its request, or is done with it.
LEMMA EffectMove ==
  ASSUME TypeInv, TypeInv', EffectInv, NEW h \in Handlers, NEW n,
         job[h].pc # "idle", job' = [job EXCEPT ![h] = n],
         n.pc = "idle" \/ n.req = job[h].req,
         confirmed \subseteq confirmed',
         Pays(h, n)
  PROVE  EffectInv'
  <1> SUFFICES ASSUME NEW k \in ShortKeys
               PROVE  /\ effects'[k] + Cardinality(Ready(job', k)) <= 1 + excused'[k]
                      /\ k \notin confirmed' /\ Working(k)' = {}
                           => effects'[k] <= excused'[k]
    BY DEF EffectInv
  <1>0. \A g \in Handlers : job'[g] = IF g = h THEN n ELSE job[g]
    BY DEF TypeInv, TypeOK
  <1>1. /\ effects[k] \in Nat /\ excused[k] \in Nat
        /\ effects'[k] \in Nat /\ excused'[k] \in Nat
    BY DEF TypeInv, TypeOK
  <1>2. effects'[k] + Cardinality(Ready(job', k)) <= 1 + excused'[k]
    <2>2. effects[k] + Cardinality(Ready(job, k)) <= 1 + excused[k]
      BY DEF EffectInv
    <2>3. Cardinality(Ready(job, k)) \in Nat /\ Cardinality(Ready(job', k)) \in Nat
      BY ReadyFinite
    <2>4. Room(n, k) \in Nat /\ Room(job[h], k) \in Nat
      BY DEF Room
    <2>1. Cardinality(Ready(job', k)) + Room(job[h], k)
            = Cardinality(Ready(job, k)) + Room(n, k)
      <3>1. \A g \in Handlers \ {h} : job'[g] = job[g]
        BY <1>0
      <3>2. job'[h] = n
        BY <1>0
      <3>3. Cardinality(Ready(job', k)) + Room(job[h], k)
              = Cardinality(Ready(job, k)) + Room(job'[h], k)
        BY <3>1, ReadyMove
      <3> QED
        BY <3>2, <3>3
    <2>5. effects'[k] + excused[k] + Room(n, k) <= effects[k] + excused'[k] + Room(job[h], k)
      BY DEF Pays
    <2> QED
      BY <1>1, <2>1, <2>2, <2>3, <2>4, <2>5
  <1>3. ASSUME k \notin confirmed', Working(k)' = {} PROVE effects'[k] <= excused'[k]
    <2>2. CASE k = job[h].req.key
      <3>1. n.pc = "idle"
        BY <1>0, <1>3, <2>2 DEF Working
      <3> QED
        BY <1>3, <2>2, <3>1 DEF Pays
    <2>3. CASE k # job[h].req.key
      <3>1. Working(k) = {}
        BY <1>0, <1>3, <2>3 DEF Working
      <3> QED
        BY <1>3, <2>3, <3>1 DEF EffectInv, Pays
    <2> QED
      BY <2>2, <2>3
  <1> QED
    BY <1>2, <1>3

\* The request of h goes on at n, or is done.
PassesOn(h, n) == /\ job[h].pc \in {"redis", "db", "find", "act"}
                  /\ n.pc = "idle" \/ n.req = job[h].req
                  /\ n.pc # "idle" /\ job[h].late => n.late

\* A request that has not acted yet goes on, or is done, without an effect.
LEMMA EffectPassOn ==
  ASSUME TypeInv, TypeInv', EffectInv, NEW h \in Handlers, NEW n,
         job' = [job EXCEPT ![h] = n], PassesOn(h, n), confirmed \subseteq confirmed',
         effects' = effects, excused' = excused
  PROVE  EffectInv'
  <1> SUFFICES ASSUME NEW k \in ShortKeys
               PROVE  /\ effects[k] + excused[k] + Room(n, k)
                           <= effects[k] + excused[k] + Room(job[h], k)
                      /\ k = job[h].req.key /\ n.pc = "idle" /\ k \notin confirmed'
                           => effects[k] <= excused[k]
    <2>1. SUFFICES Pays(h, n)
      BY EffectMove DEF PassesOn
    <2> QED
      BY DEF Pays
  <1>1. effects[k] \in Nat /\ excused[k] \in Nat
    BY DEF TypeInv, TypeOK
  <1>2. ReadyJob(n, k) => ReadyJob(job[h], k)
    BY DEF ReadyJob, PassesOn
  <1>3. Room(n, k) <= Room(job[h], k) /\ Room(n, k) \in Nat /\ Room(job[h], k) \in Nat
    BY <1>2 DEF Room
  <1>4. ASSUME k = job[h].req.key, k \notin confirmed PROVE effects[k] <= excused[k]
    <2>1. ReadyJob(job[h], k)
      BY <1>4 DEF PassesOn, ReadyJob, TypeInv, JobsOK, Late
    <2> QED
      BY <2>1, ReadyHasRoom
  <1> QED
    BY <1>1, <1>3, <1>4

\* A request acts and takes effect at most once.
LEMMA EffectAct ==
  ASSUME TypeInv, TypeInv', EffectInv, NEW h \in Handlers, job[h].pc = "act",
         NEW took, Effective(h, took), NEW a, Conclude(h, a),
         UNCHANGED <<excused, confirmed>>
  PROVE  EffectInv'
  <1> DEFINE n == IF job[h].req.key = NoKey
                    THEN Idle
                    ELSE [job[h] EXCEPT !.pc = "storeRedis", !.answer = a]
  <1>1. job[h] \in Jobs /\ (job[h].req.key \in ShortKeys => ~ job[h].late)
    BY DEF TypeInv, TypeOK, JobsOK, Late
  <1>2. job' = [job EXCEPT ![h] = n]
    <2>1. job \in [Handlers -> Jobs]
      BY DEF TypeInv, TypeOK
    <2> QED
      BY <2>1 DEF Conclude, Reply
  <1>3. /\ n.pc \in {"idle", "storeRedis"}
        /\ n.pc = "idle" \/ n.req = job[h].req
        /\ n.pc = "idle" => job[h].req.key = NoKey
    BY <1>1 DEF Jobs, Idle
  <1> HIDE DEF n
  <1>4. ASSUME NEW k \in ShortKeys
        PROVE  /\ effects'[k] + excused[k] + Room(n, k)
                    <= effects[k] + excused'[k] + Room(job[h], k)
               /\ k # job[h].req.key => effects'[k] = effects[k] /\ excused'[k] = excused[k]
               /\ k = job[h].req.key => n.pc # "idle"
    <2>1. /\ effects[k] \in Nat /\ excused[k] \in Nat
          /\ effects'[k] \in {effects[k], effects[k] + 1}
          /\ k # job[h].req.key => effects'[k] = effects[k]
      BY DEF TypeInv, TypeOK, Effective
    <2>2. Room(n, k) = 0
      BY <1>3 DEF Room, ReadyJob
    <2>3. Room(job[h], k) = IF k = job[h].req.key THEN 1 ELSE 0
      BY <1>1 DEF Room, ReadyJob
    <2> QED
      BY <1>3, <2>1, <2>2, <2>3
  <1>5. Pays(h, n)
    BY <1>4 DEF Pays
  <1> QED
    BY <1>2, <1>3, <1>5, EffectMove

\* A request that inserted a row ends in a 500 and loses its answer.
LEMMA EffectInserted ==
  ASSUME TypeInv, TypeInv', EffectInv, NEW h \in Handlers, job[h].pc = "act",
         NEW took, Effective(h, took), Excuse({job[h].req.key}),
         job' = [job EXCEPT ![h] = Idle], UNCHANGED confirmed
  PROVE  EffectInv'
  <1>1. job[h].req.key \in ShortKeys => ~ job[h].late
    BY DEF TypeInv, JobsOK, Late
  <1>2. Idle.pc = "idle"
    BY DEF Idle
  <1>3. ASSUME NEW k \in ShortKeys
        PROVE  /\ effects'[k] + excused[k] + Room(Idle, k)
                    <= effects[k] + excused'[k] + Room(job[h], k)
               /\ k # job[h].req.key => effects'[k] = effects[k] /\ excused'[k] = excused[k]
               /\ k = job[h].req.key => effects'[k] <= excused'[k]
    <2>1. /\ effects[k] \in Nat /\ excused[k] \in Nat
          /\ effects'[k] \in {effects[k], effects[k] + 1}
          /\ k # job[h].req.key => effects'[k] = effects[k] /\ excused'[k] = excused[k]
          /\ k = job[h].req.key => excused'[k] = excused[k] + 1
      BY DEF TypeInv, TypeOK, Effective, Excuse
    <2>2. Room(Idle, k) = 0 /\ Room(job[h], k) \in Nat
      BY <1>2 DEF Room, ReadyJob
    <2>3. k = job[h].req.key => effects[k] <= excused[k]
      BY <1>1, ReadyHasRoom DEF ReadyJob
    <2> QED
      BY <2>1, <2>2, <2>3
  <1>4. Pays(h, Idle)
    BY <1>3 DEF Pays
  <1> QED
    BY <1>2, <1>4, EffectMove

\* A request that fails after it acted loses its answer.
LEMMA EffectLost ==
  ASSUME TypeInv, TypeInv', EffectInv, NEW h \in Handlers, HasActed(h),
         Excuse({job[h].req.key}), job' = [job EXCEPT ![h] = Idle],
         UNCHANGED <<effects, confirmed>>
  PROVE  EffectInv'
  <1>1. Idle.pc = "idle" /\ job[h].pc \in {"storeRedis", "storeDb"}
    BY DEF Idle, HasActed
  <1>2. ASSUME NEW k \in ShortKeys
        PROVE  /\ effects'[k] + excused[k] + Room(Idle, k)
                    <= effects[k] + excused'[k] + Room(job[h], k)
               /\ k # job[h].req.key => effects'[k] = effects[k] /\ excused'[k] = excused[k]
               /\ k = job[h].req.key => effects'[k] <= excused'[k]
    <2>1. /\ effects[k] \in Nat /\ excused[k] \in Nat /\ effects'[k] = effects[k]
          /\ k # job[h].req.key => excused'[k] = excused[k]
          /\ k = job[h].req.key => excused'[k] = excused[k] + 1
      BY DEF TypeInv, TypeOK, Excuse
    <2>2. Room(Idle, k) = 0 /\ Room(job[h], k) = 0
      BY <1>1 DEF Room, ReadyJob
    <2>3. effects[k] <= 1 + excused[k]
      BY <2>1, ReadyFinite DEF EffectInv
    <2> QED
      BY <2>1, <2>2, <2>3
  <1>3. Pays(h, Idle)
    BY <1>2 DEF Pays
  <1> QED
    BY <1>1, <1>3, EffectMove

\* A request that comes in becomes what the handler works on, if it is admitted,
\* and remembers whether its key was answered before.
LEMMA ReceiveMove ==
  ASSUME TypeInv, NEW h \in Handlers, NEW r \in Requests, Receive(h, r)
  PROVE  \E n : /\ job' = [job EXCEPT ![h] = n]
                /\ n.pc # "idle" => Admits(r) /\ n.req = r
                /\ n.pc # "idle" /\ r.key \in confirmed => n.late \/ r.key = NoKey
  <1> DEFINE known == r.key \in confirmed
             new == [Idle EXCEPT !.req = r, !.late = known]
  <1>1. /\ new \in Jobs /\ new.req = r /\ Idle.pc = "idle"
        /\ [new EXCEPT !.pc = "redis"].req = r
        /\ [new EXCEPT !.pc = "redis"].late = known
    <2>1. known \in BOOLEAN
      OBVIOUS
    <2> HIDE DEF known
    <2> QED
      BY <2>1 DEF Idle, Jobs, NoAnswer, Answer
  <1>2. job' = [job EXCEPT ![h] =
                  IF ~ Admits(r) \/ r.kind = "read" THEN Idle
                  ELSE IF r.key = NoKey THEN Started(r, new)
                  ELSE [new EXCEPT !.pc = "redis"]]
    BY DEF Receive
  <1>3. CASE ~ Admits(r) \/ r.kind = "read"
    BY <1>1, <1>2, <1>3
  <1>4. CASE Admits(r) /\ r.kind # "read" /\ r.key = NoKey
    <2>1. job' = [job EXCEPT ![h] = Started(r, new)]
      BY <1>2, <1>4
    <2>2. Started(r, new).pc # "idle" => Started(r, new).req = r
      BY <1>1, StartedOK
    <2> QED
      BY <1>4, <2>1, <2>2
  <1>5. CASE Admits(r) /\ r.kind # "read" /\ r.key # NoKey
    <2>1. job' = [job EXCEPT ![h] = [new EXCEPT !.pc = "redis"]]
      BY <1>2, <1>5
    <2> QED
      BY <1>1, <1>5, <2>1
  <1> QED
    BY <1>3, <1>4, <1>5

\* A request that comes in: its key gets room only if nobody else may use it,
\* or the overlap is excused.
LEMMA EffectReceive ==
  ASSUME TypeInv, TypeInv', EffectInv, NEW h \in Handlers, NEW r \in Requests,
         Receive(h, r)
  PROVE  EffectInv'
  <1>1. PICK n : /\ job' = [job EXCEPT ![h] = n]
                 /\ n.pc # "idle" => Admits(r) /\ n.req = r
                 /\ n.pc # "idle" /\ r.key \in confirmed => n.late \/ r.key = NoKey
    BY ReceiveMove
  <1>2. /\ job[h].pc = "idle" /\ UNCHANGED <<effects, confirmed>>
        /\ Excuse(IF Admits(r) /\ r.key \notin confirmed /\ Working(r.key) # {}
                    THEN {r.key} ELSE {})
    BY DEF Receive
  <1>3. ASSUME NEW k \in ShortKeys
        PROVE  /\ effects'[k] + Cardinality(Ready(job', k)) <= 1 + excused'[k]
               /\ k \notin confirmed' /\ Working(k)' = {} => effects'[k] <= excused'[k]
    <2>0. \A g \in Handlers : job'[g] = IF g = h THEN n ELSE job[g]
      BY <1>1 DEF TypeInv, TypeOK
    <2>1. /\ effects[k] \in Nat /\ excused[k] \in Nat /\ effects'[k] = effects[k]
          /\ excused'[k] \in {excused[k], excused[k] + 1}
          /\ (k = r.key /\ Admits(r) /\ k \notin confirmed /\ Working(k) # {})
               => excused'[k] = excused[k] + 1
      BY <1>2 DEF Excuse, TypeInv, TypeOK
    <2>2. /\ effects[k] + Cardinality(Ready(job, k)) <= 1 + excused[k]
          /\ k \notin confirmed /\ Working(k) = {} => effects[k] <= excused[k]
          /\ Cardinality(Ready(job, k)) \in Nat /\ Cardinality(Ready(job', k)) \in Nat
      BY ReadyFinite DEF EffectInv
    <2>3. Cardinality(Ready(job', k)) = Cardinality(Ready(job, k)) + Room(n, k)
      <3>1. \A g \in Handlers \ {h} : job'[g] = job[g]
        BY <2>0
      <3>2. job'[h] = n /\ Room(job[h], k) = 0
        BY <1>2, <2>0 DEF Room, ReadyJob
      <3>3. Cardinality(Ready(job', k)) + Room(job[h], k)
              = Cardinality(Ready(job, k)) + Room(job'[h], k)
        BY <3>1, ReadyMove
      <3> QED
        BY <2>2, <3>2, <3>3
    <2>4. k \notin confirmed' /\ Working(k)' = {} => effects'[k] <= excused'[k]
      <3> SUFFICES ASSUME k \notin confirmed', Working(k)' = {} PROVE effects'[k] <= excused'[k]
        OBVIOUS
      <3>1. Working(k) = {}
        BY <1>2, <2>0 DEF Working
      <3> QED
        BY <1>2, <2>1, <2>2, <3>1
    <2>5. CASE ~ ReadyJob(n, k)
      BY <2>1, <2>2, <2>3, <2>4, <2>5 DEF Room
    <2>6. CASE ReadyJob(n, k)
      <3>1. k = r.key /\ Admits(r) /\ k \notin confirmed /\ Room(n, k) = 1
        BY <1>1, <2>6 DEF ReadyJob, Room
      <3>2. CASE Working(k) # {}
        BY <2>1, <2>2, <2>3, <2>4, <3>1, <3>2
      <3>3. CASE Working(k) = {}
        <4>1. Ready(job, k) = {}
          BY <3>3 DEF Ready, ReadyJob, Working
        <4>2. Cardinality(Ready(job, k)) = 0
          BY <4>1, FS_EmptySet
        <4> QED
          BY <2>1, <2>2, <2>3, <2>4, <3>1, <3>3, <4>2
      <3> QED
        BY <3>2, <3>3
    <2> QED
      BY <2>5, <2>6
  <1> QED
    BY <1>3 DEF EffectInv

\* The end of the process: what had not acted never does, and what had is
\* excused.
LEMMA EffectCrash == ASSUME TypeInv, TypeInv', EffectInv, Crash PROVE EffectInv'
  <1> SUFFICES ASSUME NEW k \in ShortKeys
               PROVE  /\ effects'[k] + Cardinality(Ready(job', k)) <= 1 + excused'[k]
                      /\ k \notin confirmed' => effects'[k] <= excused'[k]
    BY DEF EffectInv
  <1>1. /\ \A h \in Handlers : job'[h] = Idle
        /\ effects' = effects /\ confirmed' = confirmed
        /\ Excuse({job[h].req.key : h \in {g \in Handlers : HasActed(g)}})
    BY DEF Crash
  <1>2. /\ effects[k] \in Nat /\ excused[k] \in Nat
        /\ excused'[k] \in {excused[k], excused[k] + 1}
        /\ (\E h \in Handlers : HasActed(h) /\ job[h].req.key = k)
             => excused'[k] = excused[k] + 1
    BY <1>1 DEF Excuse, TypeInv, TypeOK
  <1>3. Cardinality(Ready(job', k)) = 0
    <2>1. Ready(job', k) = {}
      BY <1>1 DEF Ready, ReadyJob, Idle
    <2> QED
      BY <2>1, FS_EmptySet
  <1>4. /\ effects[k] <= 1 + excused[k]
        /\ k \notin confirmed /\ Working(k) = {} => effects[k] <= excused[k]
    BY <1>2, ReadyFinite DEF EffectInv
  <1>5. ASSUME k \notin confirmed PROVE effects[k] <= excused'[k]
    <2>1. CASE Working(k) = {}
      BY <1>2, <1>4, <1>5, <2>1
    <2>2. CASE \E h \in Handlers : HasActed(h) /\ job[h].req.key = k
      BY <1>2, <1>4, <2>2
    <2>3. CASE \E h \in Working(k) : ~ HasActed(h)
      <3>1. PICK h \in Working(k) : ~ HasActed(h)
        BY <2>3
      <3>2. h \in Handlers /\ ReadyJob(job[h], k)
        BY <1>5, <3>1 DEF Working, HasActed, ReadyJob, TypeInv, TypeOK, JobsOK, Late, Jobs
      <3> QED
        BY <1>2, <3>2, ReadyHasRoom
    <2> QED
      BY <2>1, <2>2, <2>3 DEF Working
  <1> QED
    BY <1>1, <1>2, <1>3, <1>4, <1>5

\* A handler that concludes passes its request on, or is done.
LEMMA ConcludeMove ==
  ASSUME TypeInv, NEW h \in Handlers, NEW a, Conclude(h, a), job[h].pc \in {"find", "act"}
  PROVE  \E n : PassesOn(h, n) /\ job' = [job EXCEPT ![h] = n]
  <1>1. CASE job[h].req.key = NoKey
    <2>1. PassesOn(h, Idle)
      BY DEF PassesOn, Idle
    <2> QED
      BY <1>1, <2>1 DEF Conclude, Reply
  <1>2. CASE job[h].req.key # NoKey
    <2> DEFINE n == [job[h] EXCEPT !.pc = "storeRedis", !.answer = a]
    <2>1. n.req = job[h].req /\ n.late = job[h].late
      BY DEF TypeInv, TypeOK, Jobs
    <2>2. job' = [job EXCEPT ![h] = n]
      BY <1>2 DEF Conclude, TypeInv, TypeOK
    <2>3. PassesOn(h, n)
      BY <2>1 DEF PassesOn
    <2> QED
      BY <2>2, <2>3
  <1> QED
    BY <1>1, <1>2

\* The steps before a request acts pass it on.
LEMMA LookMove ==
  ASSUME TypeInv, NEW h \in Handlers,
         ReadRedis(h) \/ ReadDb(h) \/ FindOrderByMakerSalt(h)
  PROVE  \E n : PassesOn(h, n) /\ job' = [job EXCEPT ![h] = n]
  <1>1. /\ job[h] \in Jobs /\ job[h].pc \in {"redis", "db", "find", "act"}
        /\ job[h].req \in Requests
    BY DEF TypeInv, TypeOK, JobsOK, Knows, ReadRedis, ReadDb, FindOrderByMakerSalt
  <1>2. CASE job' = [job EXCEPT ![h] = Idle]
    <2>1. PassesOn(h, Idle)
      BY <1>1 DEF PassesOn, Idle
    <2> QED
      BY <1>2, <2>1
  <1>3. CASE ReadRedis(h) /\ job' = [job EXCEPT ![h].pc = "db"]
    <2> DEFINE n == [job[h] EXCEPT !.pc = "db"]
    <2>1. PassesOn(h, n)
      BY <1>1 DEF Jobs, PassesOn
    <2>2. job' = [job EXCEPT ![h] = n]
      BY <1>3 DEF TypeInv, TypeOK
    <2> QED
      BY <2>1, <2>2
  <1>4. CASE /\ ReadDb(h)
             /\ job' = [job EXCEPT ![h] = Started(job[h].req, job[h])]
    <2> DEFINE n == Started(job[h].req, job[h])
    <2>1. n.pc = "idle" \/ (n.req = job[h].req /\ (job[h].late => n.late))
      BY <1>1, StartedOK
    <2> HIDE DEF n
    <2>3. PassesOn(h, n)
      BY <1>1, <2>1 DEF PassesOn
    <2> QED
      BY <1>4, <2>3 DEF n
  <1>5. ASSUME NEW c, job' = [job EXCEPT ![h].pc = "act", ![h].found = c]
        PROVE  \E n : PassesOn(h, n) /\ job' = [job EXCEPT ![h] = n]
    <2> DEFINE n == [job[h] EXCEPT !.pc = "act", !.found = c]
    <2>1. PassesOn(h, n)
      BY <1>1 DEF Jobs, PassesOn
    <2>2. job' = [job EXCEPT ![h] = n]
      BY <1>5 DEF TypeInv, TypeOK
    <2> QED
      BY <2>1, <2>2
  <1>6. CASE job[h].pc = "find" /\ Conclude(h, Answer("notFound", NoHash))
    BY <1>6, ConcludeMove
  <1> QED
    BY <1>2, <1>3, <1>4, <1>5, <1>6 DEF ReadRedis, ReadDb, FindOrderByMakerSalt, Reply

\* The steps before a request acts.
LEMMA EffectLook ==
  ASSUME TypeInv, TypeInv', EffectInv, NEW h \in Handlers,
         ReadRedis(h) \/ ReadDb(h) \/ FindOrderByMakerSalt(h)
  PROVE  EffectInv'
  <1>1. effects' = effects /\ excused' = excused /\ confirmed \subseteq confirmed'
    BY DEF ReadRedis, ReadDb, FindOrderByMakerSalt
  <1>2. PICK n : PassesOn(h, n) /\ job' = [job EXCEPT ![h] = n]
    BY LookMove
  <1> QED
    BY <1>1, <1>2, EffectPassOn

\* The steps that store an answer.
LEMMA EffectStore ==
  ASSUME TypeInv, TypeInv', EffectInv, NEW h \in Handlers, StoreRedis(h) \/ StoreDb(h)
  PROVE  EffectInv'
  <1>1. PICK n : /\ job' = [job EXCEPT ![h] = n]
                 /\ n.pc \in {"idle", "storeDb"}
                 /\ n.pc = "idle" => job[h].req.key \in confirmed'
                 /\ n.pc = "idle" \/ n.req = job[h].req
    <2>1. CASE StoreRedis(h)
      <3> DEFINE n == [job[h] EXCEPT !.pc = "storeDb"]
      <3>1. n.req = job[h].req /\ n.pc = "storeDb"
        BY DEF TypeInv, TypeOK, Jobs
      <3>2. job' = [job EXCEPT ![h] = n]
        BY <2>1 DEF StoreRedis, TypeInv, TypeOK
      <3> HIDE DEF n
      <3> QED
        BY <3>1, <3>2
    <2>2. CASE StoreDb(h)
      <3>1. Idle.pc = "idle"
        BY DEF Idle
      <3> QED
        BY <2>2, <3>1 DEF StoreDb, Reply
    <2> QED
      BY <2>1, <2>2
  <1>2. /\ job[h].pc \in {"storeRedis", "storeDb"} /\ UNCHANGED <<effects, excused>>
        /\ confirmed \subseteq confirmed'
    BY DEF StoreRedis, StoreDb, history
  <1>3. Pays(h, n)
    <2>1. \A k \in ShortKeys : Room(n, k) = 0 /\ Room(job[h], k) = 0
      BY <1>1, <1>2 DEF Room, ReadyJob
    <2>2. \A k \in ShortKeys : effects[k] \in Nat /\ excused[k] \in Nat
      BY DEF TypeInv, TypeOK
    <2> QED
      BY <1>1, <1>2, <2>1, <2>2 DEF Pays
  <1> QED
    BY <1>1, <1>2, <1>3, EffectMove

\* No step breaks the invariant.
LEMMA EffectStep ==
  ASSUME TypeInv, TypeInv', EffectInv, [Next]_vars PROVE EffectInv'
  <1>1. CASE UNCHANGED <<job, effects, excused, confirmed>>
    BY <1>1 DEF EffectInv, Working
  <1>2. ASSUME NEW h \in Handlers, AddOrder(h) PROVE EffectInv'
    <2> DEFINE inserted == job[h].req.order.hash \notin Posted
    <2>1. /\ job[h].pc = "act" /\ Effective(h, inserted) /\ UNCHANGED confirmed
          /\ \/ job' = [job EXCEPT ![h] = Idle] /\ Excuse({job[h].req.key})
             \/ /\ Conclude(h, Answer("exists", job[h].req.order.hash))
                /\ UNCHANGED excused
      BY <1>2 DEF AddOrder
    <2> HIDE DEF inserted
    <2> QED
      BY <2>1, EffectAct, EffectInserted
  <1>3. ASSUME NEW h \in Handlers, Cancel(h) \/ ApplyFillRequest(h) \/ InvalidateNonce(h)
        PROVE  EffectInv'
    <2>1. /\ job[h].pc = "act" /\ UNCHANGED <<excused, confirmed>>
          /\ \E took : Effective(h, took)
          /\ \E a : Conclude(h, a)
      BY <1>3 DEF Cancel, ApplyFillRequest, InvalidateNonce
    <2> QED
      BY <2>1, EffectAct
  <1>4. ASSUME NEW h \in Handlers, QueryFails(h) PROVE EffectInv'
    <2>1. /\ job' = [job EXCEPT ![h] = Idle] /\ effects' = effects /\ confirmed' = confirmed
          /\ Excuse(IF HasActed(h) THEN {job[h].req.key} ELSE {})
          /\ job[h].pc \in {"find", "act", "storeRedis", "storeDb"}
      BY <1>4 DEF QueryFails
    <2>2. CASE HasActed(h)
      BY <2>1, <2>2, EffectLost
    <2>3. CASE ~ HasActed(h)
      <3>1. excused' = excused
        BY <2>1, <2>3 DEF Excuse, TypeInv, TypeOK
      <3>2. PassesOn(h, Idle) /\ job[h].pc \in {"find", "act"}
        BY <2>1, <2>3 DEF Idle, HasActed, PassesOn
      <3> QED
        BY <2>1, <3>1, <3>2, EffectPassOn
    <2> QED
      BY <2>2, <2>3
  <1>5. CASE Tick \/ UNCHANGED vars
    BY <1>1, <1>5 DEF Tick, vars, history
  <1>6. CASE Crash
    BY <1>6, EffectCrash
  <1>7. ASSUME NEW h \in Handlers, Step(h) PROVE EffectInv'
    BY <1>2, <1>3, <1>4, <1>7, EffectReceive, EffectLook, EffectStore DEF Step
  <1> QED
    BY <1>5, <1>6, <1>7 DEF Next

\* A key of at most 128 characters takes effect more than once only if its requests
\* overlapped, or an answer was lost after the statement had run.
THEOREM OneEffect == Spec => []OneEffectPerKey
  <1>1. Init => EffectInv
    <2> SUFFICES ASSUME Init, NEW k \in ShortKeys
                 PROVE  /\ effects[k] + Cardinality(Ready(job, k)) <= 1 + excused[k]
                        /\ effects[k] <= excused[k]
      BY DEF EffectInv
    <2>1. Ready(job, k) = {} /\ effects[k] = 0 /\ excused[k] = 0
      BY DEF Init, Ready, ReadyJob, Idle
    <2> QED
      BY <2>1, FS_EmptySet
  <1>2. TypeInv /\ TypeInv' /\ EffectInv /\ [Next]_vars => EffectInv'
    BY EffectStep
  <1>3. TypeInv /\ EffectInv => OneEffectPerKey
    <2> SUFFICES ASSUME TypeInv, EffectInv, NEW k \in ShortKeys
                 PROVE  effects[k] <= 1 + excused[k]
      BY DEF OneEffectPerKey, ShortKeys
    <2>1. effects[k] \in Nat /\ excused[k] \in Nat
      BY DEF TypeInv, TypeOK
    <2> QED
      BY <2>1, ReadyFinite DEF EffectInv
  <1> QED
    BY <1>1, <1>2, <1>3, TypeInvariant, PTL DEF Spec

(***************************************************************************)
(* Stored answers of a key.                                                *)
(***************************************************************************)
OpenJob(j, k) == j.pc # "idle" /\ j.req.key = k /\ ~ j.late
Open(J, k) == {h \in Handlers : OpenJob(J[h], k)}

\* Without a mishap the requests of a key come one at a time, Redis gets an
\* answer just before the database does, and neither gets another.
CacheInvOf(k) ==
  /\ \A g, h \in Open(job, k) : g = h
  /\ Open(job, k) # {} => k \notin confirmed
  /\ k \notin confirmed => db[k] = NoAnswer
  /\ k \notin confirmed /\ redis[k] # NoAnswer
       => \E h \in Open(job, k) : job[h].pc = "storeDb" /\ job[h].answer = redis[k]
  /\ k \in confirmed /\ redis[k] # NoAnswer => redis[k] = db[k]

CacheInv == \A k \in ShortKeys : excused[k] = 0 => CacheInvOf(k)

\* A step of h to n that opens no request of k and stores nothing for it.
Bypasses(h, n, k) ==
  /\ job[h].pc # "storeDb" \/ job[h].req.key # k
  /\ OpenJob(n, k) => OpenJob(job[h], k)
  /\ redis'[k] = redis[k] /\ db'[k] = db[k]
  /\ k \in confirmed' <=> k \in confirmed

\* Such a step leaves what is stored for k in order.
LEMMA CachePass ==
  ASSUME TypeInv, NEW k \in ShortKeys, CacheInvOf(k), NEW h \in Handlers, NEW n,
         job' = [job EXCEPT ![h] = n], Bypasses(h, n, k)
  PROVE  CacheInvOf(k)'
  <1>1. \A g \in Handlers : job'[g] = IF g = h THEN n ELSE job[g]
    BY DEF TypeInv, TypeOK
  <1>2. Open(job', k) \subseteq Open(job, k)
    BY <1>1 DEF Open, Bypasses
  <1>3. \A g, e \in Open(job', k) : g = e
    BY <1>2 DEF CacheInvOf
  <1>4. Open(job', k) # {} => k \notin confirmed'
    BY <1>2 DEF CacheInvOf, Bypasses
  <1>5. /\ k \notin confirmed' => db'[k] = NoAnswer
        /\ k \in confirmed' /\ redis'[k] # NoAnswer => redis'[k] = db'[k]
    BY DEF CacheInvOf, Bypasses
  <1>6. ASSUME k \notin confirmed', redis'[k] # NoAnswer
        PROVE  \E g \in Open(job', k) : job'[g].pc = "storeDb" /\ job'[g].answer = redis'[k]
    <2>1. PICK g \in Open(job, k) : job[g].pc = "storeDb" /\ job[g].answer = redis[k]
      BY <1>6 DEF CacheInvOf, Bypasses
    <2>2. g \in Handlers /\ g # h /\ job'[g] = job[g]
      BY <1>1, <2>1 DEF Open, OpenJob, Bypasses
    <2>3. g \in Open(job', k)
      BY <2>1, <2>2 DEF Open
    <2> QED
      BY <2>1, <2>2, <2>3 DEF Bypasses
  <1> QED
    BY <1>3, <1>4, <1>5, <1>6 DEF CacheInvOf

\* A mishap is never forgotten.
LEMMA ExcusedGrows ==
  ASSUME TypeInv, [Next]_vars, NEW k \in ShortKeys, excused'[k] = 0
  PROVE  excused[k] = 0
  <1>1. ASSUME NEW K, Excuse(K) PROVE excused[k] = 0
    BY <1>1 DEF Excuse, TypeInv, TypeOK
  <1>2. CASE excused' = excused
    BY <1>2
  <1>3. (\E K : Excuse(K)) \/ excused' = excused
    <2>1. ASSUME NEW h \in Handlers, Step(h)
          PROVE  (\E K : Excuse(K)) \/ excused' = excused
      BY <2>1 DEF Step, Receive, ReadRedis, ReadDb, FindOrderByMakerSalt, AddOrder,
              Cancel, ApplyFillRequest, InvalidateNonce, StoreRedis, StoreDb,
              QueryFails, history
    <2>2. CASE Crash
      BY <2>2 DEF Crash
    <2>3. CASE Tick \/ UNCHANGED vars
      BY <2>3 DEF Tick, vars, history
    <2> QED
      BY <2>1, <2>2, <2>3 DEF Next
  <1> QED
    BY <1>1, <1>2, <1>3

\* A request that comes in.
LEMMA CacheReceive ==
  ASSUME TypeInv, NEW k \in ShortKeys, CacheInvOf(k), excused'[k] = 0, excused[k] = 0,
         NEW h \in Handlers, NEW r \in Requests, Receive(h, r)
  PROVE  CacheInvOf(k)'
  <1>1. PICK n : /\ job' = [job EXCEPT ![h] = n]
                 /\ n.pc # "idle" => Admits(r) /\ n.req = r
                 /\ n.pc # "idle" /\ r.key \in confirmed => n.late \/ r.key = NoKey
    BY ReceiveMove
  <1>2. /\ job[h].pc = "idle" /\ UNCHANGED <<redis, db, confirmed>>
        /\ Excuse(IF Admits(r) /\ r.key \notin confirmed /\ Working(r.key) # {}
                    THEN {r.key} ELSE {})
    BY DEF Receive, stores
  <1>3. CASE ~ OpenJob(n, k)
    <2>1. Bypasses(h, n, k)
      BY <1>2, <1>3 DEF Bypasses
    <2> QED
      BY <1>1, <2>1, CachePass
  <1>4. CASE OpenJob(n, k)
    <2>1. k = r.key /\ Admits(r) /\ k \notin confirmed
      BY <1>1, <1>4 DEF OpenJob
    <2>2. Working(k) = {}
      <3> SUFFICES ASSUME Working(k) # {} PROVE FALSE
        OBVIOUS
      <3>1. excused'[k] = excused[k] + 1
        BY <1>2, <2>1 DEF Excuse
      <3> QED
        BY <3>1
    <2>3. \A g \in Handlers : job'[g] = IF g = h THEN n ELSE job[g]
      BY <1>1 DEF TypeInv, TypeOK
    <2>4. Open(job, k) = {}
      BY <2>2 DEF Open, OpenJob, Working
    <2>5. Open(job', k) \subseteq {h}
      BY <2>3, <2>4 DEF Open
    <2>6. redis[k] = NoAnswer /\ db[k] = NoAnswer
      BY <2>1, <2>4 DEF CacheInvOf
    <2> QED
      BY <1>2, <2>1, <2>5, <2>6 DEF CacheInvOf
  <1> QED
    BY <1>3, <1>4

\* The steps before a request acts, and those that act: nothing is stored.
LEMMA CacheLook ==
  ASSUME TypeInv, NEW k \in ShortKeys, CacheInvOf(k), NEW h \in Handlers, NEW n,
         PassesOn(h, n), job' = [job EXCEPT ![h] = n],
         redis' = redis, db' = db, k \in confirmed' <=> k \in confirmed
  PROVE  CacheInvOf(k)'
  <1>1. Bypasses(h, n, k)
    BY DEF Bypasses, PassesOn, OpenJob
  <1> QED
    BY <1>1, CachePass

\* An answer goes to Redis, or is lost on the way.
LEMMA CacheStoreRedis ==
  ASSUME TypeInv, NEW k \in ShortKeys, CacheInvOf(k), NEW h \in Handlers, StoreRedis(h)
  PROVE  CacheInvOf(k)'
  <1> DEFINE n == [job[h] EXCEPT !.pc = "storeDb"]
  <1>1. /\ job[h] \in Jobs /\ job[h].pc = "storeRedis"
        /\ job[h].req.key \in ShortKeys => ~ job[h].late
        /\ job[h].answer \in Answers /\ job[h].req.key \in Keys
    BY DEF StoreRedis, TypeInv, TypeOK, JobsOK, Knows, Late
  <1>2. /\ n.pc = "storeDb" /\ n.req = job[h].req /\ n.late = job[h].late
        /\ n.answer = job[h].answer
    BY <1>1 DEF Jobs
  <1>3. job' = [job EXCEPT ![h] = n]
    BY DEF StoreRedis, TypeInv, TypeOK
  <1> HIDE DEF n
  <1>4. /\ redis' \in {redis, [redis EXCEPT ![job[h].req.key] = job[h].answer]}
        /\ db' = db /\ confirmed' = confirmed
    BY DEF StoreRedis, history
  <1>5. CASE k # job[h].req.key
    <2>1. redis'[k] = redis[k]
      BY <1>4, <1>5 DEF TypeInv, TypeOK
    <2>2. Bypasses(h, n, k)
      BY <1>1, <1>2, <1>4, <1>5, <2>1 DEF Bypasses, OpenJob
    <2> QED
      BY <1>3, <2>2, CachePass
  <1>6. CASE k = job[h].req.key
    <2>1. \A g \in Handlers : job'[g] = IF g = h THEN n ELSE job[g]
      BY <1>3 DEF TypeInv, TypeOK
    <2>2. h \in Open(job, k) /\ k \notin confirmed /\ db[k] = NoAnswer
      BY <1>1, <1>6 DEF Open, OpenJob, CacheInvOf
    <2>3. redis[k] = NoAnswer
      BY <1>1, <2>2 DEF CacheInvOf
    <2>4. Open(job', k) = Open(job, k)
      BY <1>1, <1>2, <1>6, <2>1 DEF Open, OpenJob
    <2>5. redis'[k] \in {NoAnswer, job[h].answer}
      BY <1>4, <1>6, <2>3 DEF TypeInv, TypeOK
    <2>6. job'[h].pc = "storeDb" /\ job'[h].answer = job[h].answer
      BY <1>2, <2>1
    <2> QED
      BY <1>4, <2>2, <2>4, <2>5, <2>6 DEF CacheInvOf
  <1> QED
    BY <1>5, <1>6

\* An answer goes to the database: the same that Redis has, if it has one.
LEMMA CacheStoreDb ==
  ASSUME TypeInv, NEW k \in ShortKeys, CacheInvOf(k), NEW h \in Handlers, StoreDb(h)
  PROVE  CacheInvOf(k)'
  <1>1. /\ job[h].pc = "storeDb"
        /\ job[h].req.key \in ShortKeys => ~ job[h].late
        /\ job[h].answer \in Answers /\ job[h].req.key \in Keys
    BY DEF StoreDb, TypeInv, TypeOK, JobsOK, Knows, Late
  <1>2. /\ job' = [job EXCEPT ![h] = Idle] /\ redis' = redis /\ db' = DbKeeps(h)
        /\ confirmed' = confirmed \cup {job[h].req.key}
    BY DEF StoreDb, Reply
  <1>3. CASE k # job[h].req.key
    <2>1. db'[k] = db[k]
      BY <1>2, <1>3 DEF DbKeeps, TypeInv, TypeOK
    <2>2. Bypasses(h, Idle, k)
      BY <1>2, <1>3, <2>1 DEF Bypasses, OpenJob, Idle
    <2> QED
      BY <1>2, <2>2, CachePass
  <1>4. CASE k = job[h].req.key
    <2>1. \A g \in Handlers : job'[g] = IF g = h THEN Idle ELSE job[g]
      BY <1>2 DEF TypeInv, TypeOK
    <2>2. h \in Open(job, k) /\ k \notin confirmed /\ db[k] = NoAnswer
      BY <1>1, <1>4 DEF Open, OpenJob, CacheInvOf
    <2>3. redis[k] # NoAnswer => redis[k] = job[h].answer
      BY <2>2 DEF CacheInvOf
    <2>4. Open(job', k) = {}
      <3> SUFFICES ASSUME NEW g \in Open(job', k) PROVE FALSE
        OBVIOUS
      <3>1. g # h /\ g \in Open(job, k)
        BY <2>1 DEF Open, OpenJob, Idle
      <3> QED
        BY <2>2, <3>1 DEF CacheInvOf
    <2>5. db'[k] = job[h].answer
      BY <1>2, <1>4, <2>2 DEF DbKeeps, TypeInv, TypeOK
    <2> QED
      BY <1>2, <1>4, <2>3, <2>4, <2>5 DEF CacheInvOf
  <1> QED
    BY <1>3, <1>4

\* The end of the process, without a mishap for k: nobody was storing its
\* answer.
LEMMA CacheCrash ==
  ASSUME TypeInv, NEW k \in ShortKeys, CacheInvOf(k), excused'[k] = 0, excused[k] = 0, Crash
  PROVE  CacheInvOf(k)'
  <1>1. /\ \A h \in Handlers : job'[h] = Idle
        /\ redis' = redis /\ db' = db /\ confirmed' = confirmed
        /\ Excuse({job[h].req.key : h \in {g \in Handlers : HasActed(g)}})
    BY DEF Crash, stores
  <1>2. Open(job', k) = {}
    BY <1>1 DEF Open, OpenJob, Idle
  <1>3. \A h \in Handlers : ~ (HasActed(h) /\ job[h].req.key = k)
    <2> SUFFICES ASSUME NEW h \in Handlers, HasActed(h), job[h].req.key = k PROVE FALSE
      OBVIOUS
    <2>1. excused'[k] = excused[k] + 1
      BY <1>1 DEF Excuse
    <2> QED
      BY <2>1
  <1>4. k \notin confirmed => redis[k] = NoAnswer
    BY <1>3 DEF CacheInvOf, Open, OpenJob, HasActed
  <1> QED
    BY <1>1, <1>2, <1>4 DEF CacheInvOf

\* No step breaks the invariant.
LEMMA CacheStep ==
  ASSUME TypeInv, CacheInv, [Next]_vars, NEW k \in ShortKeys, excused'[k] = 0
  PROVE  CacheInvOf(k)'
  <1>0. CacheInvOf(k) /\ excused[k] = 0
    BY ExcusedGrows DEF CacheInv
  <1>1. CASE UNCHANGED <<job, redis, db, confirmed>>
    BY <1>0, <1>1 DEF CacheInvOf
  <1>2. ASSUME NEW h \in Handlers, ReadRedis(h) \/ ReadDb(h) \/ FindOrderByMakerSalt(h)
        PROVE  CacheInvOf(k)'
    <2>1. PICK n : PassesOn(h, n) /\ job' = [job EXCEPT ![h] = n]
      BY <1>2, LookMove
    <2>2. redis' = redis /\ db' = db
      BY <1>2 DEF ReadRedis, ReadDb, FindOrderByMakerSalt, stores
    <2>3. k \in confirmed' <=> k \in confirmed
      <3>1. \/ confirmed' = confirmed
            \/ /\ db[job[h].req.key] # NoAnswer
               /\ confirmed' = confirmed \cup {job[h].req.key}
        BY <1>2, StoredIsDb DEF ReadRedis, ReadDb, FindOrderByMakerSalt
      <3> QED
        BY <1>0, <3>1 DEF CacheInvOf
    <2> QED
      BY <1>0, <2>1, <2>2, <2>3, CacheLook
  <1>3. ASSUME NEW h \in Handlers,
               AddOrder(h) \/ Cancel(h) \/ ApplyFillRequest(h) \/ InvalidateNonce(h)
        PROVE  CacheInvOf(k)'
    <2>1. /\ job[h].pc = "act" /\ redis' = redis /\ db' = db /\ confirmed' = confirmed
          /\ job' = [job EXCEPT ![h] = Idle] \/ \E a : Conclude(h, a)
      BY <1>3 DEF AddOrder, Cancel, ApplyFillRequest, InvalidateNonce, stores
    <2>2. PICK n : PassesOn(h, n) /\ job' = [job EXCEPT ![h] = n]
      <3>1. PassesOn(h, Idle)
        BY <2>1 DEF PassesOn, Idle
      <3>2. ASSUME NEW a, Conclude(h, a)
            PROVE  \E n : PassesOn(h, n) /\ job' = [job EXCEPT ![h] = n]
        BY <2>1, <3>2, ConcludeMove
      <3> QED
        BY <2>1, <3>1, <3>2
    <2> QED
      BY <1>0, <2>1, <2>2, CacheLook
  <1>4. ASSUME NEW h \in Handlers, QueryFails(h) PROVE CacheInvOf(k)'
    <2>1. /\ job' = [job EXCEPT ![h] = Idle] /\ redis' = redis /\ confirmed' = confirmed
          /\ Excuse(IF HasActed(h) THEN {job[h].req.key} ELSE {})
      BY <1>4 DEF QueryFails
    <2>2. /\ db' = db \/ (job[h].pc = "storeDb" /\ db' = DbKeeps(h))
          /\ job[h].pc \in {"find", "act", "storeRedis", "storeDb"}
      BY <1>4 DEF QueryFails
    <2>3. ~ (HasActed(h) /\ job[h].req.key = k)
      <3> SUFFICES ASSUME HasActed(h), job[h].req.key = k PROVE FALSE
        OBVIOUS
      <3>1. excused'[k] = excused[k] + 1
        BY <2>1 DEF Excuse
      <3> QED
        BY <1>0, <3>1
    <2>4. db'[k] = db[k]
      BY <2>2, <2>3 DEF HasActed, DbKeeps, TypeInv, TypeOK
    <2>5. Bypasses(h, Idle, k)
      BY <2>1, <2>2, <2>3, <2>4 DEF HasActed, Bypasses, OpenJob, Idle
    <2> QED
      BY <1>0, <2>1, <2>5, CachePass
  <1>5. CASE Tick \/ UNCHANGED vars
    BY <1>1, <1>5 DEF Tick, vars, stores, history
  <1>6. CASE Crash
    BY <1>0, <1>6, CacheCrash
  <1>7. ASSUME NEW h \in Handlers, Step(h) PROVE CacheInvOf(k)'
    <2>1. ASSUME NEW r \in Requests, Receive(h, r) PROVE CacheInvOf(k)'
      BY <1>0, <2>1, CacheReceive
    <2>2. CASE StoreRedis(h)
      BY <1>0, <2>2, CacheStoreRedis
    <2>3. CASE StoreDb(h)
      BY <1>0, <2>3, CacheStoreDb
    <2> QED
      BY <1>2, <1>3, <1>4, <1>7, <2>1, <2>2, <2>3 DEF Step
  <1> QED
    BY <1>5, <1>6, <1>7 DEF Next

\* Redis and the database answer a retry alike, unless requests of the key
\* overlapped or one of them was broken off.
THEOREM CachesAgreeAlways == Spec => []CachesAgree
  <1>1. Init => CacheInv
    <2> SUFFICES ASSUME Init, NEW k \in ShortKeys PROVE CacheInvOf(k)
      BY DEF CacheInv
    <2>1. Open(job, k) = {} /\ redis[k] = NoAnswer /\ db[k] = NoAnswer /\ confirmed = {}
      BY DEF Init, Open, OpenJob, Idle
    <2> QED
      BY <2>1 DEF CacheInvOf
  <1>2. TypeInv /\ CacheInv /\ [Next]_vars => CacheInv'
    <2> SUFFICES ASSUME TypeInv, CacheInv, [Next]_vars, NEW k \in ShortKeys, excused'[k] = 0
                 PROVE  CacheInvOf(k)'
      BY DEF CacheInv
    <2> QED
      BY CacheStep
  <1>3. TypeInv /\ CacheInv => CachesAgree
    <2> SUFFICES ASSUME TypeInv, CacheInv, NEW k \in Keys, redis[k] # NoAnswer,
                        db[k] # NoAnswer, redis[k] # db[k], ~ (excused[k] > 0)
                 PROVE  FALSE
      BY DEF CachesAgree
    <2>1. excused[k] = 0 /\ k \in ShortKeys
      BY DEF TypeInv, TypeOK, AnswersOK, ShortKeys
    <2> QED
      BY <2>1 DEF CacheInv, CacheInvOf
  <1> QED
    BY <1>1, <1>2, <1>3, TypeInvariant, PTL DEF Spec

(***************************************************************************)
(* Rate limits.  The counter only says how many requests its own window    *)
(* has let through; what a stretch across windows may hold follows from    *)
(* where the window began.                                                 *)
(***************************************************************************)
\* When the window of entry e began, if it has not run out at time n, and the
\* requests it has let through under the limit L.
Runs(e, n) == e.expiry >= n
Opened(e, n) == IF Runs(e, n) THEN e.expiry - Window ELSE n
Spent(e, n, L) == IF ~ Runs(e, n) THEN 0 ELSE IF e.count <= L THEN e.count ELSE L

\* What the log a holds from time t on, and within a window's length of t.
Since(a, t) == SumFunctionOnSet(a, t .. MaxNow)
Stretch(a, t) == SumFunctionOnSet(a, (t .. t + Window) \cap (0 .. MaxNow))

\* From the beginning of the window on, the log holds no more than the window
\* has let through, and one limit's worth more from a window's length earlier;
\* K stands for the windows that restarts forgot.
Tallied(e, a, n, K, L) ==
  /\ e.expiry <= n + Window
  /\ \A t \in 0 .. MaxNow :
       /\ t > n => a[t] = 0
       /\ t >= Opened(e, n) => Since(a, t) <= Spent(e, n, L) + K
       /\ t >= Opened(e, n) - Window => Since(a, t) <= Spent(e, n, L) + K + L

Logs == [0 .. MaxNow -> Nat]

\* A stretch of the log holds no more than the log from its beginning on.
LEMMA StretchInSince ==
  ASSUME NEW a \in Logs, NEW t \in 0 .. MaxNow
  PROVE  /\ Since(a, t) \in Int /\ Stretch(a, t) \in Int
         /\ Stretch(a, t) <= Since(a, t)
  <1> DEFINE S == t .. MaxNow
             R == (t .. t + Window) \cap (0 .. MaxNow)
  <1>1. S \subseteq 0 .. MaxNow /\ R \in SUBSET S /\ IsFiniteSet(S)
    BY FS_Interval
  <1>2. /\ \A x \in S : a[x] \in Nat /\ a[x] \in Int
        /\ \A x \in R : a[x] \in Int
    BY <1>1 DEF Logs
  <1>3. IsFiniteSet(R)
    BY <1>1, FS_Subset
  <1> HIDE DEF S, R
  <1>4. SumFunctionOnSet(a, S) \in Int /\ SumFunctionOnSet(a, R) \in Int
    BY <1>1, <1>2, <1>3, SumType
  <1>5. SumFunctionOnSet(a, R) <= SumFunctionOnSet(a, S)
    BY <1>1, <1>2, SumSubset
  <1> QED
    BY <1>4, <1>5 DEF Since, Stretch, S, R

\* The log is empty after the present.
LEMMA SinceFuture ==
  ASSUME NEW a \in Logs, NEW n \in 0 .. MaxNow,
         \A t \in 0 .. MaxNow : t > n => a[t] = 0,
         NEW t \in 0 .. MaxNow, t > n
  PROVE  Since(a, t) = 0
  <1> DEFINE S == t .. MaxNow
  <1>1. IsFiniteSet(S) /\ \A x \in S : a[x] = 0
    BY FS_Interval
  <1> HIDE DEF S
  <1>2. SumFunctionOnSet(a, S) = 0
    BY <1>1, SumZero
  <1> QED
    BY <1>2 DEF Since, S

\* One more request at time n counts once from n or any earlier time on, and
\* in the stretches that n is in.
LEMMA SinceOneMore ==
  ASSUME NEW a \in Logs, NEW b \in Logs, NEW n \in 0 .. MaxNow,
         b[n] = a[n] + 1, \A x \in 0 .. MaxNow : x # n => b[x] = a[x],
         NEW t \in 0 .. MaxNow
  PROVE  /\ Since(b, t) = Since(a, t) + (IF t <= n THEN 1 ELSE 0)
         /\ n \notin t .. t + Window => Stretch(b, t) = Stretch(a, t)
  <1> DEFINE S == t .. MaxNow
             R == (t .. t + Window) \cap (0 .. MaxNow)
  <1>1. /\ S \subseteq 0 .. MaxNow /\ IsFiniteSet(S)
        /\ R \subseteq S /\ IsFiniteSet(R)
    <2>1. S \subseteq 0 .. MaxNow /\ R \subseteq S
      OBVIOUS
    <2>2. IsFiniteSet(S)
      BY FS_Interval
    <2> QED
      BY <2>1, <2>2, FS_Subset
  <1>2. OneMore(a, b, n, S) /\ OneMore(a, b, n, R)
    <2>1. \A x \in 0 .. MaxNow : a[x] \in Int /\ b[x] = IF x = n THEN a[x] + 1 ELSE a[x]
      BY DEF Logs
    <2> HIDE DEF S, R
    <2> QED
      BY <1>1, <2>1 DEF OneMore
  <1>3. /\ n \in S <=> t <= n
        /\ n \in R => n \in t .. t + Window
    OBVIOUS
  <1> HIDE DEF S, R
  <1>4. /\ SumFunctionOnSet(a, S) \in Int
        /\ n \in S => SumFunctionOnSet(b, S) = SumFunctionOnSet(a, S) + 1
        /\ n \notin S => SumFunctionOnSet(b, S) = SumFunctionOnSet(a, S)
    BY <1>1, <1>2, SumOneMore
  <1>5. n \notin R => SumFunctionOnSet(b, R) = SumFunctionOnSet(a, R)
    BY <1>1, <1>2, SumOneMore
  <1>6. /\ Since(a, t) = SumFunctionOnSet(a, S) /\ Since(b, t) = SumFunctionOnSet(b, S)
        /\ Stretch(a, t) = SumFunctionOnSet(a, R) /\ Stretch(b, t) = SumFunctionOnSet(b, R)
    BY DEF Since, Stretch, S, R
  <1> QED
    BY <1>3, <1>4, <1>5, <1>6

\* What a tally allows in the stretches the present is in.
LEMMA TalliedStretch ==
  ASSUME NEW e \in Entry, NEW a \in Logs, NEW n \in 0 .. MaxNow, NEW K \in Nat,
         NEW L \in Nat, Tallied(e, a, n, K, L), NEW t \in 0 .. MaxNow, n <= t + Window
  PROVE  Stretch(a, t) <= K + 2 * L
  <1>1. Since(a, t) \in Int /\ Stretch(a, t) \in Int /\ Stretch(a, t) <= Since(a, t)
    BY StretchInSince
  <1>2. Spent(e, n, L) \in Nat /\ Spent(e, n, L) <= L
    BY DEF Spent, Entry
  <1>3. t >= Opened(e, n) - Window
    BY DEF Tallied, Opened, Entry
  <1>4. Since(a, t) <= Spent(e, n, L) + K + L
    BY <1>3 DEF Tallied
  <1> QED
    BY <1>1, <1>2, <1>4

\* A counted request keeps the tally, whether the limit lets it through or not.
LEMMA TalliedBump ==
  ASSUME NEW e \in Entry, NEW a \in Logs, NEW b \in Logs, NEW n \in 0 .. MaxNow,
         NEW K \in Nat, NEW L \in Nat, Tallied(e, a, n, K, L),
         IF Bump(e, n).count <= L
           THEN b[n] = a[n] + 1 /\ \A x \in 0 .. MaxNow : x # n => b[x] = a[x]
           ELSE b = a
  PROVE  Tallied(Bump(e, n), b, n, K, L)
  <1> DEFINE f == Bump(e, n)
  <1>1. f \in Entry /\ Runs(f, n)
    BY DEF Bump, Entry, Runs
  <1>2. /\ Runs(e, n) => f.expiry = e.expiry /\ f.count = e.count + 1
        /\ ~ Runs(e, n) => f.expiry = n + Window /\ f.count = 1
    BY DEF Bump, Entry, Runs
  <1>3. e.count \in Nat /\ e.expiry \in Int /\ e.expiry <= n + Window
    BY DEF Entry, Tallied
  <1> HIDE DEF f
  <1>4. f.expiry <= n + Window
    BY <1>2, <1>3
  <1> SUFFICES ASSUME NEW t \in 0 .. MaxNow
               PROVE  /\ t > n => b[t] = 0
                      /\ t >= Opened(f, n) => Since(b, t) <= Spent(f, n, L) + K
                      /\ t >= Opened(f, n) - Window
                           => Since(b, t) <= Spent(f, n, L) + K + L
    BY <1>4 DEF Tallied, f
  <1>5. /\ t > n => a[t] = 0
        /\ t >= Opened(e, n) => Since(a, t) <= Spent(e, n, L) + K
        /\ t >= Opened(e, n) - Window => Since(a, t) <= Spent(e, n, L) + K + L
    BY DEF Tallied
  <1>6. Since(a, t) \in Int
    BY StretchInSince
  <1>7. t > n => Since(a, t) = 0
    BY SinceFuture DEF Tallied
  <1>8. CASE f.count <= L
    <2>1. b[n] = a[n] + 1 /\ \A x \in 0 .. MaxNow : x # n => b[x] = a[x]
      BY <1>8 DEF f
    <2>2. Since(b, t) = Since(a, t) + (IF t <= n THEN 1 ELSE 0)
      BY <2>1, SinceOneMore
    <2>3. t > n => b[t] = 0
      BY <1>5, <2>1
    <2>4. CASE Runs(e, n)
      <3>1. /\ Opened(f, n) = Opened(e, n)
            /\ Spent(f, n, L) = Spent(e, n, L) + 1 /\ Spent(e, n, L) \in Nat
        BY <1>1, <1>2, <1>3, <1>8, <2>4 DEF Opened, Spent
      <3> QED
        BY <1>5, <1>6, <2>2, <2>3, <3>1 DEF Opened
    <2>5. CASE ~ Runs(e, n)
      <3>1. Opened(f, n) = n /\ Spent(f, n, L) = 1
        BY <1>1, <1>2, <1>8, <2>5 DEF Opened, Spent
      <3>2. Opened(e, n) = n /\ Spent(e, n, L) = 0
        BY <2>5 DEF Opened, Spent
      <3> QED
        BY <1>5, <1>6, <1>7, <2>2, <2>3, <3>1, <3>2
    <2> QED
      BY <2>4, <2>5
  <1>9. CASE ~ (f.count <= L)
    <2>1. b = a
      BY <1>9 DEF f
    <2>2. CASE Runs(e, n)
      <3>1. /\ Opened(f, n) = Opened(e, n) /\ Opened(e, n) \in Int
            /\ Spent(f, n, L) = L /\ Spent(e, n, L) = L
        BY <1>1, <1>2, <1>3, <1>9, <2>2 DEF Opened, Spent
      <3> QED
        BY <1>5, <1>6, <2>1, <3>1
    <2>3. CASE ~ Runs(e, n)
      <3>1. Opened(f, n) = n /\ Spent(f, n, L) = L /\ L = 0
        BY <1>1, <1>2, <1>9, <2>3 DEF Opened, Spent
      <3>2. Opened(e, n) = n /\ Spent(e, n, L) = 0
        BY <2>3 DEF Opened, Spent
      <3> QED
        BY <1>5, <1>6, <2>1, <3>1, <3>2
    <2> QED
      BY <2>2, <2>3
  <1> QED
    BY <1>8, <1>9

\* A restart forgets at most one window's worth.
LEMMA TalliedCrash ==
  ASSUME NEW e \in Entry, NEW a \in Logs, NEW n \in 0 .. MaxNow,
         NEW K \in Nat, NEW L \in Nat, Tallied(e, a, n, K, L)
  PROVE  Tallied(NoEntry, a, n, K + L, L)
  <1>1. /\ ~ Runs(NoEntry, n) /\ NoEntry.expiry <= n + Window
        /\ Opened(NoEntry, n) = n /\ Spent(NoEntry, n, L) = 0
    BY DEF Runs, NoEntry, Opened, Spent
  <1>2. /\ Spent(e, n, L) \in Nat /\ Spent(e, n, L) <= L
        /\ Opened(e, n) \in Int /\ Opened(e, n) <= n
    BY DEF Spent, Entry, Opened, Tallied
  <1> SUFFICES ASSUME NEW t \in 0 .. MaxNow
               PROVE  /\ t > n => a[t] = 0
                      /\ t >= n => Since(a, t) <= 0 + (K + L)
                      /\ t >= n - Window => Since(a, t) <= 0 + (K + L) + L
    BY <1>1 DEF Tallied
  <1>3. /\ t > n => a[t] = 0
        /\ t >= Opened(e, n) => Since(a, t) <= Spent(e, n, L) + K
        /\ t >= Opened(e, n) - Window => Since(a, t) <= Spent(e, n, L) + K + L
    BY DEF Tallied
  <1>4. Since(a, t) \in Int
    BY StretchInSince
  <1> QED
    BY <1>2, <1>3, <1>4

\* The window may run out as time passes.
LEMMA TalliedTick ==
  ASSUME NEW e \in Entry, NEW a \in Logs, NEW n \in 0 .. MaxNow, n + 1 \in 0 .. MaxNow,
         NEW K \in Nat, NEW L \in Nat, Tallied(e, a, n, K, L)
  PROVE  Tallied(e, a, n + 1, K, L)
  <1>1. /\ Spent(e, n, L) \in Nat /\ Spent(e, n, L) <= L
        /\ e.expiry \in Int /\ e.expiry <= n + Window
    BY DEF Spent, Entry, Tallied
  <1> SUFFICES ASSUME NEW t \in 0 .. MaxNow
               PROVE  /\ t > n + 1 => a[t] = 0
                      /\ t >= Opened(e, n + 1) => Since(a, t) <= Spent(e, n + 1, L) + K
                      /\ t >= Opened(e, n + 1) - Window
                           => Since(a, t) <= Spent(e, n + 1, L) + K + L
    BY <1>1 DEF Tallied
  <1>2. /\ t > n => a[t] = 0
        /\ t >= Opened(e, n) => Since(a, t) <= Spent(e, n, L) + K
        /\ t >= Opened(e, n) - Window => Since(a, t) <= Spent(e, n, L) + K + L
    BY DEF Tallied
  <1>3. Since(a, t) \in Int
    BY StretchInSince
  <1>4. t > n => Since(a, t) = 0
    BY SinceFuture DEF Tallied
  <1>5. CASE Runs(e, n + 1)
    <2>1. /\ Opened(e, n + 1) = Opened(e, n) /\ Opened(e, n) \in Int
          /\ Spent(e, n + 1, L) = Spent(e, n, L)
      BY <1>1, <1>5 DEF Runs, Opened, Spent
    <2> QED
      BY <1>2, <1>3, <2>1
  <1>6. CASE ~ Runs(e, n + 1)
    <2>1. Opened(e, n + 1) = n + 1 /\ Spent(e, n + 1, L) = 0
      BY <1>6 DEF Opened, Spent
    <2>2. t >= n + 1 - Window => Since(a, t) <= K + L
      <3>1. CASE Runs(e, n)
        <4>1. Opened(e, n) = n - Window
          BY <1>1, <1>6, <3>1 DEF Runs, Opened
        <4> QED
          BY <1>1, <1>2, <1>3, <4>1
      <3>2. CASE ~ Runs(e, n)
        <4>1. Opened(e, n) = n /\ Spent(e, n, L) = 0
          BY <3>2 DEF Opened, Spent
        <4> QED
          BY <1>2, <1>3, <4>1
      <3> QED
        BY <3>1, <3>2
    <2>3. t >= n + 1 => Since(a, t) <= K
      BY <1>4
    <2>4. 0 + K = K /\ 0 + K + L = K + L
      OBVIOUS
    <2> QED
      BY <1>2, <2>1, <2>2, <2>3, <2>4
  <1> QED
    BY <1>5, <1>6

\* The limits of every subject are tallied, and no stretch holds too much.
RateInv ==
  \A s \in Subjects :
    /\ Tallied(rate[s], admitted[s], now, crashes * Limit(s), Limit(s))
    /\ \A t \in 0 .. MaxNow : Stretch(admitted[s], t) <= (2 + crashes) * Limit(s)

\* What the types say of one subject.
LEMMA SubjectTyped ==
  ASSUME TypeOK, NEW s \in Subjects
  PROVE  /\ rate[s] \in Entry /\ admitted[s] \in Logs /\ now \in 0 .. MaxNow
         /\ Limit(s) \in Nat /\ crashes \in Nat /\ crashes * Limit(s) \in Nat
         /\ (2 + crashes) * Limit(s) = crashes * Limit(s) + 2 * Limit(s)
         /\ (crashes + 1) * Limit(s) = crashes * Limit(s) + Limit(s)
  <1>1. Limit(s) \in Nat
    BY DEF Limit
  <1>2. rate[s] \in Entry /\ admitted[s] \in Logs /\ now \in 0 .. MaxNow /\ crashes \in Nat
    BY DEF TypeOK, Logs
  <1>3. ASSUME NEW c \in Nat, NEW L \in Nat
        PROVE  c * L \in Nat /\ (2 + c) * L = c * L + 2 * L /\ (c + 1) * L = c * L + L
    BY <1>3
  <1> QED
    BY <1>1, <1>2, <1>3

\* A request that comes in.
LEMMA RateReceive ==
  ASSUME TypeInv, TypeInv', RateInv, NEW r \in Requests, CountRequest(r),
         UNCHANGED <<now, crashes>>
  PROVE  RateInv'
  <1> SUFFICES ASSUME NEW s \in Subjects
               PROVE  /\ Tallied(rate'[s], admitted'[s], now, crashes * Limit(s), Limit(s))
                      /\ \A t \in 0 .. MaxNow :
                           Stretch(admitted'[s], t) <= (2 + crashes) * Limit(s)
    BY DEF RateInv, Limit
  <1> DEFINE e == rate[s]
             a == admitted[s]
             b == admitted'[s]
             K == crashes * Limit(s)
  <1>1. /\ e \in Entry /\ a \in Logs /\ now \in 0 .. MaxNow
        /\ Limit(s) \in Nat /\ K \in Nat
        /\ (2 + crashes) * Limit(s) = K + 2 * Limit(s)
    BY SubjectTyped DEF TypeInv
  <1>2. b \in Logs /\ rate'[s] \in Entry
    BY DEF TypeInv, TypeOK, Logs
  <1>3. /\ Tallied(e, a, now, K, Limit(s))
        /\ \A t \in 0 .. MaxNow : Stretch(a, t) <= (2 + crashes) * Limit(s)
    BY DEF RateInv
  <1>4. CASE s \notin Counted(r)
    <2>1. rate'[s] = e /\ b = a
      BY <1>4 DEF CountRequest
    <2> QED
      BY <1>3, <2>1
  <1>5. CASE s \in Counted(r)
    <2>1. /\ rate'[s] = Bump(e, now)
          /\ b = IF Bump(e, now).count <= Limit(s) THEN [a EXCEPT ![now] = @ + 1] ELSE a
      BY <1>5 DEF CountRequest, Passes
    <2>2. IF Bump(e, now).count <= Limit(s)
            THEN b[now] = a[now] + 1 /\ \A x \in 0 .. MaxNow : x # now => b[x] = a[x]
            ELSE b = a
      BY <1>1, <2>1 DEF Logs
    <2> HIDE DEF e, a, b, K
    <2>3. Tallied(Bump(e, now), b, now, K, Limit(s))
      BY <1>1, <1>2, <1>3, <2>2, TalliedBump
    <2>4. Bump(e, now) \in Entry
      BY <1>1, BumpTyped
    <2>5. ASSUME NEW t \in 0 .. MaxNow
          PROVE  Stretch(b, t) <= (2 + crashes) * Limit(s)
      <3>1. CASE now <= t + Window
        BY <1>1, <1>2, <2>3, <2>4, <3>1, TalliedStretch
      <3>2. CASE ~ (now <= t + Window)
        <4>1. now \notin t .. t + Window
          BY <1>1, <3>2
        <4>2. Stretch(b, t) = Stretch(a, t)
          BY <1>1, <1>2, <2>2, <4>1, SinceOneMore
        <4> QED
          BY <1>3, <4>2
      <3> QED
        BY <3>1, <3>2
    <2> QED
      BY <2>1, <2>3, <2>5 DEF b, K
  <1> QED
    BY <1>4, <1>5

\* A restart, and time that passes.
LEMMA RateCrash ==
  ASSUME TypeInv, TypeInv', RateInv, Crash
  PROVE  RateInv'
  <1> SUFFICES ASSUME NEW s \in Subjects
               PROVE  /\ Tallied(rate'[s], admitted[s], now, crashes' * Limit(s), Limit(s))
                      /\ \A t \in 0 .. MaxNow :
                           Stretch(admitted[s], t) <= (2 + crashes') * Limit(s)
    BY DEF RateInv, Limit, Crash
  <1>1. rate'[s] = NoEntry /\ crashes' = crashes + 1
    BY DEF Crash
  <1>2. /\ rate[s] \in Entry /\ admitted[s] \in Logs /\ now \in 0 .. MaxNow
        /\ Limit(s) \in Nat /\ crashes \in Nat /\ crashes * Limit(s) \in Nat
        /\ (2 + crashes) * Limit(s) = crashes * Limit(s) + 2 * Limit(s)
        /\ (crashes + 1) * Limit(s) = crashes * Limit(s) + Limit(s)
    BY SubjectTyped DEF TypeInv
  <1>3. /\ Tallied(rate[s], admitted[s], now, crashes * Limit(s), Limit(s))
        /\ \A t \in 0 .. MaxNow : Stretch(admitted[s], t) <= (2 + crashes) * Limit(s)
    BY DEF RateInv
  <1>4. Tallied(NoEntry, admitted[s], now, crashes * Limit(s) + Limit(s), Limit(s))
    BY <1>2, <1>3, TalliedCrash
  <1>5. ASSUME NEW c \in Nat, NEW L \in Nat
        PROVE  (2 + c) * L <= (2 + (c + 1)) * L
    BY <1>5
  <1>6. (2 + crashes) * Limit(s) <= (2 + crashes') * Limit(s)
    BY <1>1, <1>2, <1>5
  <1>7. (2 + crashes') * Limit(s) \in Int
    BY <1>1, <1>2
  <1>8. \A t \in 0 .. MaxNow : Stretch(admitted[s], t) \in Int
    BY <1>2, StretchInSince
  <1> QED
    BY <1>1, <1>2, <1>3, <1>4, <1>6, <1>7, <1>8

\* Time only lets counters expire.
LEMMA RateTick ==
  ASSUME TypeInv, TypeInv', RateInv, Tick
  PROVE  RateInv'
  <1> SUFFICES ASSUME NEW s \in Subjects
               PROVE  /\ Tallied(rate[s], admitted[s], now', crashes * Limit(s), Limit(s))
                      /\ \A t \in 0 .. MaxNow :
                           Stretch(admitted[s], t) <= (2 + crashes) * Limit(s)
    BY DEF RateInv, Limit, Tick, limits
  <1>1. now' = now + 1 /\ now' \in 0 .. MaxNow
    BY DEF Tick, TypeInv, TypeOK
  <1>2. /\ rate[s] \in Entry /\ admitted[s] \in Logs /\ now \in 0 .. MaxNow
        /\ Limit(s) \in Nat /\ crashes * Limit(s) \in Nat
    BY SubjectTyped DEF TypeInv
  <1>3. /\ Tallied(rate[s], admitted[s], now, crashes * Limit(s), Limit(s))
        /\ \A t \in 0 .. MaxNow : Stretch(admitted[s], t) <= (2 + crashes) * Limit(s)
    BY DEF RateInv
  <1> QED
    BY <1>1, <1>2, <1>3, TalliedTick

\* Only these three touch the limits.
LEMMA RateStep == TypeInv /\ TypeInv' /\ RateInv /\ [Next]_vars => RateInv'
  <1> SUFFICES ASSUME TypeInv, TypeInv', RateInv, [Next]_vars
               PROVE  RateInv'
    OBVIOUS
  <1>1. ASSUME UNCHANGED <<rate, admitted, now, crashes>> PROVE RateInv'
    BY <1>1 DEF RateInv, Limit
  <1>2. ASSUME NEW h \in Handlers, NEW r \in Requests, Receive(h, r) PROVE RateInv'
    BY <1>2, RateReceive DEF Receive
  <1>3. ASSUME NEW h \in Handlers, Step(h) PROVE RateInv'
    <2>1. CASE \/ ReadRedis(h) \/ ReadDb(h) \/ FindOrderByMakerSalt(h)
               \/ AddOrder(h) \/ Cancel(h) \/ ApplyFillRequest(h) \/ InvalidateNonce(h)
               \/ StoreRedis(h) \/ StoreDb(h) \/ QueryFails(h)
      BY <1>1, <2>1 DEF ReadRedis, ReadDb, FindOrderByMakerSalt, AddOrder, Cancel,
              ApplyFillRequest, InvalidateNonce, StoreRedis, StoreDb, QueryFails,
              limits, clock
    <2> QED
      BY <1>2, <1>3, <2>1 DEF Step
  <1>4. CASE UNCHANGED vars
    BY <1>1, <1>4 DEF vars, limits, clock
  <1> QED
    BY <1>3, <1>4, RateCrash, RateTick DEF Next

\* No address and no spelling of a maker gets more than two windows' worth of
\* requests through in any stretch as long as a window, and one more for every restart: two, and not
\* one, because a stretch may end the window it begins in and use up the next.
THEOREM RatesBounded == Spec => []RateBounded
  <1>1. Init /\ TypeInv => RateInv
    <2> SUFFICES ASSUME Init, TypeInv, NEW s \in Subjects
                 PROVE  /\ Tallied(rate[s], admitted[s], now, crashes * Limit(s), Limit(s))
                        /\ \A t \in 0 .. MaxNow :
                             Stretch(admitted[s], t) <= (2 + crashes) * Limit(s)
      BY DEF RateInv
    <2> DEFINE a == admitted[s]
               L == Limit(s)
    <2>1. /\ rate[s] = NoEntry /\ now = 0 /\ crashes = 0
          /\ \A t \in 0 .. MaxNow : a[t] = 0
      BY DEF Init
    <2>2. a \in Logs /\ L \in Nat
      BY SubjectTyped DEF TypeInv
    <2> HIDE DEF a, L
    <2>3. 0 * L = 0 /\ (2 + 0) * L = 2 * L /\ 2 * L \in Nat
      BY <2>2
    <2>4. ASSUME NEW t \in 0 .. MaxNow
          PROVE  /\ Since(a, t) = 0
                 /\ Stretch(a, t) \in Int /\ Stretch(a, t) <= 0
      <3> DEFINE S == t .. MaxNow
      <3>1. IsFiniteSet(S)
        BY FS_Interval
      <3>2. \A x \in S : a[x] = 0
        BY <2>1
      <3> HIDE DEF S
      <3>3. SumFunctionOnSet(a, S) = 0
        BY <3>1, <3>2, SumZero
      <3> QED
        BY <2>2, <3>3, StretchInSince DEF Since, S
    <2>5. /\ ~ Runs(NoEntry, 0) /\ NoEntry.expiry <= 0 + Window
          /\ Spent(NoEntry, 0, L) = 0
      BY DEF Runs, NoEntry, Spent
    <2>6. Tallied(NoEntry, a, 0, 0, L)
      BY <2>1, <2>2, <2>4, <2>5 DEF Tallied
    <2>7. \A t \in 0 .. MaxNow : Stretch(a, t) <= 2 * L
      BY <2>2, <2>3, <2>4
    <2> QED
      BY <2>1, <2>3, <2>6, <2>7 DEF a, L
  <1>2. RateInv => RateBounded
    BY DEF RateInv, RateBounded, Stretch
  <1> QED
    BY <1>1, <1>2, RateStep, TypeInvariant, PTL DEF Spec
=============================================================================
