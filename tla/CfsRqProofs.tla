----------------------------- MODULE CfsRqProofs -----------------------------
(***************************************************************************)
(* What holds of the CFS run queues for any number of CPUs and tasks, any  *)
(* weights and any start of virtual time: the timeline and the buddies are *)
(* what is queued, the timeline is sorted across the wrap-around, no task  *)
(* gains time, min_vruntime never moves back, picks are fair, and the run  *)
(* queues implement Placement.                                             *)
(***************************************************************************)
EXTENDS CfsRq, ListLemmas

RqType == [min_vruntime : 0 .. VMod - 1, curr : Tasks \cup {None}, timeline : Seq(Tasks),
           last : Tasks \cup {None}, next : Tasks \cup {None}, skip : Tasks \cup {None},
           delta : 0 .. MaxTime, resched : BOOLEAN, pc : {"run", "yield", "newidle"}]
SeType == [vruntime : 0 .. VMod - 1, on_rq : BOOLEAN, cpu : Cpus, weight : Weights,
           ran : Nat, state : States]
VType  == [rq : [Cpus -> RqType], se : [Tasks -> SeType]]

\* v with another run queue or another entity.
WithRq(v, c, r) == [rq |-> [v.rq EXCEPT ![c] = r], se |-> v.se]
WithSe(v, s, e) == [rq |-> v.rq, se |-> [v.se EXCEPT ![s] = e]]

\* The timeline holds what is queued except curr, each once.
Queue(v, c) == LET tl == v.rq[c].timeline
               IN  Injective(tl) /\ ToSet(tl) = OnRq(v, c) \ {v.rq[c].curr}

(* Unwrapped virtual time: M[c] is the min_vruntime of c and X[t] the vruntime of
   t as integers, e the time that has been run, B how far a min_vruntime may have
   got; the vruntimes of the tasks in A are absolute, in the time of their CPU. *)

Buddy(v, c) == {v.rq[c].last, v.rq[c].next, v.rq[c].skip} \subseteq OnRq(v, c) \cup {None}

\* The virtual time at most that curr ran and was not charged for yet.
Pend(v, c, t) == IF v.rq[c].curr = t THEN NICE_0_LOAD * v.rq[c].delta ELSE 0

TaskOk(v, M, X, e, B, A, c, t) ==
  /\ v.se[t].vruntime = X[t] % VMod
  /\ v.se[t].on_rq => t \in A /\ X[t] >= M[c] - thresh
  /\ t \in A => /\ X[t] >= InitMin[c] - thresh
               /\ X[t] + Pend(v, c, t) <= M[c] + Horizon(e)
               /\ X[t] + Pend(v, c, t) <= InitMin[c] + B

\* The run queue of c is in order, and the tasks of c are near its min_vruntime.
MinOk(v, M, B, c)  == /\ v.rq[c].min_vruntime = M[c] % VMod
                      /\ InitMin[c] <= M[c] /\ M[c] <= InitMin[c] + B
CurrOk(v, e, A, c) == /\ v.rq[c].delta <= e
                      /\ v.rq[c].curr # None => /\ v.se[v.rq[c].curr].cpu = c
                                               /\ (v.rq[c].curr \in A \/ v.rq[c].delta = 0)
Sorted(tl, X)      == \A i, j \in DOMAIN tl : i < j => X[tl[i]] <= X[tl[j]]

CpuOk(v, M, X, e, B, A, c) ==
  /\ MinOk(v, M, B, c) /\ CurrOk(v, e, A, c)
  /\ Queue(v, c) /\ Buddy(v, c) /\ Sorted(v.rq[c].timeline, X)
  /\ \A t \in Tasks : v.se[t].cpu = c => TaskOk(v, M, X, e, B, A, c, t)

Typed(v, M, X, e, B, A) ==
  /\ v \in VType /\ M \in [Cpus -> Int] /\ X \in [Tasks -> Int]
  /\ e \in 0 .. MaxTime /\ B \in 0 .. Reach /\ A \subseteq Tasks

Good(v, M, X, e, B, A) ==
  Typed(v, M, X, e, B, A) /\ \A c \in Cpus : CpuOk(v, M, X, e, B, A, c)

\* What update_curr and the comparisons leave alone.
SameTask(v, r, t)  == /\ r.se[t].on_rq = v.se[t].on_rq /\ r.se[t].cpu = v.se[t].cpu
                      /\ r.se[t].state = v.se[t].state /\ r.se[t].weight = v.se[t].weight
SameQueue(v, r, c) == /\ r.rq[c].curr = v.rq[c].curr /\ r.rq[c].timeline = v.rq[c].timeline
                      /\ r.rq[c].pc = v.rq[c].pc
SameBuddies(v, r, c) == /\ r.rq[c].last = v.rq[c].last /\ r.rq[c].next = v.rq[c].next
                        /\ r.rq[c].skip = v.rq[c].skip

\* Nothing happens to other CPUs, nor to the tasks in T but to their vruntime and ran.
Keeps(v, r, c, T) == /\ \A d \in Cpus : d # c => r.rq[d] = v.rq[d]
                     /\ \A t \in T : SameTask(v, r, t)

-----------------------------------------------------------------------------
(***************************************************************************)
(* Parts of a state.                                                       *)
(***************************************************************************)
LEMMA Parts ==
  ASSUME NEW v \in VType
  PROVE  /\ \A c \in Cpus : v.rq[c] \in RqType
         /\ \A s \in Tasks : v.se[s] \in SeType
         /\ v.rq \in [Cpus -> RqType] /\ v.se \in [Tasks -> SeType]
  BY DEF VType

\* A state in which one run queue is another.
LEMMA WithRqFacts ==
  ASSUME NEW v \in VType, NEW c \in Cpus, NEW r \in RqType
  PROVE  /\ WithRq(v, c, r) \in VType /\ WithRq(v, c, r).se = v.se /\ WithRq(v, c, r).rq[c] = r
         /\ \A d \in Cpus : d # c => WithRq(v, c, r).rq[d] = v.rq[d]
  BY DEF WithRq, VType

\* A state in which one entity is another.
LEMMA WithSeFacts ==
  ASSUME NEW v \in VType, NEW s \in Tasks, NEW e \in SeType
  PROVE  /\ WithSe(v, s, e) \in VType /\ WithSe(v, s, e).rq = v.rq /\ WithSe(v, s, e).se[s] = e
         /\ \A t \in Tasks : t # s => WithSe(v, s, e).se[t] = v.se[t]
  BY DEF WithSe, VType

\* Words.
LEMMA WordTyped == \A n \in Int : n % VMod \in 0 .. VMod - 1
  BY CfsRqAssumption

\* A word is what is left of a number without the times it went around.
LEMMA ModExact ==
  ASSUME NEW r \in 0 .. VMod - 1, NEW q \in Int
  PROVE  (r + VMod * q) % VMod = r
  BY CfsRqAssumption

\* Words: whatever is added to a number is added to its word.
LEMMA ModShift ==
  ASSUME NEW n \in Int, NEW q \in Int
  PROVE  (n + VMod * q) % VMod = n % VMod
  <1> DEFINE r == n % VMod
             k == n \div VMod
  <1>1. VMod \in Nat \ {0}
    BY CfsRqAssumption
  <1>2. r \in 0 .. VMod - 1 /\ k \in Int /\ n = VMod * k + r
    BY <1>1
  <1> HIDE DEF r, k
  <1>3. VMod * k + VMod * q = VMod * (k + q)
    BY <1>1, <1>2
  <1>4. VMod * k \in Int /\ VMod * q \in Int /\ VMod * (k + q) \in Int
    BY <1>1, <1>2
  <1>5. n + VMod * q = r + VMod * (k + q)
    BY <1>2, <1>3, <1>4
  <1>6. k + q \in Int
    BY <1>2
  <1> QED BY <1>2, <1>5, <1>6, ModExact DEF r

\* The word of a sum or a difference is that of the sum or difference of words.
LEMMA ModAdd ==
  ASSUME NEW a \in Int, NEW b \in Int
  PROVE  /\ ((a % VMod) + b) % VMod = (a + b) % VMod
         /\ ((a % VMod) + (b % VMod)) % VMod = (a + b) % VMod
         /\ ((a % VMod) - (b % VMod)) % VMod = (a - b) % VMod
  <1> DEFINE r == a % VMod
             s == b % VMod
             k == a \div VMod
             l == b \div VMod
  <1>1. VMod \in Nat \ {0}
    BY CfsRqAssumption
  <1>2. r \in 0 .. VMod - 1 /\ k \in Int /\ a = VMod * k + r
    BY <1>1
  <1>3. s \in 0 .. VMod - 1 /\ l \in Int /\ b = VMod * l + s
    BY <1>1
  <1> HIDE DEF r, k, s, l
  <1>4. /\ VMod * k \in Int /\ VMod * l \in Int /\ VMod * (-k) = -(VMod * k) /\ -k \in Int
        /\ VMod * (-(k + l)) = -(VMod * k) - VMod * l /\ -(k + l) \in Int
        /\ VMod * (l - k) = VMod * l - VMod * k /\ l - k \in Int
    BY <1>1, <1>2, <1>3
  <1>5. (r + b) % VMod = (a + b) % VMod
    <2>1. r + b = (a + b) + VMod * (-k)
      BY <1>2, <1>3, <1>4
    <2> QED BY <1>4, <2>1, ModShift
  <1>6. (r + s) % VMod = (a + b) % VMod
    <2>1. r + s = (a + b) + VMod * (-(k + l))
      BY <1>2, <1>3, <1>4
    <2> QED BY <1>4, <2>1, ModShift
  <1>7. (r - s) % VMod = (a - b) % VMod
    <2>1. r - s = (a - b) + VMod * (l - k)
      BY <1>2, <1>3, <1>4
    <2>2. a - b \in Int
      BY <1>2, <1>3
    <2> QED BY <1>4, <2>1, <2>2, ModShift
  <1> QED BY <1>5, <1>6, <1>7 DEF r, s

\* The difference of two words tells which is the later one within half the circle.
LEMMA DiffExact ==
  ASSUME NEW a \in Int, NEW b \in Int, 2 * (a - b) < VMod, 2 * (b - a) < VMod
  PROVE  Diff(a % VMod, b % VMod) = a - b
  <1> DEFINE d == (a - b) % VMod
  <1>1. Diff(a % VMod, b % VMod) = IF 2 * d >= VMod THEN d - VMod ELSE d
    BY ModAdd DEF Diff
  <1>2. VMod \in Nat \ {0}
    BY CfsRqAssumption
  <1>3. CASE a - b >= 0
    <2>1. d = a - b
      BY <1>2, <1>3
    <2> QED BY <1>1, <1>2, <1>3, <2>1
  <1>4. CASE a - b < 0
    <2>1. (a - b) + VMod * 1 = a - b + VMod
      BY <1>2
    <2>2. d = (a - b + VMod) % VMod
      BY <2>1, ModShift
    <2>3. (a - b + VMod) % VMod = a - b + VMod
      BY <1>2, <1>4
    <2> QED BY <1>1, <1>2, <1>4, <2>2, <2>3
  <1> QED BY <1>3, <1>4

\* None is no task; the credit of a sleeper is a number of ticks.
LEMMA NoneFacts == None \notin Tasks /\ thresh \in Nat
  BY CfsRqAssumption, SliceAssumption DEF thresh

\* Sound states that agree about who is queued where.
LEMMA OnRqSame ==
  ASSUME NEW v, NEW r, NEW c, \A t \in Tasks : SameTask(v, r, t)
  PROVE  OnRq(r, c) = OnRq(v, c)
  BY DEF OnRq, SameTask

\* A queue is not empty when nothing is queued, and the leftmost entity is of the queue.
LEMMA FirstFacts ==
  ASSUME NEW v \in VType, NEW c \in Cpus
  PROVE  /\ __pick_first_entity(v, c) \in Tasks \cup {None}
         /\ __pick_first_entity(v, c) = None <=> v.rq[c].timeline = <<>>
         /\ __pick_first_entity(v, c) # None =>
              /\ __pick_first_entity(v, c) = v.rq[c].timeline[1]
              /\ __pick_first_entity(v, c) \in ToSet(v.rq[c].timeline)
  <1> DEFINE tl == v.rq[c].timeline
  <1>1. tl \in Seq(Tasks)
    BY Parts DEF RqType
  <1>2. tl # <<>> => Head(tl) = tl[1] /\ tl[1] \in Tasks /\ tl[1] \in ToSet(tl)
    BY <1>1 DEF ToSet
  <1> QED BY <1>2, NoneFacts DEF __pick_first_entity

-----------------------------------------------------------------------------
(***************************************************************************)
(* update_curr and update_min_vruntime.                                    *)
(***************************************************************************)
LEMMA LeastTyped ==
  ASSUME NEW v \in VType, NEW c \in Cpus
  PROVE  Least(v, c) \in 0 .. VMod - 1
  <1> DEFINE first == __pick_first_entity(v, c)
             curr  == v.rq[c].curr
  <1>1. /\ first # None => v.se[first].vruntime \in 0 .. VMod - 1
        /\ curr # None => v.se[curr].vruntime \in 0 .. VMod - 1
        /\ v.rq[c].min_vruntime \in 0 .. VMod - 1
    BY FirstFacts, Parts DEF RqType, SeType
  <1> QED BY <1>1 DEF Least, min_vruntime

\* update_min_vruntime changes min_vruntime only, to the later one of itself and Least.
LEMMA UpdateMinFacts ==
  ASSUME NEW v \in VType, NEW c \in Cpus
  PROVE  LET r == update_min_vruntime(v, c)
         IN  /\ r \in VType /\ r.se = v.se /\ \A d \in Cpus : d # c => r.rq[d] = v.rq[d]
             /\ r.rq[c] = [v.rq[c] EXCEPT !.min_vruntime = max_vruntime(v.rq[c].min_vruntime, Least(v, c))]
  <1> DEFINE m == max_vruntime(v.rq[c].min_vruntime, Least(v, c))
             q == [v.rq[c] EXCEPT !.min_vruntime = m]
  <1>1. update_min_vruntime(v, c) = WithRq(v, c, q)
    BY DEF update_min_vruntime, WithRq, VType
  <1>2. v.rq[c] \in RqType
    BY Parts
  <1>3. m \in 0 .. VMod - 1
    BY <1>2, LeastTyped DEF max_vruntime, RqType
  <1> HIDE DEF m
  <1>4. q \in RqType
    BY <1>2, <1>3 DEF RqType
  <1> HIDE DEF q
  <1> QED BY <1>1, <1>4, WithRqFacts DEF q, m

\* The time that curr ran, before min_vruntime follows.
Charged(v, c) ==
  LET r    == v.rq[c]
      curr == v.se[r.curr]
  IN  WithSe(WithRq(v, c, [r EXCEPT !.delta = 0]), r.curr,
             [curr EXCEPT !.ran = curr.ran + r.delta,
                          !.vruntime = (curr.vruntime + calc_delta_fair(r.delta, curr.weight)) % VMod])

\* update_curr is nothing, or charges curr and updates min_vruntime.
LEMMA UpdateCurrCharges ==
  ASSUME NEW v \in VType, NEW c \in Cpus
  PROVE  update_curr(v, c) = IF v.rq[c].curr = None \/ v.rq[c].delta = 0 THEN v
                             ELSE update_min_vruntime(Charged(v, c), c)
  <1> DEFINE r    == v.rq[c]
             curr == v.se[r.curr]
             e    == [curr EXCEPT !.ran = curr.ran + r.delta,
                          !.vruntime = (curr.vruntime + calc_delta_fair(r.delta, curr.weight)) % VMod]
             v1   == [v EXCEPT !.rq[c].delta = 0]
             v2   == [v1 EXCEPT !.se[r.curr] = e]
  <1>1. v1 = WithRq(v, c, [r EXCEPT !.delta = 0])
    BY DEF WithRq, VType
  <1>2. v2 = WithSe(v1, r.curr, e)
    <2>1. r \in RqType /\ 0 \in 0 .. MaxTime
      BY Parts, CfsRqAssumption
    <2> HIDE DEF r
    <2>2. [r EXCEPT !.delta = 0] \in RqType
      BY <2>1 DEF RqType
    <2>3. v1 \in VType
      BY <1>1, <2>2, WithRqFacts
    <2> HIDE DEF e, v1
    <2> QED BY <2>3 DEF WithSe, VType
  <1>3. update_curr(v, c) = IF r.curr = None \/ r.delta = 0 THEN v ELSE update_min_vruntime(v2, c)
    BY DEF update_curr
  <1> QED BY <1>1, <1>2, <1>3 DEF Charged

\* Charging curr moves its vruntime by the time it ran, weighted, and nothing else.
LEMMA ChargedFacts ==
  ASSUME NEW v \in VType, NEW c \in Cpus, v.rq[c].curr # None
  PROVE  LET r    == Charged(v, c)
             curr == v.rq[c].curr
         IN  /\ r \in VType /\ \A d \in Cpus : d # c => r.rq[d] = v.rq[d]
             /\ r.rq[c] = [v.rq[c] EXCEPT !.delta = 0]
             /\ \A t \in Tasks : t # curr => r.se[t] = v.se[t]
             /\ SameTask(v, r, curr)
             /\ r.se[curr].vruntime =
                  (v.se[curr].vruntime + calc_delta_fair(v.rq[c].delta, v.se[curr].weight)) % VMod
  <1> DEFINE r    == v.rq[c]
             q    == [r EXCEPT !.delta = 0]
             curr == v.se[r.curr]
             n    == calc_delta_fair(r.delta, curr.weight)
             x    == (curr.vruntime + n) % VMod
             e    == [curr EXCEPT !.ran = curr.ran + r.delta, !.vruntime = x]
  <1>1. r \in RqType /\ r.curr \in Tasks /\ curr \in SeType
    BY Parts DEF RqType
  <1>2. q \in RqType
    <2>1. 0 \in 0 .. MaxTime
      BY CfsRqAssumption
    <2> HIDE DEF r
    <2> QED BY <1>1, <2>1 DEF RqType
  <1>3. n \in Nat
    <2>1. r.delta \in 0 .. MaxTime /\ curr.weight \in Weights
      BY <1>1 DEF RqType, SeType
    <2>2. n \in 0 .. NICE_0_LOAD * r.delta
      BY <2>1, VirtualTimeAssumption
    <2> QED BY <2>2
  <1>4. x \in 0 .. VMod - 1
    <2>1. curr.vruntime \in Int
      BY <1>1 DEF SeType
    <2> QED BY <1>3, <2>1, WordTyped
  <1> HIDE DEF x
  <1>5. /\ e \in SeType /\ e.vruntime = x /\ e.on_rq = curr.on_rq /\ e.cpu = curr.cpu
        /\ e.state = curr.state /\ e.weight = curr.weight
    <2>1. curr.ran + r.delta \in Nat
      BY <1>1, SMTT(30) DEF RqType, SeType
    <2> QED BY <1>1, <1>4, <2>1 DEF SeType
  <1> HIDE DEF q, e
  <1> DEFINE w == WithRq(v, c, q)
  <1>6. w \in VType /\ w.se = v.se /\ w.rq[c] = q /\ \A d \in Cpus : d # c => w.rq[d] = v.rq[d]
    BY <1>2, WithRqFacts
  <1> HIDE DEF w
  <1>7. /\ WithSe(w, r.curr, e) \in VType /\ WithSe(w, r.curr, e).rq = w.rq
        /\ WithSe(w, r.curr, e).se[r.curr] = e
        /\ \A t \in Tasks : t # r.curr => WithSe(w, r.curr, e).se[t] = w.se[t]
    BY <1>1, <1>5, <1>6, WithSeFacts, SMTT(30)
  <1>8. Charged(v, c) = WithSe(w, r.curr, e)
    BY DEF Charged, w, e, q, x
  <1> DEFINE u == Charged(v, c)
  <1>9. /\ u \in VType /\ u.rq = w.rq /\ u.se[r.curr] = e
        /\ \A t \in Tasks : t # r.curr => u.se[t] = v.se[t]
    BY <1>6, <1>7, <1>8
  <1>10. u.rq[c] = [v.rq[c] EXCEPT !.delta = 0] /\ \A d \in Cpus : d # c => u.rq[d] = v.rq[d]
    BY <1>6, <1>9 DEF q
  <1>11. SameTask(v, u, r.curr) /\ u.se[r.curr].vruntime = x
    BY <1>5, <1>9 DEF SameTask
  <1> HIDE DEF u
  <1> QED BY <1>9, <1>10, <1>11 DEF u, x

\* update_curr touches vruntime and ran of curr, and min_vruntime and delta of its CPU.
LEMMA UpdateCurrFacts ==
  ASSUME NEW v \in VType, NEW c \in Cpus
  PROVE  LET r == update_curr(v, c)
         IN  /\ r \in VType /\ Keeps(v, r, c, Tasks) /\ SameQueue(v, r, c) /\ SameBuddies(v, r, c)
             /\ r.rq[c].resched = v.rq[c].resched
             /\ r.rq[c].delta \in {0, v.rq[c].delta} /\ (v.rq[c].curr # None => r.rq[c].delta = 0)
             /\ \A t \in Tasks : t # v.rq[c].curr => r.se[t] = v.se[t]
  <1> DEFINE r == update_curr(v, c)
             w == Charged(v, c)
  <1>1. CASE v.rq[c].curr = None \/ v.rq[c].delta = 0
    BY <1>1, UpdateCurrCharges DEF Keeps, SameTask, SameQueue, SameBuddies
  <1>2. CASE ~(v.rq[c].curr = None \/ v.rq[c].delta = 0)
    <2>1. r = update_min_vruntime(w, c)
      BY <1>2, UpdateCurrCharges
    <2>2. /\ w \in VType /\ \A d \in Cpus : d # c => w.rq[d] = v.rq[d]
          /\ w.rq[c] = [v.rq[c] EXCEPT !.delta = 0]
          /\ \A t \in Tasks : t # v.rq[c].curr => w.se[t] = v.se[t]
          /\ SameTask(v, w, v.rq[c].curr)
      BY <1>2, ChargedFacts
    <2> HIDE DEF w, r
    <2> DEFINE u == update_min_vruntime(w, c)
    <2>3. /\ u \in VType /\ u.se = w.se /\ \A d \in Cpus : d # c => u.rq[d] = w.rq[d]
          /\ u.rq[c] = [w.rq[c] EXCEPT !.min_vruntime = max_vruntime(w.rq[c].min_vruntime, Least(w, c))]
      BY <2>2, UpdateMinFacts
    <2> HIDE DEF u
    <2>u. r = u
      BY <2>1 DEF u
    <2>4. v.rq[c] \in RqType /\ w.rq[c] \in RqType
      BY <2>2, Parts
    <2>v. /\ w.rq[c].curr = v.rq[c].curr /\ w.rq[c].timeline = v.rq[c].timeline /\ w.rq[c].pc = v.rq[c].pc
          /\ w.rq[c].last = v.rq[c].last /\ w.rq[c].next = v.rq[c].next /\ w.rq[c].skip = v.rq[c].skip
          /\ w.rq[c].resched = v.rq[c].resched /\ w.rq[c].delta = 0
      BY <2>2, <2>4 DEF RqType
    <2>5. /\ r.rq[c].curr = v.rq[c].curr /\ r.rq[c].timeline = v.rq[c].timeline /\ r.rq[c].pc = v.rq[c].pc
          /\ r.rq[c].last = v.rq[c].last /\ r.rq[c].next = v.rq[c].next /\ r.rq[c].skip = v.rq[c].skip
          /\ r.rq[c].resched = v.rq[c].resched /\ r.rq[c].delta = 0
      BY <2>3, <2>4, <2>u, <2>v DEF RqType
    <2>6. \A t \in Tasks : SameTask(v, r, t)
      BY <2>2, <2>3, <2>u DEF SameTask
    <2> QED BY <2>2, <2>3, <2>5, <2>u, <2>6 DEF Keeps, SameQueue, SameBuddies, r
  <1> QED BY <1>1, <1>2

-----------------------------------------------------------------------------
(***************************************************************************)
(* Bounds.                                                                 *)
(***************************************************************************)
LEMMA HorizonFacts ==
  /\ MaxDebit \in Nat /\ Cardinality(Tasks) \in Nat
  /\ \A e \in Nat : Horizon(e) \in Nat /\ Horizon(e) >= MaxDebit
  /\ \A e \in Nat : Horizon(e + 1) = Horizon(e) + NICE_0_LOAD
  /\ \A e \in 0 .. MaxTime, d \in 0 .. MaxTime : d <= e =>
       /\ NICE_0_LOAD * d \in Nat /\ NICE_0_LOAD * (d + 1) = NICE_0_LOAD * d + NICE_0_LOAD
       /\ Horizon(d) <= Horizon(e)
  /\ Reach \in Nat /\ Horizon(MaxTime) <= Reach
  <1> DEFINE n == Cardinality(Tasks)
  <1>1. n \in Nat
    BY CfsRqAssumption, FS_CardinalityType
  <1>2. __sched_period(n + 1) \in Nat
    <2> HIDE DEF n
    <2>1. (n + 1) * sysctl_sched_min_granularity \in Nat
      BY <1>1, SliceAssumption
    <2> QED BY <2>1, SliceAssumption DEF __sched_period
  <1>3. MaxDebit \in Nat
    BY <1>2, SliceAssumption DEF MaxDebit
  <1>4. \A e \in Nat : NICE_0_LOAD * e \in Nat /\ NICE_0_LOAD * (e + 1) = NICE_0_LOAD * e + NICE_0_LOAD
    BY SliceAssumption
  <1>5. \A e \in Nat : Horizon(e) \in Nat /\ Horizon(e) >= MaxDebit /\ Horizon(e + 1) = Horizon(e) + NICE_0_LOAD
    BY <1>3, <1>4, SliceAssumption DEF Horizon
  <1>6. \A e \in Nat, d \in Nat : d <= e => Horizon(d) <= Horizon(e)
    <2>1. \A e \in Nat, d \in Nat : d <= e => NICE_0_LOAD * d <= NICE_0_LOAD * e
      BY SliceAssumption
    <2> QED BY <1>3, <1>4, <2>1 DEF Horizon
  <1>7. Reach \in Nat /\ Horizon(MaxTime) <= Reach
    <2> DEFINE k == MaxMoves + 2 * n
               h == Horizon(MaxTime)
    <2>1. h \in Nat /\ k \in Nat
      BY <1>1, <1>5, CfsRqAssumption
    <2>2. Reach = h * (1 + k)
      BY <1>1, CfsRqAssumption DEF Reach
    <2> HIDE DEF h, k
    <2>3. h * (1 + k) = h + h * k /\ h * k \in Nat
      BY <2>1
    <2> QED BY <2>1, <2>2, <2>3 DEF h
  <1>8. ASSUME NEW e \in 0 .. MaxTime, NEW d \in 0 .. MaxTime, d <= e
        PROVE  /\ NICE_0_LOAD * d \in Nat /\ NICE_0_LOAD * (d + 1) = NICE_0_LOAD * d + NICE_0_LOAD
               /\ Horizon(d) <= Horizon(e)
    <2>1. e \in Nat /\ d \in Nat
      BY CfsRqAssumption
    <2> QED BY <1>4, <1>6, <1>8, <2>1
  <1> QED BY <1>1, <1>3, <1>5, <1>7, <1>8

\* The numbers of a state.
LEMMA TypedFacts ==
  ASSUME NEW v, NEW M, NEW X, NEW e, NEW B, NEW A, Typed(v, M, X, e, B, A)
  PROVE  /\ v \in VType /\ M \in [Cpus -> Int] /\ X \in [Tasks -> Int]
         /\ \A c \in Cpus : InitMin[c] \in Nat /\ M[c] \in Int
         /\ \A t \in Tasks : X[t] \in Int
         /\ e \in 0 .. MaxTime /\ Horizon(e) \in Nat /\ B \in 0 .. Reach /\ Reach \in Nat
         /\ Horizon(e) <= Reach /\ thresh \in Nat /\ MaxDebit <= Horizon(e) /\ MaxDebit \in Nat
         /\ VMod > 4 * (thresh + Reach) /\ VMod \in Nat
         /\ \A c \in Cpus, t \in Tasks : Pend(v, c, t) \in Nat
  <1>1. e \in Nat /\ e <= MaxTime /\ MaxTime \in 0 .. MaxTime
    BY CfsRqAssumption DEF Typed
  <1>2. Horizon(e) \in Nat /\ Horizon(e) <= Reach /\ MaxDebit <= Horizon(e) /\ MaxDebit \in Nat /\ Reach \in Nat
    <2>1. Horizon(e) <= Horizon(MaxTime)
      BY <1>1, HorizonFacts
    <2> QED BY <1>1, <2>1, HorizonFacts
  <1>3. ASSUME NEW c \in Cpus, NEW t \in Tasks PROVE Pend(v, c, t) \in Nat
    <2>1. v.rq[c].delta \in 0 .. MaxTime
      BY Parts DEF Typed, RqType
    <2> QED BY <2>1, HorizonFacts, SMT DEF Pend
  <1> QED BY <1>1, <1>2, <1>3, NoneFacts, WrapAssumption, CfsRqAssumption DEF Typed

-----------------------------------------------------------------------------
(***************************************************************************)
(* What a step on one CPU means for the others, and changes that leave the *)
(* timeline as it is.                                                      *)
(***************************************************************************)
LEMMA Elsewhere ==
  ASSUME NEW v, NEW M, NEW X, NEW e, NEW B, NEW A, Good(v, M, X, e, B, A),
         NEW r, NEW M2, NEW X2, NEW e2, NEW B2, NEW A2, Typed(r, M2, X2, e2, B2, A2), e <= e2, B <= B2,
         NEW d \in Cpus, r.rq[d] = v.rq[d], M2[d] = M[d],
         \A t \in Tasks : r.se[t].cpu = d \/ v.se[t].cpu = d =>
                            r.se[t] = v.se[t] /\ X2[t] = X[t] /\ (t \in A2 <=> t \in A)
  PROVE  CpuOk(r, M2, X2, e2, B2, A2, d)
  <1>1. Typed(v, M, X, e, B, A) /\ CpuOk(v, M, X, e, B, A, d)
    BY DEF Good
  <1> DEFINE q == v.rq[d]
  <1>2. q \in RqType /\ r.rq[d] = q
    BY <1>1, Parts DEF Typed
  <1>3. OnRq(r, d) = OnRq(v, d)
    BY DEF OnRq
  <1>4. Horizon(e) <= Horizon(e2)
    BY <1>1, HorizonFacts DEF Typed
  <1>5. MinOk(r, M2, B2, d)
    BY <1>1, TypedFacts DEF MinOk, CpuOk
  <1>6. CurrOk(r, e2, A2, d)
    <2>1. q.delta \in Int /\ q.curr \in Tasks \cup {None}
      BY <1>2 DEF RqType
    <2> QED BY <1>1, <2>1, TypedFacts DEF CurrOk, CpuOk
  <1>7. Queue(r, d) /\ Buddy(r, d)
    BY <1>1, <1>3 DEF CpuOk, Queue, Buddy
  <1>8. Sorted(r.rq[d].timeline, X2)
    <2>1. \A i \in DOMAIN q.timeline : q.timeline[i] \in ToSet(q.timeline)
      BY DEF ToSet
    <2>2. \A i \in DOMAIN q.timeline : q.timeline[i] \in OnRq(v, d)
      BY <1>1, <2>1 DEF CpuOk, Queue
    <2>3. \A i \in DOMAIN q.timeline : X2[q.timeline[i]] = X[q.timeline[i]]
      BY <2>2 DEF OnRq
    <2> QED BY <1>1, <1>2, <2>3 DEF CpuOk, Sorted
  <1>9. ASSUME NEW t \in Tasks, r.se[t].cpu = d PROVE TaskOk(r, M2, X2, e2, B2, A2, d, t)
    <2>1. TaskOk(v, M, X, e, B, A, d, t)
      BY <1>1, <1>9 DEF CpuOk
    <2>2. Pend(r, d, t) = Pend(v, d, t) /\ Pend(v, d, t) \in Nat
      BY <1>1, TypedFacts DEF Pend
    <2>3. /\ X[t] \in Int /\ M[d] \in Int /\ InitMin[d] \in Int /\ thresh \in Int /\ B \in Int /\ B2 \in Int
          /\ Horizon(e) \in Int /\ Horizon(e2) \in Int
      BY <1>1, TypedFacts
    <2> QED BY <1>4, <1>9, <2>1, <2>2, <2>3 DEF TaskOk
  <1> QED BY <1>5, <1>6, <1>7, <1>8, <1>9 DEF CpuOk

\* A task's own data change, not where it is queued.
LEMMA Retask ==
  ASSUME NEW v, NEW M, NEW X, NEW e, NEW B, NEW A, Good(v, M, X, e, B, A),
         NEW s \in Tasks, NEW q \in SeType, q.cpu = v.se[s].cpu, q.on_rq = v.se[s].on_rq,
         NEW x \in Int, x = X[s] \/ s \notin ToSet(v.rq[q.cpu].timeline),
         NEW B2 \in 0 .. Reach, B <= B2, NEW A2 \in SUBSET Tasks, A2 \ {s} = A \ {s},
         v.rq[q.cpu].curr # s \/ s \in A2 \/ v.rq[q.cpu].delta = 0,
         TaskOk(WithSe(v, s, q), M, [X EXCEPT ![s] = x], e, B2, A2, q.cpu, s)
  PROVE  Good(WithSe(v, s, q), M, [X EXCEPT ![s] = x], e, B2, A2)
  <1> DEFINE r  == WithSe(v, s, q)
             X2 == [X EXCEPT ![s] = x]
             c  == v.se[s].cpu
  <1>1. Typed(v, M, X, e, B, A) /\ \A d \in Cpus : CpuOk(v, M, X, e, B, A, d)
    BY DEF Good
  <1>2. r \in VType /\ r.rq = v.rq /\ r.se[s] = q /\ \A t \in Tasks : t # s => r.se[t] = v.se[t]
    BY <1>1, WithSeFacts DEF Typed
  <1>3. X2 \in [Tasks -> Int] /\ X2[s] = x /\ \A t \in Tasks : t # s => X2[t] = X[t]
    BY <1>1 DEF Typed
  <1>4. TaskOk(r, M, X2, e, B2, A2, c, s)
    OBVIOUS
  <1> HIDE DEF r, X2
  <1>5. Typed(r, M, X2, e, B2, A2)
    BY <1>1, <1>2, <1>3 DEF Typed
  <1>6. ASSUME NEW d \in Cpus, d # c PROVE CpuOk(r, M, X2, e, B2, A2, d)
    <2>1. \A t \in Tasks : r.se[t].cpu = d \/ v.se[t].cpu = d => t # s
      BY <1>2, <1>6
    <2>2. e <= e
      BY <1>1, TypedFacts
    <2> QED BY <1>2, <1>3, <1>5, <2>1, <2>2, Elsewhere, SMTT(30)
  <1>7. CpuOk(r, M, X2, e, B2, A2, c)
    <2>1. c \in Cpus /\ v.rq[c] \in RqType
      BY <1>1, Parts DEF SeType, Typed
    <2>2. OnRq(r, c) = OnRq(v, c)
      BY <1>2 DEF OnRq
    <2>3. CpuOk(v, M, X, e, B, A, c)
      BY <1>1, <2>1
    <2>4. MinOk(r, M, B2, c)
      <3>1. MinOk(v, M, B, c)
        BY <2>3 DEF CpuOk
      <3>2. M[c] \in Int /\ InitMin[c] \in Int /\ B \in Int /\ B2 \in Int
        BY <1>1, <2>1, TypedFacts, SMTT(30)
      <3>3. r.rq[c] = v.rq[c]
        BY <1>2
      <3> QED BY <3>1, <3>2, <3>3, SMTT(30) DEF MinOk
    <2>5. CurrOk(r, e, A2, c)
      <3>1. v.rq[c].curr \in Tasks \cup {None}
        BY <2>1 DEF RqType
      <3> QED BY <1>2, <2>3, <3>1 DEF CpuOk, CurrOk
    <2>6. Queue(r, c) /\ Buddy(r, c)
      BY <1>2, <2>2, <2>3, ZenonT(40) DEF CpuOk, Queue, Buddy
    <2>7. Sorted(r.rq[c].timeline, X2)
      <3> DEFINE tl == v.rq[c].timeline
      <3>1. tl \in Seq(Tasks)
        BY <2>1 DEF RqType
      <3>2. Sorted(tl, X) /\ (x = X[s] \/ s \notin ToSet(tl))
        BY <2>3 DEF CpuOk
      <3> HIDE DEF tl
      <3>3. \A i \in DOMAIN tl : tl[i] \in ToSet(tl) /\ tl[i] \in Tasks
        <4>1. \A i \in DOMAIN tl : tl[i] \in Tasks
          BY <3>1, SMTT(30)
        <4>2. \A i \in DOMAIN tl : tl[i] \in ToSet(tl)
          BY ZenonT(40) DEF ToSet
        <4> QED BY <4>1, <4>2
      <3>4. \A i \in DOMAIN tl : X2[tl[i]] = X[tl[i]]
        BY <1>3, <3>2, <3>3
      <3>5. Sorted(tl, X2)
        BY <3>2, <3>4 DEF Sorted
      <3> QED BY <1>2, <3>5 DEF tl
    <2>8. ASSUME NEW t \in Tasks, t # s, r.se[t].cpu = c PROVE TaskOk(r, M, X2, e, B2, A2, c, t)
      <3>1. TaskOk(v, M, X, e, B, A, c, t)
        BY <1>2, <2>3, <2>8 DEF CpuOk
      <3>2. Pend(r, c, t) = Pend(v, c, t) /\ Pend(v, c, t) \in Nat
        BY <1>1, <1>2, <2>1, TypedFacts DEF Pend
      <3>3. /\ X[t] \in Int /\ M[c] \in Int /\ InitMin[c] \in Int /\ thresh \in Int /\ B \in Int /\ B2 \in Int
            /\ Horizon(e) \in Int
        BY <1>1, <2>1, TypedFacts
      <3> QED BY <1>2, <1>3, <2>8, <3>1, <3>2, <3>3 DEF TaskOk
    <2> QED BY <1>2, <1>4, <2>4, <2>5, <2>6, <2>7, <2>8 DEF CpuOk
  <1> QED BY <1>5, <1>6, <1>7 DEF Good, r, X2

\* curr's delta is charged or forgotten, buddies are set and cleared, the rest is of no account.
LEMMA Rerq ==
  ASSUME NEW v, NEW M, NEW X, NEW e, NEW B, NEW A, Good(v, M, X, e, B, A),
         NEW c \in Cpus, NEW q \in RqType,
         q.min_vruntime = v.rq[c].min_vruntime, q.timeline = v.rq[c].timeline, q.curr = v.rq[c].curr,
         q.delta \in {0, v.rq[c].delta}, {q.last, q.next, q.skip} \subseteq OnRq(v, c) \cup {None}
  PROVE  Good(WithRq(v, c, q), M, X, e, B, A)
  <1> DEFINE r  == WithRq(v, c, q)
  <1>1. Typed(v, M, X, e, B, A) /\ \A d \in Cpus : CpuOk(v, M, X, e, B, A, d)
    BY DEF Good
  <1>2. r \in VType /\ r.se = v.se /\ r.rq[c] = q /\ \A d \in Cpus : d # c => r.rq[d] = v.rq[d]
    BY <1>1, WithRqFacts DEF Typed
  <1> HIDE DEF r
  <1>3. Typed(r, M, X, e, B, A)
    BY <1>1, <1>2 DEF Typed
  <1>4. ASSUME NEW d \in Cpus, d # c PROVE CpuOk(r, M, X, e, B, A, d)
    <2>1. e <= e /\ B <= B
      BY <1>1, TypedFacts
    <2> QED BY <1>2, <1>3, <1>4, <2>1, Elsewhere
  <1>5. CpuOk(r, M, X, e, B, A, c)
    <2>1. v.rq[c] \in RqType
      BY <1>1, Parts DEF Typed
    <2>2. OnRq(r, c) = OnRq(v, c)
      BY <1>2 DEF OnRq
    <2>3. CpuOk(v, M, X, e, B, A, c)
      BY <1>1
    <2>4. MinOk(r, M, B, c)
      BY <1>2, <2>3 DEF CpuOk, MinOk
    <2>5. CurrOk(r, e, A, c)
      <3>1. e \in Nat
        BY <1>1 DEF Typed
      <3> QED BY <1>2, <2>3, <3>1 DEF CpuOk, CurrOk
    <2>6. Queue(r, c) /\ Buddy(r, c) /\ Sorted(r.rq[c].timeline, X)
      BY <1>2, <2>2, <2>3 DEF CpuOk, Queue, Buddy
    <2>7. ASSUME NEW t \in Tasks, r.se[t].cpu = c PROVE TaskOk(r, M, X, e, B, A, c, t)
      <3>1. TaskOk(v, M, X, e, B, A, c, t)
        BY <1>2, <2>3, <2>7 DEF CpuOk
      <3>2. Pend(r, c, t) \in Nat /\ Pend(v, c, t) \in Nat /\ Pend(r, c, t) <= Pend(v, c, t)
        <4>1. Pend(r, c, t) \in Nat /\ Pend(v, c, t) \in Nat
          BY <1>1, <1>3, TypedFacts
        <4>2. q.delta = v.rq[c].delta => Pend(r, c, t) = Pend(v, c, t)
          BY <1>2 DEF Pend
        <4>3. q.delta = 0 => Pend(r, c, t) = 0
          BY <1>2, SliceAssumption DEF Pend
        <4> QED BY <4>1, <4>2, <4>3
      <3>3. /\ X[t] \in Int /\ M[c] \in Int /\ InitMin[c] \in Int /\ B \in Int /\ Horizon(e) \in Int
        BY <1>1, <2>1, TypedFacts
      <3> QED BY <1>2, <3>1, <3>2, <3>3 DEF TaskOk
    <2> QED BY <2>4, <2>5, <2>6, <2>7 DEF CpuOk
  <1> QED BY <1>3, <1>4, <1>5 DEF Good, r

-----------------------------------------------------------------------------
(***************************************************************************)
(* The timeline: comparisons of words, insertion and removal.              *)
(***************************************************************************)

\* Tasks whose virtual time is that of the same CPU are compared as their integers are.
LEMMA BeforeExact ==
  ASSUME NEW v, NEW M, NEW X, NEW e, NEW B, NEW A, Good(v, M, X, e, B, A),
         NEW c \in Cpus, NEW a \in A, NEW b \in A, v.se[a].cpu = c, v.se[b].cpu = c
  PROVE  /\ entity_before(v, a, b) <=> X[a] < X[b]
         /\ Diff(v.se[a].vruntime, v.se[b].vruntime) = X[a] - X[b]
  <1>1. Typed(v, M, X, e, B, A) /\ CpuOk(v, M, X, e, B, A, c)
    BY DEF Good
  <1>2. a \in Tasks /\ b \in Tasks
    BY <1>1 DEF Typed
  <1>3. TaskOk(v, M, X, e, B, A, c, a) /\ TaskOk(v, M, X, e, B, A, c, b)
    BY <1>1, <1>2 DEF CpuOk
  <1>4. /\ X[a] \in Int /\ X[b] \in Int /\ InitMin[c] \in Int /\ thresh \in Nat /\ B \in Nat /\ Reach \in Nat
        /\ B <= Reach /\ VMod > 4 * (thresh + Reach) /\ VMod \in Nat
        /\ Pend(v, c, a) \in Nat /\ Pend(v, c, b) \in Nat
    BY <1>1, <1>2, TypedFacts
  <1>5. /\ X[a] >= InitMin[c] - thresh /\ X[a] <= InitMin[c] + B
        /\ X[b] >= InitMin[c] - thresh /\ X[b] <= InitMin[c] + B
    BY <1>3, <1>4 DEF TaskOk
  <1>6. 2 * (X[a] - X[b]) < VMod /\ 2 * (X[b] - X[a]) < VMod
    BY <1>4, <1>5
  <1>7. Diff(X[a] % VMod, X[b] % VMod) = X[a] - X[b]
    BY <1>4, <1>6, DiffExact
  <1>8. v.se[a].vruntime = X[a] % VMod /\ v.se[b].vruntime = X[b] % VMod
    BY <1>3 DEF TaskOk
  <1> QED BY <1>4, <1>7, <1>8 DEF entity_before

\* What is in the timeline is of this CPU, and has absolute time.
LEMMA TimelineFacts ==
  ASSUME NEW v, NEW M, NEW X, NEW e, NEW B, NEW A, Good(v, M, X, e, B, A), NEW c \in Cpus
  PROVE  LET tl == v.rq[c].timeline
         IN  /\ tl \in Seq(Tasks) /\ Injective(tl) /\ ToSet(tl) = OnRq(v, c) \ {v.rq[c].curr} /\ Sorted(tl, X)
             /\ \A i \in DOMAIN tl : tl[i] \in A /\ tl[i] \in OnRq(v, c) /\ v.se[tl[i]].cpu = c /\ tl[i] # v.rq[c].curr
             /\ \A t \in OnRq(v, c) : t \in A /\ t \in Tasks /\ v.se[t].cpu = c /\ v.se[t].on_rq
  <1> DEFINE tl == v.rq[c].timeline
  <1>1. Typed(v, M, X, e, B, A) /\ CpuOk(v, M, X, e, B, A, c)
    BY DEF Good
  <1>2. tl \in Seq(Tasks) /\ Injective(tl) /\ ToSet(tl) = OnRq(v, c) \ {v.rq[c].curr} /\ Sorted(tl, X)
    BY <1>1, Parts DEF Typed, CpuOk, Queue, RqType
  <1>3. \A t \in OnRq(v, c) : t \in A /\ t \in Tasks /\ v.se[t].cpu = c /\ v.se[t].on_rq
    BY <1>1 DEF CpuOk, TaskOk, OnRq
  <1>4. \A i \in DOMAIN tl : tl[i] \in ToSet(tl)
    BY DEF ToSet
  <1> HIDE DEF tl
  <1> QED BY <1>2, <1>3, <1>4 DEF tl

\* An entity that enters the timeline leaves it sorted, and leads it if it is due before the
\* head; equal vruntimes do not overtake.
LEMMA EnqueueFacts ==
  ASSUME NEW v, NEW M, NEW X, NEW e, NEW B, NEW A, Good(v, M, X, e, B, A),
         NEW c \in Cpus, NEW s \in A, v.se[s].cpu = c, s \notin ToSet(v.rq[c].timeline)
  PROVE  LET r  == __enqueue_entity(v, c, s)
             tl == v.rq[c].timeline
             t2 == r.rq[c].timeline
         IN  /\ r \in VType /\ r.se = v.se /\ \A d \in Cpus : d # c => r.rq[d] = v.rq[d]
             /\ r.rq[c] = [v.rq[c] EXCEPT !.timeline = t2]
             /\ t2 \in Seq(Tasks) /\ Injective(t2) /\ ToSet(t2) = ToSet(tl) \cup {s} /\ Sorted(t2, X)
             /\ t2 # <<>> /\ Head(t2) = IF tl # <<>> /\ ~entity_before(v, s, Head(tl)) THEN Head(tl) ELSE s
  <1> DEFINE tl == v.rq[c].timeline
             I  == {k \in DOMAIN tl : ~entity_before(v, s, tl[k])}
             i  == Cardinality(I)
             t2 == InsertAt(tl, i + 1, s)
             q  == [v.rq[c] EXCEPT !.timeline = t2]
  <1>1. Typed(v, M, X, e, B, A) /\ s \in Tasks
    BY DEF Good, Typed
  <1>2. /\ tl \in Seq(Tasks) /\ Injective(tl) /\ Sorted(tl, X)
        /\ \A k \in DOMAIN tl : tl[k] \in A /\ v.se[tl[k]].cpu = c
    BY TimelineFacts
  <1>3. \A k \in DOMAIN tl : k \in I <=> X[tl[k]] <= X[s]
    <2>1. ASSUME NEW k \in DOMAIN tl PROVE k \in I <=> X[tl[k]] <= X[s]
      <3>1. X[s] \in Int /\ X[tl[k]] \in Int
        BY <1>1, <1>2 DEF Typed
      <3>2. entity_before(v, s, tl[k]) <=> X[s] < X[tl[k]]
        BY <1>2, BeforeExact
      <3> QED BY <3>1, <3>2
    <2> QED BY <2>1
  <1>4. i \in 0 .. Len(tl) /\ I = 1 .. i
    <2>1. DOMAIN tl = 1 .. Len(tl) /\ Len(tl) \in Nat
      BY <1>2
    <2>2. ASSUME NEW k \in I, NEW j \in 1 .. Len(tl), j < k PROVE j \in I
      <3>1. X[tl[k]] <= X[s] /\ X[tl[j]] <= X[tl[k]]
        BY <1>2, <1>3, <2>1, <2>2 DEF Sorted
      <3>2. X[s] \in Int /\ X[tl[k]] \in Int /\ X[tl[j]] \in Int
        BY <1>1, <1>2, <2>1 DEF Typed
      <3> QED BY <1>3, <2>1, <3>1, <3>2
    <2>3. I \in SUBSET (1 .. Len(tl))
      BY <2>1
    <2> HIDE DEF I, tl
    <2> QED BY <2>1, <2>2, <2>3, InitialSegment
  <1>5. /\ t2 \in Seq(Tasks) /\ Len(t2) = Len(tl) + 1
        /\ \A j \in 1 .. Len(tl) + 1 :
             t2[j] = IF j <= i THEN tl[j] ELSE IF j = i + 1 THEN s ELSE tl[j - 1]
        /\ ToSet(t2) = ToSet(tl) \cup {s} /\ Injective(t2)
    <2>1. tl \in Seq(Tasks) /\ s \in Tasks /\ i \in 0 .. Len(tl) /\ Injective(tl) /\ s \notin ToSet(tl)
      BY <1>1, <1>2, <1>4
    <2> HIDE DEF i, tl
    <2> QED BY <2>1, InsertFacts
  <1>6. __enqueue_entity(v, c, s) = WithRq(v, c, q)
    BY <1>1 DEF __enqueue_entity, WithRq, VType, Typed
  <1> HIDE DEF t2, i, I
  <1>7. q \in RqType /\ q.timeline = t2
    <2>1. v.rq[c] \in RqType
      BY <1>1, Parts DEF Typed
    <2> QED BY <1>5, <2>1 DEF RqType
  <1> HIDE DEF q
  <1>8. Sorted(t2, X)
    <2>1. \A k \in 1 .. Len(tl) : X[tl[k]] \in Int
      BY <1>1, <1>2 DEF Typed
    <2>2. X[s] \in Int
      BY <1>1 DEF Typed
    <2>3. \A k \in 1 .. Len(tl) : k <= i <=> X[tl[k]] <= X[s]
      BY <1>2, <1>3, <1>4
    <2> SUFFICES ASSUME NEW a \in 1 .. Len(tl) + 1, NEW b \in 1 .. Len(tl) + 1, a < b
                 PROVE  X[t2[a]] <= X[t2[b]]
      BY <1>5 DEF Sorted
    <2>4. \A j, k \in 1 .. Len(tl) : j < k => X[tl[j]] <= X[tl[k]]
      BY <1>2 DEF Sorted
    <2>5. Len(tl) \in Nat /\ i \in 0 .. Len(tl)
      BY <1>2, <1>4
    <2>9. i + 1 \in 1 .. Len(tl) + 1 /\ t2[i + 1] = s
      BY <1>5, <2>5
    <2> HIDE DEF tl
    <2>6. CASE b <= i
      BY <1>5, <2>4, <2>5, <2>6
    <2>7. CASE b = i + 1
      <3>1. t2[b] = s /\ t2[a] = tl[a] /\ a \in 1 .. Len(tl) /\ a <= i
        BY <1>5, <2>5, <2>7
      <3> QED BY <2>3, <3>1
    <2>8. CASE b > i + 1
      <3>1. t2[b] = tl[b - 1] /\ b - 1 \in 1 .. Len(tl) /\ b - 1 > i
        BY <1>5, <2>5, <2>8
      <3>2. CASE a <= i
        <4>1. t2[a] = tl[a] /\ a \in 1 .. Len(tl) /\ a < b - 1
          BY <1>5, <2>5, <2>8, <3>2
        <4> QED BY <2>4, <3>1, <4>1
      <3>3. CASE a = i + 1
        <4>1. t2[a] = s
          BY <2>9, <3>3
        <4>2. ~(X[tl[b - 1]] <= X[s])
          BY <2>3, <2>5, <3>1
        <4> QED BY <2>1, <2>2, <3>1, <4>1, <4>2
      <3>4. CASE a > i + 1
        <4>1. t2[a] = tl[a - 1] /\ a - 1 \in 1 .. Len(tl) /\ a - 1 < b - 1
          BY <1>5, <2>5, <3>4
        <4> QED BY <2>4, <3>1, <4>1
      <3> QED BY <2>5, <3>2, <3>3, <3>4
    <2> QED BY <2>5, <2>6, <2>7, <2>8
  <1>9. t2 # <<>> /\ Head(t2) = IF tl # <<>> /\ ~entity_before(v, s, Head(tl)) THEN Head(tl) ELSE s
    <2>1. t2 # <<>> /\ Head(t2) = t2[1]
      BY <1>5
    <2>2. CASE tl = <<>>
      <3>1. i = 0 /\ Len(tl) = 0
        BY <1>4, <2>2
      <3> HIDE DEF tl
      <3> QED BY <1>5, <2>1, <2>2, <3>1
    <2>3. CASE tl # <<>>
      <3>1. Head(tl) = tl[1] /\ 1 \in DOMAIN tl /\ 1 \in 1 .. Len(tl) + 1
        BY <1>2, <2>3
      <3>2. ~entity_before(v, s, Head(tl)) <=> 1 \in I
        BY <3>1 DEF I
      <3>3. 1 \in I <=> 1 <= i
        BY <1>4
      <3>4. t2[1] = IF 1 <= i THEN tl[1] ELSE s
        BY <1>4, <1>5, <3>1
      <3> QED BY <2>1, <2>3, <3>1, <3>2, <3>3, <3>4
    <2> QED BY <2>2, <2>3
  <1> DEFINE r == __enqueue_entity(v, c, s)
  <1>10. r \in VType /\ r.se = v.se /\ r.rq[c] = q /\ \A d \in Cpus : d # c => r.rq[d] = v.rq[d]
    BY <1>1, <1>6, <1>7, WithRqFacts DEF Typed
  <1>11. r.rq[c].timeline = t2
    BY <1>7, <1>10
  <1> HIDE DEF r
  <1> QED BY <1>5, <1>8, <1>9, <1>10, <1>11 DEF r, q

\* An entity that leaves the timeline leaves it sorted and, if it is not the head, with its head.
LEMMA DequeueFacts ==
  ASSUME NEW v, NEW M, NEW X, NEW e, NEW B, NEW A, Good(v, M, X, e, B, A),
         NEW c \in Cpus, NEW s \in ToSet(v.rq[c].timeline)
  PROVE  LET r  == __dequeue_entity(v, c, s)
             tl == v.rq[c].timeline
             t2 == r.rq[c].timeline
         IN  /\ r \in VType /\ r.se = v.se /\ \A d \in Cpus : d # c => r.rq[d] = v.rq[d]
             /\ r.rq[c] = [v.rq[c] EXCEPT !.timeline = t2]
             /\ t2 \in Seq(Tasks) /\ Injective(t2) /\ ToSet(t2) = ToSet(tl) \ {s} /\ Sorted(t2, X)
             /\ s # Head(tl) => t2 # <<>> /\ Head(t2) = Head(tl)
  <1> DEFINE tl == v.rq[c].timeline
             t2 == RemoveFirst(tl, s)
             q  == [v.rq[c] EXCEPT !.timeline = t2]
  <1>1. Typed(v, M, X, e, B, A)
    BY DEF Good
  <1>2. tl \in Seq(Tasks) /\ Injective(tl) /\ Sorted(tl, X)
    BY TimelineFacts
  <1>3. __dequeue_entity(v, c, s) = WithRq(v, c, q)
    BY <1>1 DEF __dequeue_entity, WithRq, VType, Typed
  <1>4. t2 \in Seq(Tasks) /\ Injective(t2) /\ ToSet(t2) = ToSet(tl) \ {s}
    BY <1>2, RemoveFirstFacts
  <1>5. Sorted(t2, X)
    <2> SUFFICES ASSUME NEW i \in DOMAIN t2, NEW j \in DOMAIN t2, i < j PROVE X[t2[i]] <= X[t2[j]]
      BY DEF Sorted
    <2>1. PICK a, b \in DOMAIN tl : a < b /\ t2[i] = tl[a] /\ t2[j] = tl[b]
      BY <1>2, RemoveFirstOrder
    <2> QED BY <1>2, <2>1 DEF Sorted
  <1>6. s # Head(tl) => t2 # <<>> /\ Head(t2) = Head(tl)
    <2>1. tl # <<>>
      BY DEF ToSet
    <2>2. Head(tl) = tl[1]
      BY <1>2, <2>1
    <2> QED BY <1>2, <2>2, RemoveFirstHead
  <1> HIDE DEF t2
  <1>7. q \in RqType /\ q.timeline = t2
    <2>1. v.rq[c] \in RqType
      BY <1>1, Parts DEF Typed
    <2> QED BY <1>4, <2>1 DEF RqType
  <1> HIDE DEF q
  <1> DEFINE r == __dequeue_entity(v, c, s)
  <1>8. r \in VType /\ r.se = v.se /\ r.rq[c] = q /\ \A d \in Cpus : d # c => r.rq[d] = v.rq[d]
    BY <1>1, <1>3, <1>7, WithRqFacts DEF Typed
  <1>9. r.rq[c].timeline = t2
    BY <1>7, <1>8
  <1> HIDE DEF r
  <1> QED BY <1>4, <1>5, <1>6, <1>8, <1>9 DEF r, q

\* A task enters or leaves a run queue or becomes or ceases to be curr.
LEMMA Restructured ==
  ASSUME NEW v, NEW M, NEW X, NEW e, NEW B, NEW A, Good(v, M, X, e, B, A),
         NEW c \in Cpus, NEW s \in Tasks, v.se[s].cpu = c,
         NEW r \in VType, \A d \in Cpus : d # c => r.rq[d] = v.rq[d],
         \A t \in Tasks : t # s => r.se[t] = v.se[t],
         r.se[s].cpu = c, r.se[s].vruntime = v.se[s].vruntime, r.rq[c].min_vruntime = v.rq[c].min_vruntime,
         \/ r.rq[c].delta = 0
         \/ r.rq[c].delta = v.rq[c].delta /\ r.rq[c].curr = v.rq[c].curr,
         CurrOk(r, e, A, c), Queue(r, c), Buddy(r, c), Sorted(r.rq[c].timeline, X),
         r.se[s].on_rq => s \in A /\ X[s] >= M[c] - thresh
  PROVE  Good(r, M, X, e, B, A)
  <1>1. Typed(v, M, X, e, B, A) /\ \A d \in Cpus : CpuOk(v, M, X, e, B, A, d)
    BY DEF Good
  <1>2. Typed(r, M, X, e, B, A)
    BY <1>1 DEF Typed
  <1>3. ASSUME NEW d \in Cpus, d # c PROVE CpuOk(r, M, X, e, B, A, d)
    <2>1. e <= e /\ B <= B
      BY <1>1, TypedFacts
    <2>2. \A t \in Tasks : r.se[t].cpu = d \/ v.se[t].cpu = d => t # s
      BY <1>3
    <2> QED BY <1>2, <1>3, <2>1, <2>2, Elsewhere
  <1>4. ASSUME NEW t \in Tasks, r.se[t].cpu = c PROVE TaskOk(r, M, X, e, B, A, c, t)
    <2>1. TaskOk(v, M, X, e, B, A, c, t)
      BY <1>1, <1>4 DEF CpuOk
    <2>2. Pend(r, c, t) \in Nat /\ Pend(v, c, t) \in Nat /\ Pend(r, c, t) <= Pend(v, c, t)
      <3>1. Pend(r, c, t) \in Nat /\ Pend(v, c, t) \in Nat
        BY <1>1, <1>2, TypedFacts
      <3>2. r.rq[c].delta = v.rq[c].delta /\ r.rq[c].curr = v.rq[c].curr => Pend(r, c, t) = Pend(v, c, t)
        BY DEF Pend
      <3>3. r.rq[c].delta = 0 => Pend(r, c, t) = 0
        BY SliceAssumption DEF Pend
      <3> QED BY <3>1, <3>2, <3>3
    <2>3. /\ X[t] \in Int /\ M[c] \in Int /\ InitMin[c] \in Int /\ B \in Int /\ Horizon(e) \in Int
      BY <1>1, TypedFacts
    <2>4. r.se[t].vruntime = v.se[t].vruntime /\ (r.se[t].on_rq => t \in A /\ X[t] >= M[c] - thresh)
      BY <2>1 DEF TaskOk
    <2> QED BY <2>1, <2>2, <2>3, <2>4 DEF TaskOk
  <1>5. CpuOk(r, M, X, e, B, A, c)
    BY <1>1, <1>4 DEF CpuOk, MinOk
  <1> QED BY <1>2, <1>3, <1>5 DEF Good

-----------------------------------------------------------------------------
(***************************************************************************)
(* Time passes: min_vruntime follows, curr is charged.                     *)
(***************************************************************************)

\* A step on CPU c: no min_vruntime falls, no other task's place or state changes,
\* and what is not in the time of a CPU keeps its value.  s is the task it is about.
Local(v, M, X, r, M2, X2, A, c, s) ==
  /\ \A d \in Cpus : M[d] <= M2[d] /\ (d # c => r.rq[d] = v.rq[d])
  /\ \A t \in Tasks \ {s} : SameTask(v, r, t) /\ (t \notin A => X2[t] = X[t])

\* No vruntime but that of k changes.
OnlyOf(X, X2, k) == \A t \in Tasks : t # k => X2[t] = X[t]

\* What two updates on one CPU leave alone, both together leave alone.
LEMMA LocalTrans ==
  ASSUME NEW v, NEW M \in [Cpus -> Int], NEW X, NEW A,
         NEW w, NEW M1 \in [Cpus -> Int], NEW X1, NEW A1,
         NEW r, NEW M2 \in [Cpus -> Int], NEW X2, NEW c, NEW s,
         Local(v, M, X, w, M1, X1, A, c, s), Local(w, M1, X1, r, M2, X2, A1, c, s), A1 \ {s} = A \ {s}
  PROVE  Local(v, M, X, r, M2, X2, A, c, s)
  <1>1. ASSUME NEW d \in Cpus PROVE M[d] <= M2[d] /\ (d # c => r.rq[d] = v.rq[d])
    BY DEF Local
  <1>2. ASSUME NEW t \in Tasks \ {s} PROVE SameTask(v, r, t) /\ (t \notin A => X2[t] = X[t])
    BY DEF Local, SameTask
  <1> QED BY <1>1, <1>2 DEF Local

\* min_vruntime may advance as far as nobody who is queued is behind it by more than the credit.
LEMMA Remin ==
  ASSUME NEW v, NEW M, NEW X, NEW e, NEW B, NEW A, Good(v, M, X, e, B, A),
         NEW c \in Cpus, NEW m \in Int, M[c] <= m, m <= InitMin[c] + B,
         \A t \in OnRq(v, c) : X[t] >= m - thresh
  PROVE  /\ Good([v EXCEPT !.rq[c].min_vruntime = m % VMod], [M EXCEPT ![c] = m], X, e, B, A)
         /\ Local(v, M, X, [v EXCEPT !.rq[c].min_vruntime = m % VMod], [M EXCEPT ![c] = m], X, A, c, None)
  <1> DEFINE q  == [v.rq[c] EXCEPT !.min_vruntime = m % VMod]
             r  == WithRq(v, c, q)
             M2 == [M EXCEPT ![c] = m]
  <1>1. Typed(v, M, X, e, B, A) /\ \A d \in Cpus : CpuOk(v, M, X, e, B, A, d)
    BY DEF Good
  <1>2. [v EXCEPT !.rq[c].min_vruntime = m % VMod] = r
    BY <1>1 DEF WithRq, VType, Typed
  <1>3. v.rq[c] \in RqType
    BY <1>1, Parts DEF Typed
  <1>4. /\ q \in RqType /\ q.min_vruntime = m % VMod /\ q.timeline = v.rq[c].timeline /\ q.curr = v.rq[c].curr
        /\ q.delta = v.rq[c].delta /\ q.last = v.rq[c].last /\ q.next = v.rq[c].next /\ q.skip = v.rq[c].skip
    <2>1. m % VMod \in 0 .. VMod - 1
      BY WordTyped
    <2> DEFINE x == m % VMod
    <2> HIDE DEF x
    <2>2. x \in 0 .. VMod - 1
      BY <2>1 DEF x
    <2>3. [v.rq[c] EXCEPT !.min_vruntime = x] \in RqType
      BY <1>3, <2>2 DEF RqType
    <2> QED BY <1>3, <2>3 DEF RqType, x
  <1> HIDE DEF q
  <1>5. r \in VType /\ r.se = v.se /\ r.rq[c] = q /\ \A d \in Cpus : d # c => r.rq[d] = v.rq[d]
    BY <1>1, <1>4, WithRqFacts DEF Typed
  <1>6. M2 \in [Cpus -> Int] /\ M2[c] = m /\ \A d \in Cpus : d # c => M2[d] = M[d]
    BY <1>1 DEF Typed
  <1> HIDE DEF r, M2
  <1>7. Typed(r, M2, X, e, B, A)
    BY <1>1, <1>5, <1>6 DEF Typed
  <1>8. ASSUME NEW d \in Cpus, d # c PROVE CpuOk(r, M2, X, e, B, A, d)
    <2>1. e <= e /\ B <= B
      BY <1>1, TypedFacts
    <2> QED BY <1>5, <1>6, <1>7, <1>8, <2>1, Elsewhere
  <1>9. CpuOk(r, M2, X, e, B, A, c)
    <2>1. CpuOk(v, M, X, e, B, A, c) /\ M[c] \in Int /\ InitMin[c] \in Int /\ B \in Int
      BY <1>1, TypedFacts
    <2>2. OnRq(r, c) = OnRq(v, c)
      BY <1>5 DEF OnRq
    <2>3. MinOk(r, M2, B, c) /\ CurrOk(r, e, A, c)
      BY <1>4, <1>5, <1>6, <2>1 DEF CpuOk, MinOk, CurrOk
    <2>4. Queue(r, c) /\ Buddy(r, c) /\ Sorted(r.rq[c].timeline, X)
      BY <1>4, <1>5, <2>1, <2>2 DEF CpuOk, Queue, Buddy
    <2>5. ASSUME NEW t \in Tasks, r.se[t].cpu = c PROVE TaskOk(r, M2, X, e, B, A, c, t)
      <3>1. TaskOk(v, M, X, e, B, A, c, t)
        BY <1>5, <2>1, <2>5 DEF CpuOk
      <3>2. Pend(r, c, t) = Pend(v, c, t) /\ Pend(v, c, t) \in Nat
        BY <1>1, <1>4, <1>5, TypedFacts DEF Pend
      <3>3. X[t] \in Int /\ Horizon(e) \in Int /\ thresh \in Int
        BY <1>1, TypedFacts
      <3>4. r.se[t].on_rq => X[t] >= m - thresh
        BY <1>5, <2>5 DEF OnRq
      <3> QED BY <1>5, <1>6, <2>1, <3>1, <3>2, <3>3, <3>4 DEF TaskOk
    <2> QED BY <2>3, <2>4, <2>5 DEF CpuOk
  <1>10. Local(v, M, X, r, M2, X, A, c, None)
    <2>1. \A d \in Cpus : M[d] \in Int
      BY <1>1 DEF Typed
    <2> QED BY <1>5, <1>6, <2>1 DEF Local, SameTask
  <1> QED BY <1>2, <1>7, <1>8, <1>9, <1>10 DEF Good, M2

\* Least is the least of what is queued.
LEMMA LeastFacts ==
  ASSUME NEW v, NEW M, NEW X, NEW e, NEW B, NEW A, Good(v, M, X, e, B, A), NEW c \in Cpus
  PROVE  \/ OnRq(v, c) = {} /\ Least(v, c) = v.rq[c].min_vruntime
         \/ \E l \in OnRq(v, c) : Least(v, c) = v.se[l].vruntime /\ \A t \in OnRq(v, c) : X[l] <= X[t]
  <1> DEFINE tl    == v.rq[c].timeline
             first == __pick_first_entity(v, c)
             curr  == v.rq[c].curr
             runs  == curr # None /\ v.se[curr].on_rq
  <1>1. Typed(v, M, X, e, B, A) /\ CpuOk(v, M, X, e, B, A, c)
    BY DEF Good
  <1>2. /\ tl \in Seq(Tasks) /\ ToSet(tl) = OnRq(v, c) \ {curr} /\ Sorted(tl, X)
        /\ \A t \in OnRq(v, c) : t \in A /\ t \in Tasks /\ v.se[t].cpu = c /\ v.se[t].on_rq
    BY TimelineFacts
  <1>3. \A t \in Tasks : X[t] \in Int
    BY <1>1 DEF Typed
  <1>4. curr \in Tasks \cup {None}
    BY <1>1, Parts DEF Typed, RqType
  <1>5. runs => curr \in OnRq(v, c)
    BY <1>1, <1>4 DEF CpuOk, CurrOk, OnRq
  <1>6. ~runs => curr \notin OnRq(v, c)
    BY NoneFacts DEF OnRq
  <1>7. CASE tl = <<>>
    <2>1. first = None /\ OnRq(v, c) \subseteq {curr}
      BY <1>2, <1>7 DEF __pick_first_entity, ToSet
    <2>2. CASE runs
      <3>1. Least(v, c) = v.se[curr].vruntime
        BY <2>1, <2>2 DEF Least
      <3>2. \A t \in OnRq(v, c) : t = curr
        BY <2>1
      <3>3. curr \in Tasks /\ X[curr] <= X[curr]
        BY <1>3, <1>4, <2>2
      <3> QED BY <1>5, <2>2, <3>1, <3>2, <3>3
    <2>3. CASE ~runs
      BY <1>6, <2>1, <2>3 DEF Least
    <2> QED BY <2>2, <2>3
  <1>8. CASE tl # <<>>
    <2>1. /\ first = tl[1] /\ first # None /\ first \in OnRq(v, c) /\ first \in Tasks
          /\ \A t \in ToSet(tl) : X[first] <= X[t]
      <3>1. first # None /\ first = tl[1] /\ first \in ToSet(tl)
        BY <1>1, <1>8, FirstFacts DEF Typed
      <3>2. \A i \in DOMAIN tl : 1 \in DOMAIN tl /\ i \in Nat /\ 1 <= i /\ tl[i] \in Tasks
        BY <1>2
      <3>3. ASSUME NEW t \in ToSet(tl) PROVE X[first] <= X[t]
        <4>1. PICK i \in DOMAIN tl : t = tl[i]
          BY DEF ToSet
        <4>2. CASE i = 1
          BY <1>3, <3>1, <3>2, <4>1, <4>2
        <4>3. CASE i # 1
          BY <1>2, <3>1, <3>2, <4>1, <4>3 DEF Sorted
        <4> QED BY <4>2, <4>3
      <3> QED BY <1>2, <3>1, <3>3
    <2>2. CASE runs
      <3>0. curr \in OnRq(v, c)
        BY <1>5, <2>2
      <3>1. entity_before(v, first, curr) <=> X[first] < X[curr]
        BY <1>2, <2>1, <3>0, BeforeExact
      <3>2. Least(v, c) = IF entity_before(v, first, curr) THEN v.se[first].vruntime ELSE v.se[curr].vruntime
        BY <2>1, <2>2 DEF Least, min_vruntime, entity_before
      <3>3. \A t \in OnRq(v, c) : t \in Tasks /\ (t = curr \/ t \in ToSet(tl))
        BY <1>2
      <3>4. CASE X[first] < X[curr]
        <4>1. \A t \in OnRq(v, c) : X[first] <= X[t]
          BY <1>3, <2>1, <3>3, <3>4
        <4> QED BY <2>1, <3>1, <3>2, <3>4, <4>1
      <3>5. CASE ~(X[first] < X[curr])
        <4>1. \A t \in OnRq(v, c) : X[curr] <= X[t]
          BY <1>3, <2>1, <3>0, <3>3, <3>5
        <4> QED BY <3>0, <3>1, <3>2, <3>5, <4>1
      <3> QED BY <3>4, <3>5
    <2>3. CASE ~runs
      <3>1. Least(v, c) = v.se[first].vruntime
        BY <2>1, <2>3 DEF Least
      <3>2. OnRq(v, c) = ToSet(tl)
        BY <1>2, <1>6, <2>3
      <3> QED BY <2>1, <3>1, <3>2
    <2> QED BY <2>2, <2>3
  <1> QED BY <1>7, <1>8

\* update_min_vruntime keeps the run queue in order and never turns min_vruntime back.
LEMMA UpdateMinGood ==
  ASSUME NEW v, NEW M, NEW X, NEW e, NEW B, NEW A, Good(v, M, X, e, B, A), NEW c \in Cpus
  PROVE  \E M2 \in [Cpus -> Int] : /\ Good(update_min_vruntime(v, c), M2, X, e, B, A)
                                   /\ Local(v, M, X, update_min_vruntime(v, c), M2, X, A, c, None)
  <1>1. Typed(v, M, X, e, B, A) /\ CpuOk(v, M, X, e, B, A, c)
    BY DEF Good
  <1>2. /\ M[c] \in Int /\ InitMin[c] \in Int /\ thresh \in Nat /\ B \in Nat /\ Reach \in Nat
        /\ B <= Reach /\ VMod > 4 * (thresh + Reach) /\ VMod \in Nat
    BY <1>1, TypedFacts
  <1>3. v.rq[c].min_vruntime = M[c] % VMod /\ InitMin[c] <= M[c] /\ M[c] <= InitMin[c] + B
    BY <1>1 DEF CpuOk, MinOk
  <1>4. \A t \in OnRq(v, c) : X[t] \in Int /\ TaskOk(v, M, X, e, B, A, c, t) /\ v.se[t].on_rq
    BY <1>1 DEF CpuOk, OnRq, Typed
  <1>5. PICK m \in Int : /\ max_vruntime(v.rq[c].min_vruntime, Least(v, c)) = m % VMod
                         /\ M[c] <= m /\ m <= InitMin[c] + B /\ \A t \in OnRq(v, c) : X[t] >= m - thresh
    <2>1. CASE OnRq(v, c) = {} /\ Least(v, c) = v.rq[c].min_vruntime
      <3>1. max_vruntime(v.rq[c].min_vruntime, Least(v, c)) = M[c] % VMod
        BY <1>3, <2>1 DEF max_vruntime
      <3>2. M[c] <= M[c] /\ \A t \in OnRq(v, c) : X[t] >= M[c] - thresh
        BY <1>2, <2>1
      <3> QED BY <1>2, <1>3, <3>1, <3>2
    <2>2. ASSUME NEW l \in OnRq(v, c), Least(v, c) = v.se[l].vruntime, \A t \in OnRq(v, c) : X[l] <= X[t]
          PROVE  \E m \in Int : /\ max_vruntime(v.rq[c].min_vruntime, Least(v, c)) = m % VMod
                                /\ M[c] <= m /\ m <= InitMin[c] + B /\ \A t \in OnRq(v, c) : X[t] >= m - thresh
      <3>1. TaskOk(v, M, X, e, B, A, c, l) /\ X[l] \in Int /\ Pend(v, c, l) \in Nat
        <4>1. l \in Tasks
          BY DEF OnRq
        <4> QED BY <1>1, <1>4, <4>1, TypedFacts
      <3>2. v.se[l].vruntime = X[l] % VMod /\ X[l] >= M[c] - thresh /\ X[l] <= InitMin[c] + B
        BY <1>2, <1>4, <3>1 DEF TaskOk
      <3>3. 2 * (X[l] - M[c]) < VMod /\ 2 * (M[c] - X[l]) < VMod
        BY <1>2, <1>3, <3>1, <3>2
      <3>4. Diff(X[l] % VMod, M[c] % VMod) = X[l] - M[c]
        BY <1>2, <3>1, <3>3, DiffExact
      <3>5. CASE X[l] > M[c]
        <4>1. max_vruntime(v.rq[c].min_vruntime, Least(v, c)) = X[l] % VMod
          BY <1>2, <1>3, <2>2, <3>1, <3>2, <3>4, <3>5 DEF max_vruntime
        <4>2. M[c] <= X[l] /\ \A t \in OnRq(v, c) : X[t] >= X[l] - thresh
          BY <1>2, <1>4, <2>2, <3>1, <3>5
        <4> QED BY <3>1, <3>2, <4>1, <4>2
      <3>6. CASE ~(X[l] > M[c])
        <4>1. max_vruntime(v.rq[c].min_vruntime, Least(v, c)) = M[c] % VMod
          BY <1>2, <1>3, <2>2, <3>1, <3>2, <3>4, <3>6 DEF max_vruntime
        <4>2. \A t \in OnRq(v, c) : X[t] >= M[c] - thresh
          BY <1>4 DEF TaskOk
        <4>3. M[c] <= M[c]
          BY <1>2
        <4> QED BY <1>2, <1>3, <4>1, <4>2, <4>3
      <3> QED BY <3>5, <3>6
    <2> QED BY <2>1, <2>2, LeastFacts
  <1>6. update_min_vruntime(v, c) = [v EXCEPT !.rq[c].min_vruntime = m % VMod]
    <2> DEFINE x == max_vruntime(v.rq[c].min_vruntime, Least(v, c))
    <2>1. update_min_vruntime(v, c) = [v EXCEPT !.rq[c].min_vruntime = x]
      BY <1>1 DEF update_min_vruntime, Typed, VType
    <2> HIDE DEF x
    <2>2. x = m % VMod
      BY <1>5 DEF x
    <2> QED BY <2>1, <2>2
  <1>7. [M EXCEPT ![c] = m] \in [Cpus -> Int]
    BY <1>1 DEF Typed
  <1>8. /\ Good([v EXCEPT !.rq[c].min_vruntime = m % VMod], [M EXCEPT ![c] = m], X, e, B, A)
        /\ Local(v, M, X, [v EXCEPT !.rq[c].min_vruntime = m % VMod], [M EXCEPT ![c] = m], X, A, c, None)
    BY <1>5, Remin
  <1> DEFINE M2 == [M EXCEPT ![c] = m]
             r  == update_min_vruntime(v, c)
  <1>9. M2 \in [Cpus -> Int] /\ Good(r, M2, X, e, B, A) /\ Local(v, M, X, r, M2, X, A, c, None)
    BY <1>6, <1>7, <1>8
  <1> HIDE DEF M2, r
  <1> QED BY <1>9 DEF r

\* update_curr keeps the run queue in order: only curr's vruntime moves, which no timeline holds.
LEMMA UpdateCurrGood ==
  ASSUME NEW v, NEW M, NEW X, NEW e, NEW B, NEW A, Good(v, M, X, e, B, A), NEW c \in Cpus
  PROVE  \E M2 \in [Cpus -> Int], X2 \in [Tasks -> Int] :
           /\ Good(update_curr(v, c), M2, X2, e, B, A)
           /\ Local(v, M, X, update_curr(v, c), M2, X2, A, c, None)
           /\ OnlyOf(X, X2, v.rq[c].curr)
  <1>1. Typed(v, M, X, e, B, A) /\ CpuOk(v, M, X, e, B, A, c)
    BY DEF Good
  <1> DEFINE k == v.rq[c].curr
  <1>2. CASE k = None \/ v.rq[c].delta = 0
    <2>1. update_curr(v, c) = v
      BY <1>1, <1>2, UpdateCurrCharges DEF Typed
    <2>2. Local(v, M, X, v, M, X, A, c, None)
      BY <1>1 DEF Local, SameTask, Typed
    <2>3. M \in [Cpus -> Int] /\ X \in [Tasks -> Int] /\ OnlyOf(X, X, k)
      BY <1>1 DEF Typed, OnlyOf
    <2> QED BY <2>1, <2>2, <2>3
  <1>3. CASE ~(k = None \/ v.rq[c].delta = 0)
    <2> DEFINE n  == calc_delta_fair(v.rq[c].delta, v.se[k].weight)
               q  == [v.rq[c] EXCEPT !.delta = 0]
               w  == WithRq(v, c, q)
               x  == X[k] + n
               g  == [v.se[k] EXCEPT !.ran = v.se[k].ran + v.rq[c].delta,
                                     !.vruntime = (v.se[k].vruntime + n) % VMod]
               X2 == [X EXCEPT ![k] = x]
    <2>1. v.rq[c] \in RqType /\ k \in Tasks /\ v.se[k] \in SeType /\ v.se[k].cpu = c /\ k \in A
      BY <1>1, <1>3, Parts DEF Typed, RqType, CpuOk, CurrOk
    <2>2. /\ v.rq[c].delta \in 0 .. MaxTime /\ v.se[k].weight \in Weights
          /\ n \in 0 .. NICE_0_LOAD * v.rq[c].delta /\ NICE_0_LOAD * v.rq[c].delta \in Nat
      <3>1. v.rq[c].delta \in 0 .. MaxTime /\ v.se[k].weight \in Weights
        BY <2>1 DEF RqType, SeType
      <3> QED BY <3>1, VirtualTimeAssumption, HorizonFacts
    <2> HIDE DEF n
    <2>3. X[k] \in Int /\ x \in Int /\ v.se[k].vruntime = X[k] % VMod /\ TaskOk(v, M, X, e, B, A, c, k)
      <3>1. n \in Int
        BY <2>2
      <3> QED BY <1>1, <2>1, <3>1 DEF Typed, CpuOk, TaskOk
    <2>4. (v.se[k].vruntime + n) % VMod = x % VMod
      BY <2>2, <2>3, ModAdd
    <2>5. /\ q \in RqType /\ q.min_vruntime = v.rq[c].min_vruntime /\ q.timeline = v.rq[c].timeline /\ q.curr = k
          /\ q.delta = 0 /\ q.last = v.rq[c].last /\ q.next = v.rq[c].next /\ q.skip = v.rq[c].skip
      <3>1. 0 \in 0 .. MaxTime
        BY CfsRqAssumption
      <3> QED BY <2>1, <3>1 DEF RqType
    <2>6. /\ g \in SeType /\ g.vruntime = x % VMod /\ g.cpu = c /\ g.on_rq = v.se[k].on_rq
          /\ g.state = v.se[k].state /\ g.weight = v.se[k].weight
      <3>1. v.se[k].ran + v.rq[c].delta \in Nat /\ x % VMod \in 0 .. VMod - 1
        BY <2>1, <2>2, <2>3, WordTyped DEF SeType
      <3> DEFINE y == x % VMod
      <3> HIDE DEF y, x
      <3>2. [v.se[k] EXCEPT !.ran = v.se[k].ran + v.rq[c].delta, !.vruntime = y] \in SeType
        BY <2>1, <3>1 DEF SeType, y
      <3> QED BY <2>1, <2>4, <3>2 DEF SeType, y
    <2>7. Charged(v, c) = WithSe(w, k, g)
      BY DEF Charged, n
    <2> HIDE DEF q, g, x
    <2>8. Good(w, M, X, e, B, A)
      <3>1. {q.last, q.next, q.skip} \subseteq OnRq(v, c) \cup {None}
        BY <1>1, <2>5 DEF CpuOk, Buddy
      <3> QED BY <2>5, <3>1, Rerq
    <2>9. w \in VType /\ w.se = v.se /\ w.rq[c] = q /\ \A d \in Cpus : d # c => w.rq[d] = v.rq[d]
      BY <1>1, <2>5, WithRqFacts DEF Typed
    <2> HIDE DEF w
    <2>10. X2 \in [Tasks -> Int] /\ X2[k] = x /\ \A t \in Tasks : t # k => X2[t] = X[t]
      BY <1>1, <2>1, <2>3 DEF Typed
    <2> DEFINE u == WithSe(w, k, g)
    <2>11. u \in VType /\ u.rq = w.rq /\ u.se[k] = g /\ \A t \in Tasks : t # k => u.se[t] = v.se[t]
      BY <2>1, <2>6, <2>9, WithSeFacts, SMTT(30)
    <2>12. TaskOk(u, M, X2, e, B, A, c, k)
      <3>1. Pend(u, c, k) = 0 /\ Pend(v, c, k) = NICE_0_LOAD * v.rq[c].delta
        BY <2>5, <2>9, <2>11, SliceAssumption DEF Pend
      <3>2. M[c] \in Int /\ InitMin[c] \in Int /\ thresh \in Int /\ B \in Int /\ Horizon(e) \in Int
        BY <1>1, TypedFacts
      <3> HIDE DEF X2, u
      <3> QED BY <2>1, <2>2, <2>3, <2>6, <2>10, <2>11, <3>1, <3>2, SMTT(30) DEF TaskOk, x
    <2>13. Good(u, M, X2, e, B, A)
      <3>1. /\ g.cpu = w.se[k].cpu /\ g.on_rq = w.se[k].on_rq /\ k \notin ToSet(w.rq[g.cpu].timeline)
            /\ A \in SUBSET Tasks /\ B \in 0 .. Reach /\ B <= B
        <4>1. k \notin ToSet(v.rq[c].timeline)
          BY TimelineFacts
        <4>2. A \in SUBSET Tasks /\ B \in 0 .. Reach /\ B <= B
          BY <1>1, TypedFacts DEF Typed
        <4> QED BY <2>1, <2>5, <2>6, <2>9, <4>1, <4>2
      <3>2. x \in Int
        BY <2>3
      <3> QED BY <2>1, <2>6, <2>8, <2>12, <3>1, <3>2, Retask
    <2>14. Local(v, M, X, u, M, X2, A, c, None)
      <3>1. \A d \in Cpus : M[d] <= M[d]
        BY <1>1 DEF Typed
      <3>2. \A t \in Tasks : t = k \/ t # k
        OBVIOUS
      <3> HIDE DEF u, X2
      <3> QED BY <2>1, <2>6, <2>9, <2>10, <2>11, <3>1, <3>2 DEF Local, SameTask
    <2>15. PICK M2 \in [Cpus -> Int] : /\ Good(update_min_vruntime(u, c), M2, X2, e, B, A)
                                       /\ Local(u, M, X2, update_min_vruntime(u, c), M2, X2, A, c, None)
      BY <2>13, UpdateMinGood
    <2>16. update_curr(v, c) = update_min_vruntime(u, c)
      BY <1>1, <1>3, <2>7, UpdateCurrCharges DEF Typed
    <2>17. M \in [Cpus -> Int]
      BY <1>1 DEF Typed
    <2>18. Local(v, M, X, update_curr(v, c), M2, X2, A, c, None)
      BY <2>14, <2>15, <2>16, <2>17, LocalTrans
    <2>19. OnlyOf(X, X2, k)
      BY <2>10 DEF OnlyOf
    <2> HIDE DEF u, X2
    <2> QED BY <2>10, <2>15, <2>16, <2>18, <2>19
  <1> QED BY <1>2, <1>3

-----------------------------------------------------------------------------
(***************************************************************************)
(* A task's vruntime changes while it is not queued.                       *)
(***************************************************************************)

\* What the operations on a run queue leave alone.
SameCurr(v, r, c) == r.rq[c].curr = v.rq[c].curr /\ r.rq[c].pc = v.rq[c].pc
SameSelf(v, r, s) == /\ r.se[s].cpu = v.se[s].cpu /\ r.se[s].state = v.se[s].state
                     /\ r.se[s].weight = v.se[s].weight

\* A new vruntime, of no particular CPU's time.
Revalued(v, s, x) == [v EXCEPT !.se[s].vruntime = x % VMod]

\* A task that is not queued may get any vruntime, if nothing is said of it until it is placed.
LEMMA SetValue ==
  ASSUME NEW v, NEW M, NEW X, NEW e, NEW B, NEW A, Good(v, M, X, e, B, A),
         NEW s \in Tasks, ~v.se[s].on_rq, NEW x \in Int,
         v.rq[v.se[s].cpu].curr # s \/ v.rq[v.se[s].cpu].delta = 0
  PROVE  LET r == Revalued(v, s, x)
         IN  /\ Good(r, M, [X EXCEPT ![s] = x], e, B, A \ {s})
             /\ r.rq = v.rq /\ SameTask(v, r, s) /\ \A t \in Tasks : t # s => r.se[t] = v.se[t]
             /\ \A c : Local(v, M, X, r, M, [X EXCEPT ![s] = x], A, c, s)
  <1> DEFINE q  == [v.se[s] EXCEPT !.vruntime = x % VMod]
             r  == WithSe(v, s, q)
             X2 == [X EXCEPT ![s] = x]
             c  == v.se[s].cpu
  <1>1. Typed(v, M, X, e, B, A) /\ \A d \in Cpus : CpuOk(v, M, X, e, B, A, d)
    BY DEF Good
  <1>2. Revalued(v, s, x) = r
    BY <1>1 DEF Revalued, WithSe, VType, Typed
  <1>3. v.se[s] \in SeType
    BY <1>1, Parts DEF Typed
  <1>4. /\ q \in SeType /\ q.vruntime = x % VMod /\ q.cpu = c /\ q.on_rq = v.se[s].on_rq
        /\ q.state = v.se[s].state /\ q.weight = v.se[s].weight
    <2> DEFINE y == x % VMod
    <2>1. y \in 0 .. VMod - 1
      BY WordTyped
    <2> HIDE DEF y
    <2>2. [v.se[s] EXCEPT !.vruntime = y] \in SeType
      BY <1>3, <2>1 DEF SeType
    <2> QED BY <1>3, <2>2 DEF SeType, y
  <1> HIDE DEF q
  <1>5. r \in VType /\ r.rq = v.rq /\ r.se[s] = q /\ \A t \in Tasks : t # s => r.se[t] = v.se[t]
    BY <1>1, <1>4, WithSeFacts DEF Typed
  <1>6. X2 \in [Tasks -> Int] /\ X2[s] = x /\ \A t \in Tasks : t # s => X2[t] = X[t]
    BY <1>1 DEF Typed
  <1>7. TaskOk(r, M, X2, e, B, A \ {s}, c, s)
    <2> HIDE DEF r, X2
    <2> QED BY <1>4, <1>5, <1>6 DEF TaskOk
  <1>8. Good(r, M, X2, e, B, A \ {s})
    <2>1. s \notin ToSet(v.rq[c].timeline)
      <3>1. c \in Cpus
        BY <1>3 DEF SeType
      <3>2. ToSet(v.rq[c].timeline) \subseteq OnRq(v, c)
        BY <3>1, TimelineFacts, SMTT(30)
      <3> QED BY <3>2 DEF OnRq
    <2>2. B \in 0 .. Reach /\ B <= B /\ A \ {s} \in SUBSET Tasks /\ (A \ {s}) \ {s} = A \ {s}
      BY <1>1, TypedFacts DEF Typed
    <2>3. q.cpu = v.se[s].cpu /\ q.on_rq = v.se[s].on_rq
      BY <1>4
    <2>4. s \notin ToSet(v.rq[q.cpu].timeline)
      BY <1>4, <2>1
    <2>5. v.rq[q.cpu].curr # s \/ v.rq[q.cpu].delta = 0
      BY <1>4
    <2>6. TaskOk(r, M, X2, e, B, A \ {s}, q.cpu, s)
      BY <1>4, <1>7
    <2> DEFINE A2 == A \ {s}
    <2>7. A2 \in SUBSET Tasks /\ A2 \ {s} = A \ {s}
      BY <2>2
    <2> HIDE DEF A2
    <2>8. Good(r, M, X2, e, B, A2)
      BY <1>4, <2>2, <2>3, <2>4, <2>5, <2>6, <2>7, Retask DEF A2
    <2> QED BY <2>8 DEF A2
  <1>9. SameTask(v, r, s)
    BY <1>4, <1>5 DEF SameTask
  <1>10. \A d : Local(v, M, X, r, M, X2, A, d, s)
    <2>1. \A d \in Cpus : M[d] <= M[d]
      BY <1>1 DEF Typed
    <2> HIDE DEF r, X2
    <2> QED BY <1>5, <1>6, <2>1 DEF Local, SameTask
  <1> QED BY <1>2, <1>5, <1>8, <1>9, <1>10

\* A vruntime near min_vruntime is of the CPU's time.
LEMMA Join ==
  ASSUME NEW v, NEW M, NEW X, NEW e, NEW B, NEW A, Good(v, M, X, e, B, A),
         NEW s \in Tasks, NEW c \in Cpus, v.se[s].cpu = c, v.rq[c].curr # s,
         ~v.se[s].on_rq, NEW B2 \in 0 .. Reach, B <= B2,
         X[s] >= InitMin[c] - thresh, X[s] <= M[c] + Horizon(e), X[s] <= InitMin[c] + B2
  PROVE  Good(v, M, X, e, B2, A \cup {s})
  <1>1. Typed(v, M, X, e, B, A) /\ CpuOk(v, M, X, e, B, A, c)
    BY DEF Good
  <1> DEFINE q == v.se[s]
  <1>2. q \in SeType
    BY <1>1, Parts DEF Typed
  <1>3. WithSe(v, s, q) = v
    BY <1>1 DEF WithSe, Typed, VType
  <1>4. X[s] \in Int /\ [X EXCEPT ![s] = X[s]] = X
    BY <1>1 DEF Typed
  <1>5. TaskOk(v, M, X, e, B2, A \cup {s}, c, s)
    <2>1. Pend(v, c, s) = 0
      BY DEF Pend
    <2>2. M[c] \in Int /\ InitMin[c] \in Int /\ Horizon(e) \in Int
      BY <1>1, TypedFacts
    <2> QED BY <1>1, <1>4, <2>1, <2>2 DEF TaskOk, CpuOk
  <1> DEFINE A2 == A \cup {s}
  <1>6. A2 \in SUBSET Tasks /\ A2 \ {s} = A \ {s}
    BY <1>1 DEF Typed
  <1> HIDE DEF A2, q
  <1>7. q.cpu = v.se[s].cpu /\ q.on_rq = v.se[s].on_rq /\ q.cpu = c
    BY DEF q
  <1>8. TaskOk(WithSe(v, s, q), M, [X EXCEPT ![s] = X[s]], e, B2, A2, q.cpu, s)
    BY <1>3, <1>4, <1>5, <1>7 DEF A2
  <1>9. Good(WithSe(v, s, q), M, [X EXCEPT ![s] = X[s]], e, B2, A2)
    BY <1>2, <1>4, <1>6, <1>7, <1>8, Retask DEF q
  <1> QED BY <1>3, <1>4, <1>9 DEF A2

\* A task that is not queued is of no account for the rest.
LEMMA Drop ==
  ASSUME NEW v, NEW M, NEW X, NEW e, NEW B, NEW A, Good(v, M, X, e, B, A),
         NEW s \in Tasks, ~v.se[s].on_rq, v.rq[v.se[s].cpu].curr # s \/ v.rq[v.se[s].cpu].delta = 0
  PROVE  Good(v, M, X, e, B, A \ {s})
  <1> DEFINE q == v.se[s]
             c == v.se[s].cpu
  <1>1. Typed(v, M, X, e, B, A)
    BY DEF Good
  <1>2. q \in SeType /\ c \in Cpus
    BY <1>1, Parts DEF Typed, SeType
  <1>3. WithSe(v, s, q) = v
    BY <1>1 DEF WithSe, Typed, VType
  <1>4. X[s] \in Int /\ [X EXCEPT ![s] = X[s]] = X
    BY <1>1 DEF Typed
  <1>5. TaskOk(v, M, X, e, B, A \ {s}, c, s)
    BY <1>2 DEF TaskOk, Good, CpuOk
  <1> DEFINE A2 == A \ {s}
  <1>6. A2 \in SUBSET Tasks /\ A2 \ {s} = A \ {s} /\ B \in 0 .. Reach /\ B <= B
    BY <1>1, TypedFacts DEF Typed
  <1> HIDE DEF A2, q
  <1>7. q.cpu = v.se[s].cpu /\ q.on_rq = v.se[s].on_rq
    BY DEF q
  <1>8. TaskOk(WithSe(v, s, q), M, [X EXCEPT ![s] = X[s]], e, B, A2, q.cpu, s)
    BY <1>3, <1>4, <1>5, <1>7 DEF A2
  <1>9. Good(WithSe(v, s, q), M, [X EXCEPT ![s] = X[s]], e, B, A2)
    BY <1>2, <1>4, <1>6, <1>7, <1>8, Retask DEF q
  <1> QED BY <1>3, <1>4, <1>9 DEF A2

-----------------------------------------------------------------------------
(***************************************************************************)
(* In and out of the queue.                                                *)
(***************************************************************************)

\* on_rq is set and cleared.
LEMMA SetOnRq ==
  ASSUME NEW v \in VType, NEW s \in Tasks
  PROVE  /\ [v EXCEPT !.se[s].on_rq = TRUE] = WithSe(v, s, [v.se[s] EXCEPT !.on_rq = TRUE])
         /\ [v EXCEPT !.se[s].on_rq = FALSE] = WithSe(v, s, [v.se[s] EXCEPT !.on_rq = FALSE])
  <1>1. ASSUME NEW b PROVE [v EXCEPT !.se[s].on_rq = b] = WithSe(v, s, [v.se[s] EXCEPT !.on_rq = b])
    BY DEF WithSe, VType
  <1> QED BY <1>1, Zenon

\* A task is queued.
Entered(v, c, s) == [__enqueue_entity(v, c, s) EXCEPT !.se[s].on_rq = TRUE]

\* A placed task joins the timeline.
LEMMA Enter ==
  ASSUME NEW v, NEW M, NEW X, NEW e, NEW B, NEW A, Good(v, M, X, e, B, A),
         NEW c \in Cpus, NEW s \in A, v.se[s].cpu = c, v.rq[c].curr # s, ~v.se[s].on_rq,
         X[s] >= M[c] - thresh
  PROVE  LET r == Entered(v, c, s)
         IN  /\ Good(r, M, X, e, B, A) /\ Local(v, M, X, r, M, X, A, c, s)
             /\ SameSelf(v, r, s) /\ r.se[s].on_rq /\ SameCurr(v, r, c)
  <1> DEFINE w  == __enqueue_entity(v, c, s)
             q  == [w.se[s] EXCEPT !.on_rq = TRUE]
             r  == WithSe(w, s, q)
             tl == v.rq[c].timeline
             t2 == w.rq[c].timeline
  <1>1. Typed(v, M, X, e, B, A) /\ CpuOk(v, M, X, e, B, A, c) /\ s \in Tasks
    BY DEF Good, Typed
  <1>2. ToSet(tl) = OnRq(v, c) \ {v.rq[c].curr} /\ s \notin ToSet(tl) /\ s \notin OnRq(v, c)
    <2>1. ToSet(tl) = OnRq(v, c) \ {v.rq[c].curr}
      BY TimelineFacts
    <2> QED BY <2>1 DEF OnRq
  <1>3. /\ w \in VType /\ w.se = v.se /\ \A d \in Cpus : d # c => w.rq[d] = v.rq[d]
        /\ w.rq[c] = [v.rq[c] EXCEPT !.timeline = t2]
        /\ t2 \in Seq(Tasks) /\ Injective(t2) /\ ToSet(t2) = ToSet(tl) \cup {s} /\ Sorted(t2, X)
    BY <1>2, EnqueueFacts
  <1> HIDE DEF w
  <1>4. [w EXCEPT !.se[s].on_rq = TRUE] = r
    BY <1>1, <1>3, SetOnRq
  <1>5. v.se[s] \in SeType /\ v.rq[c] \in RqType /\ w.rq[c] \in RqType
    BY <1>1, <1>3, Parts DEF Typed
  <1>6. q \in SeType /\ q.on_rq = TRUE /\ q.cpu = c /\ q.vruntime = v.se[s].vruntime
        /\ q.state = v.se[s].state /\ q.weight = v.se[s].weight
    <2>1. w.se[s] \in SeType /\ w.se[s] = v.se[s]
      BY <1>3, <1>5
    <2> QED BY <2>1 DEF SeType
  <1> HIDE DEF q
  <1>7. r \in VType /\ r.rq = w.rq /\ r.se[s] = q /\ \A t \in Tasks : t # s => r.se[t] = v.se[t]
    BY <1>1, <1>3, <1>6, WithSeFacts
  <1> HIDE DEF r
  <1>8. /\ r.rq[c].curr = v.rq[c].curr /\ r.rq[c].timeline = t2 /\ r.rq[c].delta = v.rq[c].delta
        /\ r.rq[c].min_vruntime = v.rq[c].min_vruntime /\ r.rq[c].pc = v.rq[c].pc
        /\ r.rq[c].last = v.rq[c].last /\ r.rq[c].next = v.rq[c].next /\ r.rq[c].skip = v.rq[c].skip
    <2> HIDE DEF t2
    <2> QED BY <1>3, <1>5, <1>7 DEF RqType
  <1>9. OnRq(r, c) = OnRq(v, c) \cup {s}
    BY <1>1, <1>6, <1>7 DEF OnRq
  <1>10. Good(r, M, X, e, B, A)
    <2>1. CurrOk(r, e, A, c)
      <3>1. v.rq[c].curr \in Tasks \cup {None}
        BY <1>5 DEF RqType
      <3> QED BY <1>1, <1>7, <1>8, <3>1 DEF CpuOk, CurrOk
    <2>2. Queue(r, c) /\ Buddy(r, c) /\ Sorted(r.rq[c].timeline, X)
      BY <1>1, <1>2, <1>3, <1>8, <1>9 DEF CpuOk, Queue, Buddy
    <2>3. \A d \in Cpus : d # c => r.rq[d] = v.rq[d]
      BY <1>3, <1>7
    <2> QED BY <1>1, <1>6, <1>7, <1>8, <2>1, <2>2, <2>3, Restructured
  <1>11. Local(v, M, X, r, M, X, A, c, s)
    <2>1. \A d \in Cpus : M[d] <= M[d]
      BY <1>1 DEF Typed
    <2> QED BY <1>3, <1>7, <2>1 DEF Local, SameTask
  <1> QED BY <1>4, <1>6, <1>7, <1>8, <1>10, <1>11 DEF SameSelf, SameCurr, Entered, w

\* A task that is no buddy leaves the queue.
Left(v, c, s) == [IF v.rq[c].curr # s THEN __dequeue_entity(v, c, s) ELSE v EXCEPT !.se[s].on_rq = FALSE]

\* A queued task that is no buddy leaves the run queue.
LEMMA Leave ==
  ASSUME NEW v, NEW M, NEW X, NEW e, NEW B, NEW A, Good(v, M, X, e, B, A),
         NEW c \in Cpus, NEW s \in OnRq(v, c), s \notin {v.rq[c].last, v.rq[c].next, v.rq[c].skip}
  PROVE  LET r == Left(v, c, s)
         IN  /\ Good(r, M, X, e, B, A) /\ Local(v, M, X, r, M, X, A, c, s)
             /\ SameSelf(v, r, s) /\ ~r.se[s].on_rq /\ SameCurr(v, r, c) /\ r.rq[c].delta = v.rq[c].delta
             /\ r.rq[c].min_vruntime = v.rq[c].min_vruntime /\ r.se[s].vruntime = v.se[s].vruntime
  <1> DEFINE w  == IF v.rq[c].curr # s THEN __dequeue_entity(v, c, s) ELSE v
             q  == [w.se[s] EXCEPT !.on_rq = FALSE]
             r  == WithSe(w, s, q)
             tl == v.rq[c].timeline
             t2 == w.rq[c].timeline
  <1>1. Typed(v, M, X, e, B, A) /\ CpuOk(v, M, X, e, B, A, c) /\ s \in Tasks /\ s \in A /\ v.se[s].cpu = c
    <2>1. s \in Tasks /\ s \in A /\ v.se[s].cpu = c
      BY TimelineFacts
    <2> QED BY <2>1 DEF Good
  <1>2. ToSet(tl) = OnRq(v, c) \ {v.rq[c].curr} /\ tl \in Seq(Tasks) /\ Injective(tl) /\ Sorted(tl, X)
    BY TimelineFacts
  <1>5. v.se[s] \in SeType /\ v.rq[c] \in RqType
    BY <1>1, Parts DEF Typed
  <1>3. /\ w \in VType /\ w.se = v.se /\ \A d \in Cpus : d # c => w.rq[d] = v.rq[d]
        /\ w.rq[c] = [v.rq[c] EXCEPT !.timeline = t2]
        /\ t2 \in Seq(Tasks) /\ Injective(t2) /\ ToSet(t2) = ToSet(tl) \ {s} /\ Sorted(t2, X)
    <2>1. CASE v.rq[c].curr # s
      <3>1. s \in ToSet(tl)
        BY <1>2, <2>1
      <3>2. w = __dequeue_entity(v, c, s)
        BY <2>1
      <3> QED BY <3>1, <3>2, DequeueFacts, SMTT(30)
    <2>2. CASE v.rq[c].curr = s
      <3>1. w = v
        BY <2>2
      <3>2. [v.rq[c] EXCEPT !.timeline = v.rq[c].timeline] = v.rq[c]
        BY <1>5 DEF RqType
      <3>3. ToSet(tl) = ToSet(tl) \ {s}
        BY <1>2, <2>2
      <3> QED BY <1>1, <1>2, <3>1, <3>2, <3>3 DEF Typed
    <2> QED BY <2>1, <2>2
  <1> HIDE DEF w
  <1>4. [w EXCEPT !.se[s].on_rq = FALSE] = r
    BY <1>1, <1>3, SetOnRq
  <1>6. q \in SeType /\ q.on_rq = FALSE /\ q.cpu = c /\ q.vruntime = v.se[s].vruntime
        /\ q.state = v.se[s].state /\ q.weight = v.se[s].weight
    <2>1. w.se[s] \in SeType /\ w.se[s] = v.se[s]
      BY <1>3, <1>5
    <2> QED BY <1>1, <2>1 DEF SeType
  <1> HIDE DEF q
  <1>7. r \in VType /\ r.rq = w.rq /\ r.se[s] = q /\ \A t \in Tasks : t # s => r.se[t] = v.se[t]
    BY <1>1, <1>3, <1>6, WithSeFacts
  <1> HIDE DEF r
  <1>8. /\ r.rq[c].curr = v.rq[c].curr /\ r.rq[c].timeline = t2 /\ r.rq[c].delta = v.rq[c].delta
        /\ r.rq[c].min_vruntime = v.rq[c].min_vruntime /\ r.rq[c].pc = v.rq[c].pc
        /\ r.rq[c].last = v.rq[c].last /\ r.rq[c].next = v.rq[c].next /\ r.rq[c].skip = v.rq[c].skip
    <2> HIDE DEF t2
    <2> QED BY <1>3, <1>5, <1>7 DEF RqType
  <1>9. OnRq(r, c) = OnRq(v, c) \ {s}
    BY <1>1, <1>6, <1>7 DEF OnRq
  <1>10. Good(r, M, X, e, B, A)
    <2>1. CurrOk(r, e, A, c)
      <3>1. v.rq[c].curr \in Tasks \cup {None}
        BY <1>5 DEF RqType
      <3> QED BY <1>1, <1>6, <1>7, <1>8, <3>1 DEF CpuOk, CurrOk
    <2>2. Queue(r, c) /\ Buddy(r, c) /\ Sorted(r.rq[c].timeline, X)
      BY <1>1, <1>2, <1>3, <1>8, <1>9 DEF CpuOk, Queue, Buddy
    <2>3. \A d \in Cpus : d # c => r.rq[d] = v.rq[d]
      BY <1>3, <1>7
    <2> QED BY <1>1, <1>6, <1>7, <1>8, <2>1, <2>2, <2>3, Restructured
  <1>11. Local(v, M, X, r, M, X, A, c, s)
    <2>1. \A d \in Cpus : M[d] <= M[d]
      BY <1>1 DEF Typed
    <2> QED BY <1>3, <1>7, <2>1 DEF Local, SameTask
  <1> QED BY <1>1, <1>4, <1>6, <1>7, <1>8, <1>10, <1>11 DEF SameSelf, SameCurr, Left, w

\* A dequeued task and a picked one are no buddies.
LEMMA ClearGood ==
  ASSUME NEW v, NEW M, NEW X, NEW e, NEW B, NEW A, Good(v, M, X, e, B, A), NEW c \in Cpus, NEW s \in Tasks
  PROVE  LET r == clear_buddies(v, c, s)
         IN  /\ Good(r, M, X, e, B, A) /\ r.se = v.se /\ \A d \in Cpus : d # c => r.rq[d] = v.rq[d]
             /\ SameQueue(v, r, c) /\ r.rq[c].delta = v.rq[c].delta
             /\ r.rq[c].min_vruntime = v.rq[c].min_vruntime
             /\ s \notin {r.rq[c].last, r.rq[c].next, r.rq[c].skip}
             /\ \A t : Local(v, M, X, r, M, X, A, c, t)
  <1> DEFINE clear(b) == IF b = s THEN None ELSE b
             q == [v.rq[c] EXCEPT !.last = clear(v.rq[c].last), !.next = clear(v.rq[c].next),
                                  !.skip = clear(v.rq[c].skip)]
             r == clear_buddies(v, c, s)
  <1>1. Typed(v, M, X, e, B, A) /\ CpuOk(v, M, X, e, B, A, c)
    BY DEF Good
  <1>2. v.rq[c] \in RqType
    BY <1>1, Parts DEF Typed
  <1>3. r = WithRq(v, c, q)
    BY <1>1 DEF clear_buddies, WithRq, Typed, VType
  <1>4. /\ q \in RqType /\ q.min_vruntime = v.rq[c].min_vruntime /\ q.timeline = v.rq[c].timeline
        /\ q.curr = v.rq[c].curr /\ q.delta = v.rq[c].delta /\ q.pc = v.rq[c].pc
        /\ q.last = clear(v.rq[c].last) /\ q.next = clear(v.rq[c].next) /\ q.skip = clear(v.rq[c].skip)
    BY <1>2 DEF RqType
  <1>5. {q.last, q.next, q.skip} \subseteq (OnRq(v, c) \cup {None}) \ {s}
    BY <1>1, <1>4, NoneFacts DEF CpuOk, Buddy
  <1> HIDE DEF q
  <1>6. Good(r, M, X, e, B, A)
    BY <1>3, <1>4, <1>5, Rerq
  <1>7. r \in VType /\ r.se = v.se /\ r.rq[c] = q /\ \A d \in Cpus : d # c => r.rq[d] = v.rq[d]
    BY <1>1, <1>3, <1>4, WithRqFacts DEF Typed
  <1> HIDE DEF r
  <1>8. \A t : Local(v, M, X, r, M, X, A, c, t)
    <2>1. \A d \in Cpus : M[d] <= M[d]
      BY <1>1 DEF Typed
    <2> QED BY <1>7, <2>1 DEF Local, SameTask
  <1> QED BY <1>4, <1>5, <1>6, <1>7, <1>8 DEF SameQueue, r

-----------------------------------------------------------------------------
(***************************************************************************)
(* enqueue_entity and dequeue_entity.                                      *)
(***************************************************************************)
LEMMA MaxExact ==
  ASSUME NEW a \in Int, NEW b \in Int, 2 * (a - b) < VMod, 2 * (b - a) < VMod
  PROVE  max_vruntime(a % VMod, b % VMod) = (IF b > a THEN b ELSE a) % VMod
  <1>1. Diff(b % VMod, a % VMod) = b - a
    BY DiffExact
  <1> QED BY <1>1 DEF max_vruntime

\* What is about no task is about any task.
LEMMA LocalWiden ==
  ASSUME NEW v, NEW M \in [Cpus -> Int], NEW X, NEW r, NEW M2 \in [Cpus -> Int], NEW X2, NEW A, NEW c, NEW s \in Tasks,
         NEW T, Local(v, M, X, r, M2, X2, A, c, T), T \in {None, s}
  PROVE  Local(v, M, X, r, M2, X2, A, c, s)
  BY NoneFacts DEF Local

\* What wakes goes where it slept or was moved to, relative or not; what else is
\* enqueued is relative to a min_vruntime.
MayEnqueue(M, X, e, B, A, B2, c, s, wakeup, migrated) ==
  \/ /\ wakeup /\ ~migrated /\ s \in A
  \/ /\ wakeup /\ migrated /\ B + Horizon(e) <= B2
     /\ -thresh - B <= X[s] /\ X[s] <= Horizon(e)
  \/ /\ ~wakeup /\ ~migrated /\ B + Horizon(e) <= B2
     /\ -thresh <= X[s] /\ X[s] <= Horizon(e)

Enqueueable(v, M, X, e, B, A, B2, c, s, wakeup, migrated) ==
  /\ Good(v, M, X, e, B, A) /\ c \in Cpus /\ s \in Tasks
  /\ v.se[s].cpu = c /\ v.rq[c].curr # s /\ ~v.se[s].on_rq
  /\ wakeup \in BOOLEAN /\ migrated \in BOOLEAN /\ B2 \in 0 .. Reach /\ B <= B2
  /\ MayEnqueue(M, X, e, B, A, B2, c, s, wakeup, migrated)

\* enqueue_entity keeps the run queue in order whichever way it goes: it renormalises a relative
\* vruntime, or places a sleeper, and the task is queued near min_vruntime then.
LEMMA EnqueueGood ==
  ASSUME NEW v, NEW M, NEW X, NEW e, NEW B, NEW A, NEW c, NEW s, NEW B2, NEW wakeup, NEW migrated,
         Enqueueable(v, M, X, e, B, A, B2, c, s, wakeup, migrated)
  PROVE  \E M2 \in [Cpus -> Int], X2 \in [Tasks -> Int] :
           LET r == enqueue_entity(v, c, s, wakeup, migrated)
           IN  /\ Good(r, M2, X2, e, B2, A \cup {s}) /\ Local(v, M, X, r, M2, X2, A, c, s)
               /\ SameSelf(v, r, s) /\ r.se[s].on_rq /\ SameCurr(v, r, c)
  <1>0. /\ Good(v, M, X, e, B, A) /\ c \in Cpus /\ s \in Tasks
        /\ v.se[s].cpu = c /\ v.rq[c].curr # s /\ ~v.se[s].on_rq
        /\ wakeup \in BOOLEAN /\ migrated \in BOOLEAN /\ B2 \in 0 .. Reach /\ B <= B2
        /\ MayEnqueue(M, X, e, B, A, B2, c, s, wakeup, migrated)
    BY DEF Enqueueable
  <1> USE <1>0
  <1> DEFINE A0 == A \ {s}
             v2 == update_curr(v, c)
  <1>1. Typed(v, M, X, e, B, A) /\ CpuOk(v, M, X, e, B, A, c)
    BY DEF Good
  <1>2. Good(v, M, X, e, B, A0)
    BY Drop
  <1> HIDE DEF A0, v2
  <1>3. PICK M2 \in [Cpus -> Int], X2 \in [Tasks -> Int] :
          Good(v2, M2, X2, e, B, A0) /\ Local(v, M, X, v2, M2, X2, A0, c, None) /\ X2[s] = X[s]
    <2>1. \E M2 \in [Cpus -> Int], X2 \in [Tasks -> Int] :
            /\ Good(update_curr(v, c), M2, X2, e, B, A0)
            /\ Local(v, M, X, update_curr(v, c), M2, X2, A0, c, None)
            /\ OnlyOf(X, X2, v.rq[c].curr)
      BY <1>2, UpdateCurrGood
    <2> QED BY <2>1 DEF v2, OnlyOf
  <1>4. /\ v2 \in VType /\ SameTask(v, v2, s) /\ v2.rq[c].curr = v.rq[c].curr /\ v2.rq[c].pc = v.rq[c].pc
        /\ v2.se[s] = v.se[s]
    BY <1>1, UpdateCurrFacts DEF v2, Typed, Keeps, SameQueue
  <1>5. /\ v2.se[s].vruntime = X2[s] % VMod /\ v2.rq[c].min_vruntime = M2[c] % VMod
        /\ M2[c] >= InitMin[c] /\ M2[c] <= InitMin[c] + B
    <2>1. CpuOk(v2, M2, X2, e, B, A0, c) /\ v2.se[s].cpu = c
      BY <1>3, <1>4 DEF Good, SameTask
    <2> QED BY <2>1 DEF CpuOk, TaskOk, MinOk
  <1>6. /\ X[s] \in Int /\ M[c] \in Int /\ M2[c] \in Int /\ InitMin[c] \in Nat /\ thresh \in Nat
        /\ B \in Nat /\ B2 \in Nat /\ Reach \in Nat /\ B2 <= Reach /\ Horizon(e) \in Nat /\ Horizon(e) <= Reach
        /\ VMod > 4 * (thresh + Reach) /\ VMod \in Nat /\ M[c] <= M2[c]
    BY <1>1, <1>3, TypedFacts DEF Local
  <1>7. s \in A => /\ X[s] >= InitMin[c] - thresh /\ X[s] <= M[c] + Horizon(e) /\ X[s] <= InitMin[c] + B
    <2>1. TaskOk(v, M, X, e, B, A, c, s) /\ Pend(v, c, s) = 0
      BY <1>1 DEF CpuOk, Pend
    <2> QED BY <1>6, <2>1 DEF TaskOk
  <1> DEFINE renorm == ~wakeup \/ migrated
             y  == IF renorm THEN X[s] + M2[c] ELSE X[s]
             X3 == [X2 EXCEPT ![s] = y]
             v3 == IF renorm THEN Renormalise(v2, c, s) ELSE v2
  <1>8. /\ Good(v3, M2, X3, e, B, A0) /\ Local(v2, M2, X2, v3, M2, X3, A0, c, s)
        /\ v3.rq = v2.rq /\ SameTask(v2, v3, s) /\ X3 \in [Tasks -> Int] /\ X3[s] = y
    <2>1. y \in Int
      BY <1>6
    <2>2. X3 \in [Tasks -> Int] /\ X3[s] = y
      BY <2>1
    <2>3. CASE renorm
      <3>1. v3 = Revalued(v2, s, y)
        <4>1. (v2.se[s].vruntime + v2.rq[c].min_vruntime) % VMod = (X[s] + M2[c]) % VMod
          <5>1. v2.se[s].vruntime = X[s] % VMod /\ v2.rq[c].min_vruntime = M2[c] % VMod
            BY <1>3, <1>5
          <5>2. ((X[s] % VMod) + (M2[c] % VMod)) % VMod = (X[s] + M2[c]) % VMod
            BY <1>6, ModAdd
          <5> QED BY <5>1, <5>2
        <4>2. v3 = [v2 EXCEPT !.se[s].vruntime = (v2.se[s].vruntime + v2.rq[c].min_vruntime) % VMod]
          BY <1>4, <2>3 DEF Renormalise, VType
        <4> QED BY <2>3, <4>1, <4>2 DEF Revalued
      <3>2. ~v2.se[s].on_rq /\ v2.rq[v2.se[s].cpu].curr # s
        BY <1>4
      <3> DEFINE u == Revalued(v2, s, y)
      <3> HIDE DEF v3, y
      <3>3. /\ Good(u, M2, X3, e, B, A0 \ {s}) /\ u.rq = v2.rq /\ SameTask(v2, u, s)
            /\ Local(v2, M2, X2, u, M2, X3, A0, c, s)
        BY <1>3, <2>1, <3>2, SetValue, ZenonT(40)
      <3>4. A0 \ {s} = A0
        BY DEF A0
      <3> HIDE DEF u, X3
      <3> QED BY <2>2, <3>1, <3>3, <3>4 DEF u
    <2>4. CASE ~renorm
      <3>1. v3 = v2 /\ X3 = X2
        BY <1>3, <2>4
      <3>2. Local(v2, M2, X2, v2, M2, X2, A0, c, s)
        BY <1>6 DEF Local, SameTask
      <3> QED BY <1>3, <2>2, <3>1, <3>2 DEF SameTask
    <2> QED BY <2>3, <2>4
  <1> HIDE DEF v3, X3
  <1> DEFINE p  == M2[c] - thresh
             z  == IF wakeup THEN IF p > y THEN p ELSE y ELSE y
             X4 == [X3 EXCEPT ![s] = z]
             v4 == IF wakeup THEN place_entity(v3, c, s, FALSE) ELSE v3
  <1>9. y \in Int /\ p \in Int /\ z \in Int /\ (wakeup => 2 * (y - p) < VMod /\ 2 * (p - y) < VMod)
    <2>1. y \in Int /\ p \in Int
      BY <1>6
    <2>2. wakeup => -B <= y - p /\ y - p <= Horizon(e) + thresh
      <3>1. CASE wakeup /\ ~migrated /\ s \in A
        BY <1>5, <1>6, <1>7, <3>1
      <3>2. CASE wakeup /\ migrated /\ -thresh - B <= X[s] /\ X[s] <= Horizon(e)
        BY <1>6, <3>2
      <3> QED BY <3>1, <3>2 DEF MayEnqueue
    <2> QED BY <1>6, <2>1, <2>2
  <1>10. /\ Good(v4, M2, X4, e, B, A0) /\ Local(v3, M2, X3, v4, M2, X4, A0, c, s)
         /\ v4.rq = v3.rq /\ SameTask(v3, v4, s) /\ X4 \in [Tasks -> Int] /\ X4[s] = z
    <2>2. X4 \in [Tasks -> Int] /\ X4[s] = z
      BY <1>8, <1>9
    <2>3. CASE wakeup
      <3>0. v3 \in VType /\ v3.se[s].vruntime = y % VMod
        <4>1. Typed(v3, M2, X3, e, B, A0) /\ CpuOk(v3, M2, X3, e, B, A0, c) /\ v3.se[s].cpu = c
          BY <1>4, <1>8 DEF Good, SameTask
        <4> QED BY <1>8, <4>1 DEF CpuOk, TaskOk, Typed
      <3>1. v4 = Revalued(v3, s, z)
        <4>1. ((M2[c] % VMod) - thresh) % VMod = p % VMod
          <5>1. -thresh \in Int /\ (M2[c] % VMod) - thresh = (M2[c] % VMod) + (-thresh)
                /\ p = M2[c] + (-thresh)
            BY <1>6, WordTyped
          <5> QED BY <1>6, <5>1, ModAdd
        <4>2. max_vruntime(y % VMod, p % VMod) = z % VMod
          BY <1>9, <2>3, MaxExact
        <4>3. v3.rq[c].min_vruntime = M2[c] % VMod
          BY <1>5, <1>8
        <4> DEFINE g == max_vruntime(v3.se[s].vruntime, (v3.rq[c].min_vruntime - thresh) % VMod)
        <4>4. g = z % VMod
          BY <3>0, <4>1, <4>2, <4>3
        <4>5. v4 = [v3 EXCEPT !.se[s].vruntime = g]
          BY <2>3, <3>0 DEF place_entity, VType
        <4> QED BY <4>4, <4>5 DEF Revalued
      <3>2. ~v3.se[s].on_rq /\ v3.rq[v3.se[s].cpu].curr # s
        BY <1>4, <1>8 DEF SameTask
      <3> DEFINE u == Revalued(v3, s, z)
      <3> HIDE DEF v4, z, y
      <3>5. z \in Int
        BY <1>9
      <3>3. /\ Good(u, M2, X4, e, B, A0 \ {s}) /\ u.rq = v3.rq /\ SameTask(v3, u, s)
            /\ Local(v3, M2, X3, u, M2, X4, A0, c, s)
        BY <1>8, <3>2, <3>5, SetValue, ZenonT(40)
      <3>4. A0 \ {s} = A0
        BY DEF A0
      <3> HIDE DEF u, X4
      <3> QED BY <2>2, <3>1, <3>3, <3>4 DEF u
    <2>4. CASE ~wakeup
      <3>1. v4 = v3 /\ X4 = X3
        BY <1>8, <2>4
      <3>2. Local(v3, M2, X3, v3, M2, X3, A0, c, s)
        BY <1>6 DEF Local, SameTask
      <3> QED BY <1>8, <2>2, <3>1, <3>2 DEF SameTask
    <2> QED BY <2>3, <2>4
  <1>11. z >= M2[c] - thresh /\ z <= M2[c] + Horizon(e) /\ z <= InitMin[c] + B2 /\ z >= InitMin[c] - thresh
    <2>1. CASE wakeup /\ ~migrated /\ s \in A
      BY <1>5, <1>6, <1>7, <2>1
    <2>2. CASE /\ wakeup /\ migrated /\ B + Horizon(e) <= B2
               /\ -thresh - B <= X[s] /\ X[s] <= Horizon(e)
      BY <1>5, <1>6, <2>2
    <2>3. CASE /\ ~wakeup /\ ~migrated /\ B + Horizon(e) <= B2
               /\ -thresh <= X[s] /\ X[s] <= Horizon(e)
      BY <1>5, <1>6, <2>3
    <2> QED BY <2>1, <2>2, <2>3 DEF MayEnqueue
  <1> HIDE DEF v4, X4, z, y
  <1>12. v4.se[s].cpu = c /\ v4.rq[c].curr = v.rq[c].curr /\ ~v4.se[s].on_rq /\ v4.rq[c].pc = v.rq[c].pc
    BY <1>4, <1>8, <1>10 DEF SameTask
  <1>13. Good(v4, M2, X4, e, B2, A \cup {s})
    <2>1. Good(v4, M2, X4, e, B2, A0 \cup {s})
      BY <1>10, <1>11, <1>12, Join
    <2>2. A0 \cup {s} = A \cup {s}
      BY DEF A0
    <2> QED BY <2>1, <2>2
  <1> DEFINE r == Entered(v4, c, s)
  <1>14. /\ Good(r, M2, X4, e, B2, A \cup {s}) /\ Local(v4, M2, X4, r, M2, X4, A \cup {s}, c, s)
         /\ SameSelf(v4, r, s) /\ r.se[s].on_rq /\ SameCurr(v4, r, c)
    BY <1>10, <1>11, <1>12, <1>13, Enter
  <1>15. enqueue_entity(v, c, s, wakeup, migrated) = r
    BY DEF enqueue_entity, Entered, v2, v3, v4
  <1> HIDE DEF r
  <1>16. Local(v, M, X, r, M2, X4, A, c, s)
    <2>1. M \in [Cpus -> Int]
      BY <1>1 DEF Typed
    <2>2. Local(v, M, X, v2, M2, X2, A0, c, s)
      BY <1>3, <2>1, LocalWiden
    <2>3. Local(v, M, X, v3, M2, X3, A0, c, s)
      BY <1>3, <1>8, <2>1, <2>2, LocalTrans
    <2>4. Local(v, M, X, v4, M2, X4, A0, c, s)
      BY <1>3, <1>10, <2>1, <2>3, LocalTrans
    <2>5. (A \cup {s}) \ {s} = A0 \ {s}
      BY DEF A0
    <2>6. Local(v, M, X, r, M2, X4, A0, c, s)
      BY <1>3, <1>14, <2>1, <2>4, <2>5, LocalTrans
    <2> QED BY <2>6 DEF Local, A0
  <1>17. SameSelf(v, r, s) /\ SameCurr(v, r, c)
    BY <1>4, <1>8, <1>10, <1>12, <1>14 DEF SameSelf, SameCurr, SameTask
  <1> QED BY <1>3, <1>10, <1>14, <1>15, <1>16, <1>17

\* What sleeps keeps its time, what leaves otherwise is relative.
LEMMA DequeueGood ==
  ASSUME NEW v, NEW M, NEW X, NEW e, NEW B, NEW A, Good(v, M, X, e, B, A),
         NEW c \in Cpus, NEW s \in OnRq(v, c), NEW flags
  PROVE  \E M2 \in [Cpus -> Int], X2 \in [Tasks -> Int] :
           LET r == dequeue_entity(v, c, s, flags)
           IN  /\ Good(r, M2, X2, e, B, IF "sleep" \in flags THEN A ELSE A \ {s})
               /\ Local(v, M, X, r, M2, X2, A, c, s)
               /\ SameSelf(v, r, s) /\ ~r.se[s].on_rq /\ SameCurr(v, r, c)
               /\ "sleep" \notin flags => -thresh <= X2[s] /\ X2[s] <= Horizon(e)
  <1> DEFINE w  == update_curr(v, c)
             v1 == clear_buddies(w, c, s)
             v3 == Left(v1, c, s)
             v4 == IF "sleep" \notin flags THEN Normalise(v3, c, s) ELSE v3
             A2 == IF "sleep" \in flags THEN A ELSE A \ {s}
             r  == dequeue_entity(v, c, s, flags)
  <1>1. Typed(v, M, X, e, B, A) /\ s \in Tasks /\ s \in A /\ v.se[s].cpu = c /\ v.se[s].on_rq /\ M \in [Cpus -> Int]
    <2>1. Typed(v, M, X, e, B, A) /\ s \in A
      BY TimelineFacts DEF Good
    <2> QED BY <2>1 DEF Typed, OnRq
  <1>2. PICK M1 \in [Cpus -> Int], X1 \in [Tasks -> Int] :
          Good(w, M1, X1, e, B, A) /\ Local(v, M, X, w, M1, X1, A, c, None)
    <2> HIDE DEF w
    <2> QED BY UpdateCurrGood DEF w
  <1>3. /\ w \in VType /\ SameTask(v, w, s) /\ w.rq[c].curr = v.rq[c].curr /\ w.rq[c].pc = v.rq[c].pc
        /\ v.rq[c].curr # None => w.rq[c].delta = 0
    BY <1>1, UpdateCurrFacts DEF Typed, Keeps, SameQueue
  <1> HIDE DEF w
  <1>4. /\ Good(v1, M1, X1, e, B, A) /\ v1.se = w.se /\ SameQueue(w, v1, c) /\ v1.rq[c].delta = w.rq[c].delta
        /\ v1.rq[c].min_vruntime = w.rq[c].min_vruntime
        /\ s \notin {v1.rq[c].last, v1.rq[c].next, v1.rq[c].skip}
        /\ Local(w, M1, X1, v1, M1, X1, A, c, s)
    BY <1>1, <1>2, ClearGood
  <1> HIDE DEF v1
  <1>5. s \in OnRq(v1, c)
    BY <1>1, <1>3, <1>4 DEF OnRq, SameTask
  <1>6. /\ Good(v3, M1, X1, e, B, A) /\ Local(v1, M1, X1, v3, M1, X1, A, c, s)
        /\ SameSelf(v1, v3, s) /\ ~v3.se[s].on_rq /\ SameCurr(v1, v3, c) /\ v3.rq[c].delta = v1.rq[c].delta
        /\ v3.rq[c].min_vruntime = v1.rq[c].min_vruntime
    BY <1>4, <1>5, Leave
  <1> HIDE DEF v3
  <1>7. /\ v3.se[s].cpu = c /\ (v3.rq[c].curr # s \/ v3.rq[c].delta = 0)
        /\ v3.rq[c].curr = v.rq[c].curr /\ v3.rq[c].pc = v.rq[c].pc /\ SameSelf(v, v3, s)
    BY <1>1, <1>3, <1>4, <1>6, NoneFacts DEF SameSelf, SameTask, SameCurr, SameQueue
  <1>8. Local(v, M, X, v3, M1, X1, A, c, s)
    <2>1. Local(v, M, X, w, M1, X1, A, c, s)
      BY <1>1, <1>2, LocalWiden
    <2>2. Local(v, M, X, v1, M1, X1, A, c, s)
      BY <1>1, <1>2, <1>4, <2>1, LocalTrans
    <2> QED BY <1>1, <1>2, <1>6, <2>2, LocalTrans
  <1>9. \E X2 \in [Tasks -> Int] :
          /\ Good(v4, M1, X2, e, B, A2) /\ Local(v, M, X, v4, M1, X2, A, c, s)
          /\ SameSelf(v, v4, s) /\ ~v4.se[s].on_rq /\ SameCurr(v, v4, c)
          /\ "sleep" \notin flags => -thresh <= X2[s] /\ X2[s] <= Horizon(e)
    <2>1. CASE "sleep" \in flags
      <3>1. v4 = v3 /\ A2 = A
        BY <2>1
      <3> HIDE DEF v4, A2
      <3> QED BY <1>2, <1>6, <1>7, <1>8, <2>1, <3>1 DEF SameCurr
    <2>2. CASE "sleep" \notin flags
      <3> DEFINE x  == X1[s] - M1[c]
                 X2 == [X1 EXCEPT ![s] = x]
      <3>1. /\ X1[s] \in Int /\ M1[c] \in Int /\ InitMin[c] \in Int /\ thresh \in Int /\ Horizon(e) \in Int /\ x \in Int
            /\ Pend(v1, c, s) \in Nat /\ v3 \in VType
        <4>1. Typed(v1, M1, X1, e, B, A) /\ Typed(v3, M1, X1, e, B, A)
          BY <1>4, <1>6 DEF Good
        <4>2. /\ X1[s] \in Int /\ M1[c] \in Int /\ InitMin[c] \in Int /\ thresh \in Int /\ Horizon(e) \in Int
              /\ Pend(v1, c, s) \in Nat /\ v3 \in VType
          BY <1>1, <4>1, TypedFacts
        <4> QED BY <4>2
      <3>2. /\ v3.se[s].vruntime = X1[s] % VMod /\ v3.rq[c].min_vruntime = M1[c] % VMod
            /\ -thresh <= x /\ x <= Horizon(e)
        <4>1. CpuOk(v3, M1, X1, e, B, A, c) /\ CpuOk(v1, M1, X1, e, B, A, c)
          BY <1>4, <1>6 DEF Good
        <4>2. TaskOk(v3, M1, X1, e, B, A, c, s) /\ TaskOk(v1, M1, X1, e, B, A, c, s) /\ v1.se[s].on_rq
          BY <1>1, <1>5, <1>7, <4>1 DEF CpuOk, OnRq
        <4>3. X1[s] >= M1[c] - thresh /\ X1[s] <= M1[c] + Horizon(e)
          BY <3>1, <4>2 DEF TaskOk
        <4> QED BY <3>1, <4>1, <4>2, <4>3 DEF CpuOk, MinOk, TaskOk
      <3>3. v4 = Revalued(v3, s, x)
        <4>1. ((X1[s] % VMod) - (M1[c] % VMod)) % VMod = x % VMod
          BY <3>1, ModAdd
        <4>2. v4 = [v3 EXCEPT !.se[s].vruntime = (v3.se[s].vruntime - v3.rq[c].min_vruntime) % VMod]
          BY <2>2, <3>1 DEF Normalise, VType
        <4>3. (v3.se[s].vruntime - v3.rq[c].min_vruntime) % VMod = x % VMod
          BY <3>2, <4>1
        <4> QED BY <4>2, <4>3 DEF Revalued
      <3> HIDE DEF v4, x
      <3> DEFINE u == Revalued(v3, s, x)
      <3>4. /\ Good(u, M1, X2, e, B, A \ {s}) /\ u.rq = v3.rq /\ SameTask(v3, u, s)
            /\ Local(v3, M1, X1, u, M1, X2, A, c, s)
        <4>1. /\ Good(v3, M1, X1, e, B, A) /\ s \in Tasks /\ ~v3.se[s].on_rq /\ x \in Int
              /\ v3.rq[v3.se[s].cpu].curr # s \/ v3.rq[v3.se[s].cpu].delta = 0
          BY <1>1, <1>6, <1>7, <3>1
        <4> QED BY <4>1, SetValue, Zenon
      <3>5. X2 \in [Tasks -> Int] /\ X2[s] = x
        BY <1>1, <3>1
      <3> HIDE DEF X2, u
      <3>6. Local(v, M, X, u, M1, X2, A, c, s)
        BY <1>1, <1>2, <1>8, <3>4, LocalTrans
      <3>7. SameSelf(v, u, s) /\ ~u.se[s].on_rq /\ SameCurr(v, u, c)
        BY <1>6, <1>7, <3>4 DEF SameSelf, SameTask, SameCurr
      <3>8. v4 = u /\ A2 = A \ {s}
        BY <2>2, <3>3 DEF u
      <3> HIDE DEF A2
      <3> QED BY <3>2, <3>4, <3>5, <3>6, <3>7, <3>8
    <2> QED BY <2>1, <2>2
  <1>10. r = IF flags \cap {"save", "move"} = {"save"} THEN update_min_vruntime(v4, c) ELSE v4
    BY <1>4, <1>3 DEF dequeue_entity, Left, v3, v1, w, SameQueue
  <1> HIDE DEF v4, A2, r
  <1>11. PICK X2 \in [Tasks -> Int] :
          /\ Good(v4, M1, X2, e, B, A2) /\ Local(v, M, X, v4, M1, X2, A, c, s)
          /\ SameSelf(v, v4, s) /\ ~v4.se[s].on_rq /\ SameCurr(v, v4, c)
          /\ "sleep" \notin flags => -thresh <= X2[s] /\ X2[s] <= Horizon(e)
    BY <1>9
  <1>12. \E M2 \in [Cpus -> Int] :
           /\ Good(r, M2, X2, e, B, A2) /\ Local(v, M, X, r, M2, X2, A, c, s)
           /\ SameSelf(v, r, s) /\ ~r.se[s].on_rq /\ SameCurr(v, r, c)
    <2>1. CASE flags \cap {"save", "move"} = {"save"}
      <3>1. r = update_min_vruntime(v4, c)
        BY <1>10, <2>1
      <3>2. PICK M2 \in [Cpus -> Int] : Good(r, M2, X2, e, B, A2) /\ Local(v4, M1, X2, r, M2, X2, A2, c, None)
        BY <1>11, <3>1, UpdateMinGood
      <3>3. Local(v, M, X, r, M2, X2, A, c, s)
        <4>1. Local(v4, M1, X2, r, M2, X2, A2, c, s)
          BY <1>1, <1>2, <3>2, LocalWiden
        <4>2. A2 \ {s} = A \ {s}
          BY DEF A2
        <4> QED BY <1>1, <1>2, <1>11, <4>1, <4>2, LocalTrans
      <3>4. r.se = v4.se /\ r.rq[c].curr = v4.rq[c].curr /\ r.rq[c].pc = v4.rq[c].pc
        <4>1. v4 \in VType /\ v4.rq[c] \in RqType
          BY <1>11, Parts DEF Good, Typed
        <4>2. /\ r.se = v4.se
              /\ r.rq[c] = [v4.rq[c] EXCEPT !.min_vruntime = max_vruntime(v4.rq[c].min_vruntime, Least(v4, c))]
          BY <3>1, <4>1, UpdateMinFacts
        <4> QED BY <4>1, <4>2 DEF RqType
      <3>5. SameSelf(v, r, s) /\ ~r.se[s].on_rq /\ SameCurr(v, r, c)
        BY <1>11, <3>4 DEF SameSelf, SameCurr
      <3> QED BY <3>2, <3>3, <3>5
    <2>2. CASE flags \cap {"save", "move"} # {"save"}
      BY <1>2, <1>10, <1>11, <2>2
    <2> QED BY <2>1, <2>2
  <1> QED BY <1>11, <1>12 DEF r, A2

-----------------------------------------------------------------------------
(***************************************************************************)
(* put_prev_entity, set_next_entity and picking.                           *)
(***************************************************************************)

\* The running task stops running.
Unset(v, c) == [v EXCEPT !.rq[c] = [@ EXCEPT !.curr = None, !.delta = 0]]

\* Nobody's place, weight or time changes.
SameTimes(v, r) == \A t \in Tasks : SameTask(v, r, t) /\ r.se[t].vruntime = v.se[t].vruntime

\* A CPU without current task.
LEMMA UnsetFacts ==
  ASSUME NEW v \in VType, NEW c \in Cpus
  PROVE  LET r == Unset(v, c)
         IN  /\ r \in VType /\ r.se = v.se /\ \A d \in Cpus : d # c => r.rq[d] = v.rq[d]
             /\ r.rq[c].curr = None /\ r.rq[c].delta = 0 /\ r.rq[c].timeline = v.rq[c].timeline
             /\ r.rq[c].min_vruntime = v.rq[c].min_vruntime /\ r.rq[c].pc = v.rq[c].pc
             /\ SameBuddies(v, r, c)
  <1> DEFINE q == [v.rq[c] EXCEPT !.curr = None, !.delta = 0]
  <1>1. Unset(v, c) = WithRq(v, c, q)
    BY DEF Unset, WithRq, VType
  <1>2. v.rq[c] \in RqType /\ 0 \in 0 .. MaxTime
    BY Parts, CfsRqAssumption
  <1>3. /\ q \in RqType /\ q.curr = None /\ q.delta = 0 /\ q.timeline = v.rq[c].timeline
        /\ q.min_vruntime = v.rq[c].min_vruntime /\ q.pc = v.rq[c].pc
        /\ q.last = v.rq[c].last /\ q.next = v.rq[c].next /\ q.skip = v.rq[c].skip
    BY <1>2 DEF RqType
  <1> HIDE DEF q
  <1>4. /\ WithRq(v, c, q) \in VType /\ WithRq(v, c, q).se = v.se /\ WithRq(v, c, q).rq[c] = q
        /\ \A d \in Cpus : d # c => WithRq(v, c, q).rq[d] = v.rq[d]
    BY <1>3, WithRqFacts
  <1> QED BY <1>1, <1>3, <1>4 DEF SameBuddies

\* The running task is put back into the timeline.
LEMMA PutQueued ==
  ASSUME NEW v, NEW M, NEW X, NEW e, NEW B, NEW A, Good(v, M, X, e, B, A),
         NEW c \in Cpus, NEW s \in OnRq(v, c), v.rq[c].curr = s
  PROVE  LET r  == Unset(__enqueue_entity(v, c, s), c)
             tl == v.rq[c].timeline
         IN  /\ Good(r, M, X, e, B, A) /\ r.se = v.se /\ \A d \in Cpus : d # c => r.rq[d] = v.rq[d]
             /\ r.rq[c].curr = None /\ r.rq[c].pc = v.rq[c].pc /\ r.rq[c].timeline # <<>>
             /\ Head(r.rq[c].timeline) = IF tl # <<>> /\ ~entity_before(v, s, Head(tl)) THEN Head(tl) ELSE s
  <1> DEFINE w  == __enqueue_entity(v, c, s)
             r  == Unset(w, c)
             tl == v.rq[c].timeline
             t2 == w.rq[c].timeline
  <1>1. Typed(v, M, X, e, B, A) /\ CpuOk(v, M, X, e, B, A, c)
    BY DEF Good
  <1>2. s \in Tasks /\ s \in A /\ v.se[s].cpu = c /\ v.se[s].on_rq /\ ToSet(tl) = OnRq(v, c) \ {s}
    BY TimelineFacts
  <1>3. /\ w \in VType /\ w.se = v.se /\ \A d \in Cpus : d # c => w.rq[d] = v.rq[d]
        /\ w.rq[c] = [v.rq[c] EXCEPT !.timeline = t2]
        /\ t2 \in Seq(Tasks) /\ Injective(t2) /\ ToSet(t2) = ToSet(tl) \cup {s} /\ Sorted(t2, X)
        /\ t2 # <<>> /\ Head(t2) = IF tl # <<>> /\ ~entity_before(v, s, Head(tl)) THEN Head(tl) ELSE s
    <2>1. s \notin ToSet(tl)
      BY <1>2
    <2> QED BY <1>2, <2>1, EnqueueFacts
  <1> HIDE DEF w
  <1>4. /\ r \in VType /\ r.se = w.se /\ \A d \in Cpus : d # c => r.rq[d] = w.rq[d]
        /\ r.rq[c].curr = None /\ r.rq[c].delta = 0 /\ r.rq[c].timeline = t2
        /\ r.rq[c].min_vruntime = w.rq[c].min_vruntime /\ r.rq[c].pc = w.rq[c].pc
        /\ SameBuddies(w, r, c)
    BY <1>3, UnsetFacts
  <1> HIDE DEF r, t2
  <1>5. /\ w.rq[c].min_vruntime = v.rq[c].min_vruntime /\ w.rq[c].pc = v.rq[c].pc
        /\ w.rq[c].last = v.rq[c].last /\ w.rq[c].next = v.rq[c].next /\ w.rq[c].skip = v.rq[c].skip
    <2>1. v.rq[c] \in RqType
      BY <1>1, Parts DEF Typed
    <2> QED BY <1>3, <2>1 DEF RqType
  <1>6. OnRq(r, c) = OnRq(v, c)
    BY <1>3, <1>4 DEF OnRq
  <1>7. Good(r, M, X, e, B, A)
    <2>1. CurrOk(r, e, A, c)
      <3>1. e \in Nat
        BY <1>1 DEF Typed
      <3> QED BY <1>4, <3>1 DEF CurrOk
    <2>2. Queue(r, c)
      <3>1. ToSet(t2) = OnRq(v, c) \ {None}
        BY <1>2, <1>3, NoneFacts DEF OnRq
      <3> QED BY <1>3, <1>4, <1>6, <3>1 DEF Queue
    <2>3. Buddy(r, c) /\ Sorted(r.rq[c].timeline, X)
      BY <1>1, <1>3, <1>4, <1>5, <1>6 DEF CpuOk, Buddy, SameBuddies
    <2>4. X[s] >= M[c] - thresh
      BY <1>1, <1>2 DEF CpuOk, TaskOk
    <2>5. /\ \A d \in Cpus : d # c => r.rq[d] = v.rq[d]
          /\ \A t \in Tasks : t # s => r.se[t] = v.se[t]
          /\ r.se[s] = v.se[s]
      BY <1>3, <1>4
    <2> QED BY <1>2, <1>4, <1>5, <2>1, <2>2, <2>3, <2>4, <2>5, Restructured
  <1> QED BY <1>3, <1>4, <1>5, <1>7 DEF r, w, t2

\* A sleeping task stops running.
LEMMA PutSlept ==
  ASSUME NEW v, NEW M, NEW X, NEW e, NEW B, NEW A, Good(v, M, X, e, B, A),
         NEW c \in Cpus, v.rq[c].curr \in Tasks, ~v.se[v.rq[c].curr].on_rq
  PROVE  LET r  == Unset(v, c)
         IN  /\ Good(r, M, X, e, B, A) /\ r.se = v.se /\ \A d \in Cpus : d # c => r.rq[d] = v.rq[d]
             /\ r.rq[c].curr = None /\ r.rq[c].pc = v.rq[c].pc /\ r.rq[c].timeline = v.rq[c].timeline
  <1> DEFINE r  == Unset(v, c)
             s  == v.rq[c].curr
             tl == v.rq[c].timeline
  <1>1. Typed(v, M, X, e, B, A) /\ CpuOk(v, M, X, e, B, A, c)
    BY DEF Good
  <1>2. /\ r \in VType /\ r.se = v.se /\ \A d \in Cpus : d # c => r.rq[d] = v.rq[d]
        /\ r.rq[c].curr = None /\ r.rq[c].delta = 0 /\ r.rq[c].timeline = tl
        /\ r.rq[c].min_vruntime = v.rq[c].min_vruntime /\ r.rq[c].pc = v.rq[c].pc
        /\ SameBuddies(v, r, c)
    BY <1>1, UnsetFacts DEF Typed
  <1> HIDE DEF r
  <1>3. OnRq(r, c) = OnRq(v, c)
    BY <1>2 DEF OnRq
  <1>4. Good(r, M, X, e, B, A)
    <2>1. CurrOk(r, e, A, c)
      <3>1. e \in Nat
        BY <1>1 DEF Typed
      <3> QED BY <1>2, <3>1 DEF CurrOk
    <2>2. Queue(r, c)
      <3>1. OnRq(v, c) \ {s} = OnRq(v, c) \ {None}
        BY NoneFacts DEF OnRq
      <3> QED BY <1>1, <1>2, <1>3, <3>1 DEF CpuOk, Queue
    <2>3. Buddy(r, c) /\ Sorted(r.rq[c].timeline, X)
      BY <1>1, <1>2, <1>3 DEF CpuOk, Buddy, SameBuddies
    <2>4. /\ \A t \in Tasks : t # s => r.se[t] = v.se[t]
          /\ r.se[s] = v.se[s] /\ v.se[s].cpu = c
      BY <1>1, <1>2, NoneFacts DEF CpuOk, CurrOk
    <2> QED BY <1>2, <2>1, <2>2, <2>3, <2>4, Restructured
  <1> QED BY <1>2, <1>4 DEF r

\* set_next_entity takes a queued task out of the timeline and makes it curr; who was first in
\* the timeline still is, unless it is the one taken.
LEMMA SetNextGood ==
  ASSUME NEW v, NEW M, NEW X, NEW e, NEW B, NEW A, Good(v, M, X, e, B, A),
         NEW c \in Cpus, NEW s \in OnRq(v, c), v.rq[c].curr = None
  PROVE  LET r  == set_next_entity(v, c, s)
             tl == v.rq[c].timeline
         IN  /\ Good(r, M, X, e, B, A) /\ SameTimes(v, r) /\ Local(v, M, X, r, M, X, A, c, None)
             /\ r.rq[c].curr = s /\ r.rq[c].pc = v.rq[c].pc
             /\ s # Head(tl) => r.rq[c].timeline # <<>> /\ Head(r.rq[c].timeline) = Head(tl)
  <1> DEFINE w  == __dequeue_entity(v, c, s)
             q  == [w.rq[c] EXCEPT !.curr = s, !.delta = 0]
             v2 == WithRq(w, c, q)
             g  == [v2.se[s] EXCEPT !.ran = 0]
             r  == WithSe(v2, s, g)
             tl == v.rq[c].timeline
             t2 == w.rq[c].timeline
  <1>1. Typed(v, M, X, e, B, A) /\ CpuOk(v, M, X, e, B, A, c)
    BY DEF Good
  <1>2. s \in Tasks /\ s \in A /\ v.se[s].cpu = c /\ v.se[s].on_rq /\ ToSet(tl) = OnRq(v, c) /\ s \in ToSet(tl)
    <2>1. ToSet(tl) = OnRq(v, c) \ {None} /\ s \in Tasks /\ s \in A /\ v.se[s].cpu = c /\ v.se[s].on_rq
      BY TimelineFacts
    <2> QED BY <2>1, NoneFacts DEF OnRq
  <1>3. /\ w \in VType /\ w.se = v.se /\ \A d \in Cpus : d # c => w.rq[d] = v.rq[d]
        /\ w.rq[c] = [v.rq[c] EXCEPT !.timeline = t2]
        /\ t2 \in Seq(Tasks) /\ Injective(t2) /\ ToSet(t2) = ToSet(tl) \ {s} /\ Sorted(t2, X)
        /\ s # Head(tl) => t2 # <<>> /\ Head(t2) = Head(tl)
    BY <1>2, DequeueFacts
  <1> HIDE DEF w
  <1>4. v.rq[c] \in RqType /\ v.se[s] \in SeType /\ w.rq[c] \in RqType /\ 0 \in 0 .. MaxTime /\ w.se[s] = v.se[s]
    BY <1>1, <1>2, <1>3, Parts, CfsRqAssumption DEF Typed
  <1>5. set_next_entity(v, c, s) = r
    <2>1. set_next_entity(v, c, s) = [[w EXCEPT !.rq[c] = q] EXCEPT !.se[s].ran = 0]
      <3> HIDE DEF q
      <3>1. set_next_entity(v, c, s) = [[w EXCEPT !.rq[c] = [w.rq[c] EXCEPT !.curr = s, !.delta = 0]] EXCEPT !.se[s].ran = 0]
        BY <1>2, <1>3 DEF set_next_entity, w, VType
      <3> QED BY <3>1 DEF q
    <2>2. [w EXCEPT !.rq[c] = q] = v2
      <3> HIDE DEF q
      <3> QED BY <1>3 DEF WithRq, VType
    <2>3. v2 \in VType
      <3>1. q \in RqType
        BY <1>2, <1>4, ZenonT(40) DEF RqType
      <3> QED BY <1>3, <3>1, WithRqFacts
    <2>4. [v2 EXCEPT !.se[s].ran = 0] = r
      <3> HIDE DEF v2
      <3> QED BY <2>3 DEF WithSe, VType
    <2> HIDE DEF v2, q, r
    <2> QED BY <2>1, <2>2, <2>4
  <1>6. /\ q \in RqType /\ q.curr = s /\ q.delta = 0 /\ q.timeline = t2 /\ q.min_vruntime = v.rq[c].min_vruntime
        /\ q.last = v.rq[c].last /\ q.next = v.rq[c].next /\ q.skip = v.rq[c].skip /\ q.pc = v.rq[c].pc
    <2>1. w.rq[c].curr = v.rq[c].curr /\ w.rq[c].min_vruntime = v.rq[c].min_vruntime /\ w.rq[c].pc = v.rq[c].pc
          /\ w.rq[c].last = v.rq[c].last /\ w.rq[c].next = v.rq[c].next /\ w.rq[c].skip = v.rq[c].skip
      BY <1>3, <1>4 DEF RqType
    <2> QED BY <1>2, <1>4, <2>1, ZenonT(40) DEF RqType
  <1> HIDE DEF q
  <1>7. v2 \in VType /\ v2.se = w.se /\ v2.rq[c] = q /\ \A d \in Cpus : d # c => v2.rq[d] = w.rq[d]
    BY <1>3, <1>6, WithRqFacts
  <1> HIDE DEF v2
  <1>8. /\ g \in SeType /\ g.cpu = c /\ g.on_rq = v.se[s].on_rq /\ g.vruntime = v.se[s].vruntime
        /\ g.state = v.se[s].state /\ g.weight = v.se[s].weight
    <2>1. v2.se[s] = v.se[s]
      BY <1>3, <1>7
    <2> QED BY <1>2, <1>4, <2>1 DEF SeType
  <1> HIDE DEF g
  <1>9. r \in VType /\ r.rq = v2.rq /\ r.se[s] = g /\ \A t \in Tasks : t # s => r.se[t] = v.se[t]
    BY <1>2, <1>3, <1>7, <1>8, WithSeFacts
  <1> HIDE DEF r, t2
  <1>10. OnRq(r, c) = OnRq(v, c) /\ r.rq[c] = q
    BY <1>2, <1>7, <1>8, <1>9 DEF OnRq
  <1>11. Good(r, M, X, e, B, A)
    <2>1. CurrOk(r, e, A, c)
      <3>1. e \in Nat
        BY <1>1 DEF Typed
      <3> QED BY <1>2, <1>6, <1>8, <1>9, <1>10, <3>1 DEF CurrOk
    <2>2. Queue(r, c) /\ Buddy(r, c) /\ Sorted(r.rq[c].timeline, X)
      BY <1>1, <1>2, <1>3, <1>6, <1>10 DEF CpuOk, Queue, Buddy
    <2>3. X[s] >= M[c] - thresh
      BY <1>1, <1>2 DEF CpuOk, TaskOk
    <2>4. /\ \A d \in Cpus : d # c => r.rq[d] = v.rq[d]
          /\ r.se[s].cpu = c /\ r.se[s].vruntime = v.se[s].vruntime
          /\ r.rq[c].min_vruntime = v.rq[c].min_vruntime /\ r.rq[c].delta = 0
      BY <1>3, <1>6, <1>7, <1>8, <1>9, <1>10
    <2> QED BY <1>2, <1>9, <2>1, <2>2, <2>3, <2>4, Restructured
  <1>12. SameTimes(v, r)
    BY <1>2, <1>8, <1>9 DEF SameTimes, SameTask
  <1>13. Local(v, M, X, r, M, X, A, c, None)
    <2>1. \A d \in Cpus : M[d] <= M[d]
      BY <1>1 DEF Typed
    <2> QED BY <1>3, <1>7, <1>9, <1>12, <2>1 DEF Local, SameTimes
  <1> QED BY <1>3, <1>5, <1>6, <1>10, <1>11, <1>12, <1>13

\* The entity that is due: the leftmost of the timeline and curr.
Due(v, c, curr) ==
  LET first == __pick_first_entity(v, c)
  IN  IF first = None \/ (curr # None /\ entity_before(v, curr, first)) THEN curr ELSE first

\* curr as pick_next_task_fair passes it on.
Queued(v, c) == IF v.rq[c].curr # None /\ v.se[v.rq[c].curr].on_rq THEN v.rq[c].curr ELSE None

\* Who is queued on a CPU: the timeline, and curr if it is queued.
LEMMA QueuedFacts ==
  ASSUME NEW v, NEW M, NEW X, NEW e, NEW B, NEW A, Good(v, M, X, e, B, A), NEW c \in Cpus
  PROVE  /\ Queued(v, c) # None => Queued(v, c) \in OnRq(v, c)
         /\ OnRq(v, c) = ToSet(v.rq[c].timeline) \cup ({Queued(v, c)} \ {None})
  <1> DEFINE k  == v.rq[c].curr
             tl == v.rq[c].timeline
  <1>1. v.rq[c] \in RqType /\ k \in Tasks \cup {None} /\ (k # None => v.se[k].cpu = c)
    BY Parts DEF Good, Typed, CpuOk, CurrOk, RqType
  <1>2. ToSet(tl) = OnRq(v, c) \ {k}
    BY TimelineFacts
  <1> HIDE DEF k, tl
  <1>3. k \in OnRq(v, c) <=> k # None /\ v.se[k].on_rq
    BY <1>1, NoneFacts DEF OnRq
  <1>4. Queued(v, c) = IF k \in OnRq(v, c) THEN k ELSE None
    BY <1>3 DEF Queued, k
  <1>5. None \notin OnRq(v, c)
    BY NoneFacts DEF OnRq
  <1> QED BY <1>2, <1>4, <1>5 DEF tl

\* Who is due has the least vruntime of all that are queued, curr included.
LEMMA DueFacts ==
  ASSUME NEW v, NEW M, NEW X, NEW e, NEW B, NEW A, Good(v, M, X, e, B, A), NEW c \in Cpus,
         OnRq(v, c) # {}
  PROVE  /\ Due(v, c, Queued(v, c)) \in OnRq(v, c)
         /\ \A t \in OnRq(v, c) : X[Due(v, c, Queued(v, c))] <= X[t]
  <1> DEFINE first == __pick_first_entity(v, c)
             curr  == Queued(v, c)
             tl    == v.rq[c].timeline
             left  == Due(v, c, curr)
  <1>1. /\ tl \in Seq(Tasks) /\ Sorted(tl, X)
        /\ \A t \in OnRq(v, c) : t \in A /\ t \in Tasks /\ v.se[t].cpu = c
    BY TimelineFacts
  <1>2. /\ curr # None => curr \in OnRq(v, c)
        /\ OnRq(v, c) = ToSet(tl) \cup ({curr} \ {None})
    BY QueuedFacts
  <1>3. /\ first = None <=> tl = <<>>
        /\ first # None => first = tl[1] /\ first \in ToSet(tl)
    BY FirstFacts DEF Good, Typed
  <1>4. X \in [Tasks -> Int]
    BY DEF Good, Typed
  <1>5. first # None => \A t \in ToSet(tl) : X[first] <= X[t]
    <2> SUFFICES ASSUME first # None, NEW j \in DOMAIN tl
                 PROVE  X[first] <= X[tl[j]]
      BY DEF ToSet
    <2>1. 1 \in DOMAIN tl /\ 1 <= j /\ j \in Int /\ tl[j] \in Tasks /\ first = tl[1]
      BY <1>1, <1>3
    <2>2. 1 = j \/ 1 < j
      BY <2>1
    <2> QED BY <1>1, <1>4, <2>1, <2>2 DEF Sorted
  <1>6. tl = <<>> => ToSet(tl) = {}
    BY DEF ToSet
  <1>7. curr # None /\ first # None => (entity_before(v, curr, first) <=> X[curr] < X[first])
    <2>1. curr # None /\ first # None => curr \in A /\ first \in A /\ v.se[curr].cpu = c /\ v.se[first].cpu = c
      BY <1>1, <1>2, <1>3
    <2> HIDE DEF curr, first
    <2> QED BY <2>1, BeforeExact
  <1> HIDE DEF first, curr, tl
  <1>8. left = IF first = None \/ (curr # None /\ entity_before(v, curr, first)) THEN curr ELSE first
    BY DEF Due, first
  <1> HIDE DEF left
  <1>9. left \in OnRq(v, c)
    BY <1>2, <1>3, <1>6, <1>8
  <1>10. \A t \in OnRq(v, c) : X[t] \in Int
    BY <1>1, <1>4
  <1>11. ASSUME NEW t \in OnRq(v, c) PROVE X[left] <= X[t]
    <2>1. CASE first = None
      BY <1>2, <1>3, <1>6, <1>8, <1>10, <2>1
    <2>2. CASE first # None /\ curr # None /\ entity_before(v, curr, first)
      BY <1>2, <1>3, <1>5, <1>7, <1>8, <1>10, <2>2
    <2>3. CASE first # None /\ curr # None /\ ~entity_before(v, curr, first)
      BY <1>2, <1>3, <1>5, <1>7, <1>8, <1>10, <2>3
    <2>4. CASE first # None /\ curr = None
      BY <1>2, <1>3, <1>5, <1>8, <1>10, <2>4
    <2> QED BY <2>1, <2>2, <2>3, <2>4
  <1> QED BY <1>9, <1>11 DEF left, curr

\* Who is picked is queued, and it is due or not too unfair to who is.
LEMMA PickNext ==
  ASSUME NEW v, NEW M, NEW X, NEW e, NEW B, NEW A, Good(v, M, X, e, B, A), NEW c \in Cpus,
         OnRq(v, c) # {}
  PROVE  LET p   == pick_next_entity(v, c, Queued(v, c))
             due == Due(v, c, Queued(v, c))
         IN  p \in OnRq(v, c) /\ (p = due \/ wakeup_preempt_entity(v, p, due) < 1)
  <1> DEFINE first == __pick_first_entity(v, c)
             curr  == Queued(v, c)
             tl    == v.rq[c].timeline
             left  == Due(v, c, curr)
             after == __pick_next_entity(v, c, left)
             second == IF left = curr THEN first
                       ELSE IF after = None \/ (curr # None /\ entity_before(v, curr, after)) THEN curr
                       ELSE after
             p     == pick_next_entity(v, c, curr)
  <1>1. left \in OnRq(v, c)
    BY DueFacts
  <1>2. curr # None => curr \in OnRq(v, c)
    BY QueuedFacts
  <1>3. tl \in Seq(Tasks) /\ ToSet(tl) \subseteq OnRq(v, c)
    BY TimelineFacts
  <1>4. first # None => first \in OnRq(v, c)
    BY <1>3, FirstFacts DEF Good, Typed
  <1>5. left # curr /\ after # None => after \in OnRq(v, c)
    <2> SUFFICES ASSUME left # curr, after # None
                 PROVE  after \in OnRq(v, c)
      OBVIOUS
    <2> DEFINE i == CHOOSE k \in DOMAIN tl : tl[k] = left
    <2>1. left \in ToSet(tl)
      BY <1>1, QueuedFacts
    <2>2. \E k \in DOMAIN tl : tl[k] = left
      BY <2>1 DEF ToSet
    <2>3. i \in DOMAIN tl
      BY <2>2
    <2>4. after = IF i = Len(tl) THEN None ELSE tl[i + 1]
      BY DEF __pick_next_entity
    <2> HIDE DEF i, after
    <2>5. i + 1 \in DOMAIN tl /\ after = tl[i + 1]
      BY <1>3, <2>3, <2>4
    <2> HIDE DEF tl
    <2>6. after \in ToSet(tl)
      BY <2>5 DEF ToSet
    <2> QED BY <1>3, <2>6
  <1>6. {v.rq[c].last, v.rq[c].next, v.rq[c].skip} \subseteq OnRq(v, c) \cup {None}
    BY DEF Good, CpuOk, Buddy
  <1>7. p = IF NotUnfair(v, v.rq[c].next, left) THEN v.rq[c].next
            ELSE IF NotUnfair(v, v.rq[c].last, left) THEN v.rq[c].last
            ELSE IF v.rq[c].skip = left /\ NotUnfair(v, second, left) THEN second
            ELSE left
    BY DEF pick_next_entity, Due
  <1> HIDE DEF first, curr, after, left, p
  <1>8. second # None => second \in OnRq(v, c)
    BY <1>2, <1>4, <1>5
  <1> HIDE DEF second
  <1> QED BY <1>1, <1>6, <1>7, <1>8 DEF NotUnfair, p, left, curr

\* A run queue whose flags alone change.
LEMMA Reflag ==
  ASSUME NEW v, NEW M, NEW X, NEW e, NEW B, NEW A, Good(v, M, X, e, B, A), NEW c \in Cpus,
         NEW q \in RqType, q.curr = v.rq[c].curr, q.delta = v.rq[c].delta, q.timeline = v.rq[c].timeline,
         q.min_vruntime = v.rq[c].min_vruntime,
         {q.last, q.next, q.skip} \subseteq OnRq(v, c) \cup {None}
  PROVE  LET r == WithRq(v, c, q)
         IN  /\ Good(r, M, X, e, B, A) /\ r.se = v.se /\ r.rq[c] = q
             /\ \A s : Local(v, M, X, r, M, X, A, c, s)
  <1> DEFINE r == WithRq(v, c, q)
  <1>1. v \in VType /\ M \in [Cpus -> Int]
    BY DEF Good, Typed
  <1>2. Good(r, M, X, e, B, A)
    BY Rerq
  <1>3. r.se = v.se /\ r.rq[c] = q /\ \A d \in Cpus : d # c => r.rq[d] = v.rq[d]
    BY <1>1, WithRqFacts
  <1>4. \A d \in Cpus : M[d] <= M[d]
    BY <1>1
  <1> QED BY <1>2, <1>3, <1>4 DEF Local, SameTask

\* The flags of a run queue after a decision, and when schedule is due.
Decided(v, c)   == [v EXCEPT !.rq[c] = [@ EXCEPT !.resched = FALSE, !.pc = "run"]]
Preempted(v, c) == [v EXCEPT !.rq[c] = [@ EXCEPT !.resched = TRUE, !.pc = "run"]]

\* The flags that pick_next_task_fair and put_prev_task_fair set disturb nothing.
LEMMA DecidedGood ==
  ASSUME NEW v, NEW M, NEW X, NEW e, NEW B, NEW A, Good(v, M, X, e, B, A), NEW c \in Cpus,
         NEW r, r = Decided(v, c) \/ r = Preempted(v, c)
  PROVE  /\ Good(r, M, X, e, B, A) /\ Local(v, M, X, r, M, X, A, c, None) /\ r.se = v.se
         /\ r.rq[c].curr = v.rq[c].curr /\ r.rq[c].timeline = v.rq[c].timeline /\ r.rq[c].pc = "run"
  <1> DEFINE f == [v.rq[c] EXCEPT !.resched = FALSE, !.pc = "run"]
             t == [v.rq[c] EXCEPT !.resched = TRUE, !.pc = "run"]
  <1>1. v \in VType /\ Buddy(v, c)
    BY DEF Good, Typed, CpuOk
  <1>2. v.rq[c] \in RqType
    BY <1>1, Parts
  <1>3. \A q \in {f, t} :
          /\ q \in RqType /\ q.curr = v.rq[c].curr /\ q.delta = v.rq[c].delta /\ q.timeline = v.rq[c].timeline
          /\ q.min_vruntime = v.rq[c].min_vruntime /\ q.pc = "run"
          /\ q.last = v.rq[c].last /\ q.next = v.rq[c].next /\ q.skip = v.rq[c].skip
    BY <1>2, ZenonT(40) DEF RqType
  <1>4. Decided(v, c) = WithRq(v, c, f) /\ Preempted(v, c) = WithRq(v, c, t)
    BY <1>1 DEF Decided, Preempted, WithRq, VType
  <1> HIDE DEF f, t
  <1>5. PICK q \in {f, t} : r = WithRq(v, c, q)
    BY <1>4
  <1>6. {q.last, q.next, q.skip} \subseteq OnRq(v, c) \cup {None}
    BY <1>1, <1>3, <1>5 DEF Buddy
  <1>7. /\ q \in RqType /\ q.curr = v.rq[c].curr /\ q.delta = v.rq[c].delta /\ q.timeline = v.rq[c].timeline
        /\ q.min_vruntime = v.rq[c].min_vruntime /\ q.pc = "run"
    BY <1>3, <1>5
  <1> QED BY <1>5, <1>6, <1>7, Reflag

\* Nothing is due to be charged to a task that is put.
Charges(v, c) == v.rq[c].curr # None /\ v.se[v.rq[c].curr].on_rq => v.rq[c].delta = 0

\* put_prev_entity puts curr back where it belongs; first in the timeline is who was due.
LEMMA PutPrev ==
  ASSUME NEW v, NEW M, NEW X, NEW e, NEW B, NEW A, Good(v, M, X, e, B, A), NEW c \in Cpus,
         v.rq[c].curr # None, Charges(v, c)
  PROVE  LET r == put_prev_entity(v, c, v.rq[c].curr)
         IN  /\ Good(r, M, X, e, B, A) /\ r.se = v.se /\ \A d \in Cpus : d # c => r.rq[d] = v.rq[d]
             /\ r.rq[c].curr = None /\ r.rq[c].pc = v.rq[c].pc
             /\ OnRq(v, c) # {} => /\ r.rq[c].timeline # <<>>
                                   /\ Head(r.rq[c].timeline) = Due(v, c, Queued(v, c))
  <1> DEFINE s  == v.rq[c].curr
             tl == v.rq[c].timeline
             r  == put_prev_entity(v, c, s)
             f  == __pick_first_entity(v, c)
  <1>1. v \in VType /\ s \in Tasks /\ v.se[s].on_rq \in BOOLEAN /\ v.se[s].cpu = c
    BY Parts DEF Good, Typed, CpuOk, CurrOk, RqType, SeType
  <1>2. f = IF tl = <<>> THEN None ELSE Head(tl)
    BY DEF __pick_first_entity
  <1>3. tl # <<>> => Head(tl) # None
    BY <1>1, <1>2, FirstFacts
  <1>4. CASE v.se[s].on_rq
    <2> DEFINE w == Unset(__enqueue_entity(v, c, s), c)
    <2>1. update_curr(v, c) = v
      BY <1>1, <1>4, UpdateCurrCharges DEF Charges
    <2>2. r = w
      BY <1>4, <2>1 DEF put_prev_entity, Unset
    <2>3. s \in OnRq(v, c)
      BY <1>1, <1>4 DEF OnRq
    <2>4. /\ Good(w, M, X, e, B, A) /\ w.se = v.se /\ \A d \in Cpus : d # c => w.rq[d] = v.rq[d]
          /\ w.rq[c].curr = None /\ w.rq[c].pc = v.rq[c].pc /\ w.rq[c].timeline # <<>>
          /\ Head(w.rq[c].timeline) = IF tl # <<>> /\ ~entity_before(v, s, Head(tl)) THEN Head(tl) ELSE s
      BY <2>3, PutQueued
    <2> HIDE DEF w, r, tl, f
    <2>5. Queued(v, c) = s
      BY <1>4 DEF Queued
    <2>6. Due(v, c, s) = IF f = None \/ (s # None /\ entity_before(v, s, f)) THEN s ELSE f
      BY DEF Due, f
    <2>7. Due(v, c, s) = IF tl # <<>> /\ ~entity_before(v, s, Head(tl)) THEN Head(tl) ELSE s
      BY <1>2, <1>3, <2>6
    <2> HIDE DEF s
    <2>8. Head(w.rq[c].timeline) = Due(v, c, Queued(v, c))
      BY <2>4, <2>5, <2>7
    <2> QED BY <2>2, <2>4, <2>8 DEF r, s
  <1>5. CASE ~v.se[s].on_rq
    <2> DEFINE w == Unset(v, c)
    <2>1. r = w
      BY <1>5 DEF put_prev_entity, Unset
    <2>2. /\ Good(w, M, X, e, B, A) /\ w.se = v.se /\ \A d \in Cpus : d # c => w.rq[d] = v.rq[d]
          /\ w.rq[c].curr = None /\ w.rq[c].pc = v.rq[c].pc /\ w.rq[c].timeline = tl
      BY <1>1, <1>5, PutSlept
    <2>3. Queued(v, c) = None
      BY <1>5 DEF Queued
    <2>4. OnRq(v, c) = ToSet(tl)
      BY <2>3, QueuedFacts
    <2>5. tl = <<>> => ToSet(tl) = {}
      BY DEF ToSet
    <2> HIDE DEF w, r, tl, f
    <2>6. Due(v, c, None) = IF f = None THEN None ELSE f
      BY DEF Due, f
    <2>7. OnRq(v, c) # {} => tl # <<>> /\ Head(tl) = Due(v, c, Queued(v, c))
      BY <1>2, <1>3, <2>3, <2>4, <2>5, <2>6
    <2> QED BY <2>1, <2>2, <2>7 DEF r
  <1> QED BY <1>1, <1>4, <1>5

\* From the choice to the switch.
Switch(v, c, prev, p) ==
  LET v2   == clear_buddies(v, c, p)
      v3   == IF prev = None THEN v2 ELSE put_prev_entity(v2, c, prev)
  IN  Decided(IF p = prev THEN v2 ELSE set_next_entity(v3, c, p), c)

\* As long as no vruntime and no weight changes nobody becomes due earlier or later.
LEMMA SameTimesFacts ==
  ASSUME NEW v, NEW r, SameTimes(v, r)
  PROVE  /\ \A s, t \in Tasks : wakeup_preempt_entity(r, s, t) = wakeup_preempt_entity(v, s, t)
         /\ \A c : OnRq(r, c) = OnRq(v, c)
  BY DEF SameTimes, SameTask, wakeup_preempt_entity, wakeup_gran, OnRq

\* A CPU turns to a task that is due or not unfairly ahead of who is: whether curr is put and p
\* set, or nothing as curr was picked again, who waits first is not unfairly behind.
LEMMA SwitchGood ==
  ASSUME NEW v, NEW M, NEW X, NEW e, NEW B, NEW A, Good(v, M, X, e, B, A), NEW c \in Cpus,
         Charges(v, c), NEW p \in OnRq(v, c),
         p = Due(v, c, Queued(v, c)) \/ wakeup_preempt_entity(v, p, Due(v, c, Queued(v, c))) < 1
  PROVE  LET r == Switch(v, c, v.rq[c].curr, p)
         IN  /\ Good(r, M, X, e, B, A) /\ Local(v, M, X, r, M, X, A, c, None)
             /\ r.rq[c].curr = p /\ p \in OnRq(r, c) /\ r.rq[c].pc = "run"
             /\ p # v.rq[c].curr /\ r.rq[c].timeline # <<>>
                  => wakeup_preempt_entity(r, p, Head(r.rq[c].timeline)) < 1
  <1> DEFINE prev == v.rq[c].curr
             v2   == clear_buddies(v, c, p)
             v3   == IF prev = None THEN v2 ELSE put_prev_entity(v2, c, prev)
             v4   == IF p = prev THEN v2 ELSE set_next_entity(v3, c, p)
             r    == Decided(v4, c)
             due  == Due(v, c, Queued(v, c))
  <1>0. p \in Tasks /\ p # None /\ v \in VType /\ M \in [Cpus -> Int]
    BY NoneFacts DEF OnRq, Good, Typed
  <1>1. /\ Good(v2, M, X, e, B, A) /\ v2.se = v.se /\ \A d \in Cpus : d # c => v2.rq[d] = v.rq[d]
        /\ SameQueue(v, v2, c) /\ v2.rq[c].delta = v.rq[c].delta
    BY <1>0, ClearGood
  <1>2. v2.rq[c].curr = prev /\ v2.rq[c].timeline = v.rq[c].timeline
    BY <1>1 DEF SameQueue
  <1>3. Charges(v2, c) /\ Queued(v2, c) = Queued(v, c) /\ OnRq(v2, c) = OnRq(v, c)
    BY <1>1, <1>2 DEF Charges, Queued, OnRq
  <1>4. Due(v2, c, Queued(v2, c)) = due
    BY <1>1, <1>2, <1>3 DEF Due, __pick_first_entity, entity_before
  <1>r. Switch(v, c, prev, p) = r
    BY DEF Switch
  <1> HIDE DEF v2, r, due
  <1>5. CASE p = prev
    <2>1. v4 = v2
      BY <1>5
    <2>2. /\ Good(r, M, X, e, B, A) /\ Local(v2, M, X, r, M, X, A, c, None) /\ r.se = v2.se
          /\ r.rq[c].curr = v2.rq[c].curr /\ r.rq[c].pc = "run"
      BY <1>1, <2>1, DecidedGood DEF r
    <2>3. Local(v, M, X, v2, M, X, A, c, None)
      <3>1. \A d \in Cpus : M[d] <= M[d]
        BY <1>0
      <3> QED BY <1>1, <3>1 DEF Local, SameTask
    <2>4. Local(v, M, X, r, M, X, A, c, None)
      BY <1>0, <2>2, <2>3, LocalTrans
    <2>5. p \in OnRq(r, c)
      BY <1>1, <2>2 DEF OnRq
    <2> QED BY <1>2, <1>5, <1>r, <2>2, <2>4, <2>5
  <1>6. CASE p # prev
    <2>1. /\ Good(v3, M, X, e, B, A) /\ v3.se = v.se /\ \A d \in Cpus : d # c => v3.rq[d] = v.rq[d]
          /\ v3.rq[c].curr = None
          /\ v3.rq[c].timeline # <<>> /\ Head(v3.rq[c].timeline) = due
      <3>1. CASE prev # None
        <4>1. v3 = put_prev_entity(v2, c, v2.rq[c].curr)
          BY <1>2, <3>1
        <4>2. OnRq(v2, c) # {}
          BY <1>3
        <4> DEFINE w == put_prev_entity(v2, c, v2.rq[c].curr)
        <4>3. /\ Good(w, M, X, e, B, A) /\ w.se = v2.se /\ \A d \in Cpus : d # c => w.rq[d] = v2.rq[d]
              /\ w.rq[c].curr = None
              /\ OnRq(v2, c) # {} => /\ w.rq[c].timeline # <<>>
                                     /\ Head(w.rq[c].timeline) = Due(v2, c, Queued(v2, c))
          BY <1>1, <1>2, <1>3, <3>1, PutPrev, SMTT(90)
        <4> HIDE DEF w, v3
        <4> QED BY <1>1, <1>4, <4>1, <4>2, <4>3 DEF w
      <3>2. CASE prev = None
        <4>1. v3 = v2
          BY <3>2
        <4>2. Queued(v2, c) = None
          BY <1>2, <3>2 DEF Queued
        <4>3. OnRq(v2, c) = ToSet(v2.rq[c].timeline)
          BY <1>1, <4>2, QueuedFacts
        <4>4. v2.rq[c].timeline = <<>> => ToSet(v2.rq[c].timeline) = {}
          BY DEF ToSet
        <4>5. v2.rq[c].timeline # <<>>
          BY <1>3, <4>3, <4>4
        <4>6. due = Head(v2.rq[c].timeline)
          BY <1>4, <4>2, <4>5 DEF Due, __pick_first_entity
        <4> HIDE DEF v3
        <4> QED BY <1>1, <1>2, <3>2, <4>1, <4>5, <4>6
      <3> HIDE DEF v3, prev
      <3> QED BY <3>1, <3>2
    <2> HIDE DEF v3
    <2>2. OnRq(v3, c) = OnRq(v, c)
      BY <2>1 DEF OnRq
    <2> DEFINE w == set_next_entity(v3, c, p)
    <2>3. /\ Good(w, M, X, e, B, A) /\ SameTimes(v3, w) /\ Local(v3, M, X, w, M, X, A, c, None)
          /\ w.rq[c].curr = p
          /\ p # Head(v3.rq[c].timeline) => w.rq[c].timeline # <<>> /\ Head(w.rq[c].timeline) = Head(v3.rq[c].timeline)
      BY <2>1, <2>2, SetNextGood
    <2>4. v4 = w
      BY <1>6
    <2> HIDE DEF w, v4
    <2>5. /\ Good(r, M, X, e, B, A) /\ Local(w, M, X, r, M, X, A, c, None) /\ r.se = w.se
          /\ r.rq[c].curr = p /\ r.rq[c].pc = "run" /\ r.rq[c].timeline = w.rq[c].timeline
      BY <2>3, <2>4, DecidedGood DEF r
    <2>6. SameTimes(v, r)
      BY <2>1, <2>3, <2>5 DEF SameTimes, SameTask
    <2>7. Local(v, M, X, r, M, X, A, c, None)
      <3>1. \A d \in Cpus : M[d] <= M[d]
        BY <1>0
      <3> QED BY <2>1, <2>3, <2>5, <2>6, <3>1 DEF Local, SameTimes
    <2>8. p \in OnRq(r, c) /\ OnRq(r, c) = OnRq(v, c)
      BY <2>6, SameTimesFacts
    <2>9. ASSUME r.rq[c].timeline # <<>>
          PROVE  wakeup_preempt_entity(r, p, Head(r.rq[c].timeline)) < 1
      <3> DEFINE h == Head(r.rq[c].timeline)
      <3>1. /\ r.rq[c].timeline \in Seq(Tasks)
            /\ ToSet(r.rq[c].timeline) \subseteq OnRq(r, c)
            /\ \A t \in OnRq(r, c) : t \in A /\ t \in Tasks /\ r.se[t].cpu = c
        BY <2>5, TimelineFacts
      <3>2. h \in ToSet(r.rq[c].timeline)
        BY <2>9, <3>1 DEF ToSet
      <3>3. h \in A /\ h \in Tasks /\ r.se[h].cpu = c /\ p \in A /\ p \in Tasks /\ r.se[p].cpu = c /\ h \in OnRq(v, c)
        BY <2>8, <3>1, <3>2
      <3>4. CASE p = due
        <4>1. X[p] <= X[h]
          BY <3>3, <3>4, DueFacts DEF due
        <4>2. Diff(r.se[p].vruntime, r.se[h].vruntime) = X[p] - X[h]
          BY <2>5, <3>3, BeforeExact
        <4>3. X[p] \in Int /\ X[h] \in Int
          BY <3>3 DEF Good, Typed
        <4> HIDE DEF h
        <4>4. Diff(r.se[p].vruntime, r.se[h].vruntime) <= 0
          BY <4>1, <4>2, <4>3
        <4>5. wakeup_preempt_entity(r, p, h) = -1
          BY <4>4 DEF wakeup_preempt_entity
        <4> QED BY <4>5 DEF h
      <3>5. CASE p # due
        <4>1. h = due
          BY <2>1, <2>3, <2>5, <3>5
        <4>2. wakeup_preempt_entity(v, p, h) < 1
          BY <3>5, <4>1 DEF due
        <4> HIDE DEF h
        <4> QED BY <2>6, <3>3, <4>2, SameTimesFacts DEF h
      <3> QED BY <3>4, <3>5
    <2> QED BY <1>r, <2>5, <2>7, <2>8, <2>9
  <1> QED BY <1>5, <1>6

\* pick_next_task_fair keeps the run queue in order and picks fairly, buddies included.
LEMMA PickGood ==
  ASSUME NEW v, NEW M, NEW X, NEW e, NEW B, NEW A, Good(v, M, X, e, B, A), NEW c \in Cpus,
         OnRq(v, c) # {}
  PROVE  \E M2 \in [Cpus -> Int], X2 \in [Tasks -> Int] :
           LET r == Pick(v, c)
           IN  /\ Good(r, M2, X2, e, B, A) /\ Local(v, M, X, r, M2, X2, A, c, None)
               /\ r.rq[c].curr \in OnRq(r, c) /\ r.rq[c].pc = "run"
               /\ r.rq[c].curr # v.rq[c].curr /\ r.rq[c].timeline # <<>>
                    => wakeup_preempt_entity(r, r.rq[c].curr, Head(r.rq[c].timeline)) < 1
  <1> DEFINE curr == Queued(v, c)
             v1   == IF curr # None THEN update_curr(v, c) ELSE v
             p    == pick_next_entity(v1, c, curr)
             r    == Switch(v1, c, v.rq[c].curr, p)
  <1>0. M \in [Cpus -> Int] /\ X \in [Tasks -> Int] /\ v \in VType
    BY DEF Good, Typed
  <1>1. PICK M1 \in [Cpus -> Int], X1 \in [Tasks -> Int] :
          Good(v1, M1, X1, e, B, A) /\ Local(v, M, X, v1, M1, X1, A, c, None)
    <2>1. CASE curr # None
      BY <2>1, UpdateCurrGood
    <2>2. CASE curr = None
      <3>1. Local(v, M, X, v, M, X, A, c, None)
        <4>1. \A d \in Cpus : M[d] <= M[d]
          BY <1>0
        <4> QED BY <4>1 DEF Local, SameTask
      <3> HIDE DEF curr
      <3>2. v1 = v
        BY <2>2
      <3> QED BY <1>0, <3>1, <3>2
    <2> QED BY <2>1, <2>2
  <1>2. /\ v1.rq[c].curr = v.rq[c].curr /\ \A t \in Tasks : SameTask(v, v1, t)
        /\ curr # None => v1.rq[c].delta = 0
    <2>1. CASE curr # None
      <3>1. v.rq[c].curr # None
        BY <2>1 DEF Queued
      <3>2. v1 = update_curr(v, c)
        BY <2>1
      <3> QED BY <1>0, <3>1, <3>2, UpdateCurrFacts DEF Keeps, SameQueue
    <2>2. CASE curr = None
      <3> HIDE DEF curr
      <3>2. v1 = v
        BY <2>2
      <3> QED BY <2>2, <3>2 DEF SameTask
    <2> QED BY <2>1, <2>2
  <1> HIDE DEF v1
  <1>k. v.rq[c].curr \in Tasks \cup {None}
    BY <1>0, Parts DEF RqType
  <1>3. Queued(v1, c) = curr
    BY <1>2, <1>k DEF Queued, SameTask
  <1>4. Charges(v1, c)
    BY <1>2, <1>3, <1>k DEF Charges, Queued
  <1>5. OnRq(v1, c) # {}
    BY <1>2, OnRqSame
  <1>6. p \in OnRq(v1, c) /\ (p = Due(v1, c, Queued(v1, c)) \/ wakeup_preempt_entity(v1, p, Due(v1, c, Queued(v1, c))) < 1)
    BY <1>1, <1>3, <1>5, PickNext
  <1>7. Pick(v, c) = r
    BY DEF Pick, Switch, Decided, Queued, v1
  <1> HIDE DEF p
  <1>8. /\ Good(r, M1, X1, e, B, A) /\ Local(v1, M1, X1, r, M1, X1, A, c, None)
        /\ r.rq[c].curr = p /\ p \in OnRq(r, c) /\ r.rq[c].pc = "run"
        /\ p # v1.rq[c].curr /\ r.rq[c].timeline # <<>>
             => wakeup_preempt_entity(r, p, Head(r.rq[c].timeline)) < 1
    BY <1>1, <1>2, <1>4, <1>6, SwitchGood
  <1> HIDE DEF r
  <1>9. Local(v, M, X, r, M1, X1, A, c, None)
    BY <1>0, <1>1, <1>8, LocalTrans
  <1> QED BY <1>2, <1>7, <1>8, <1>9

-----------------------------------------------------------------------------
(***************************************************************************)
(* Preemption: flags and buddies.                                          *)
(***************************************************************************)

\* A buddy is set, TIF_NEED_RESCHED is set, schedule is on its way.
Marks(v, c, s) == {[v EXCEPT !.rq[c].next = s], [v EXCEPT !.rq[c].last = s], [v EXCEPT !.rq[c].skip = s]}

\* Buddy pointers may be set to queued tasks.
LEMMA MarkGood ==
  ASSUME NEW v, NEW M, NEW X, NEW e, NEW B, NEW A, Good(v, M, X, e, B, A), NEW c \in Cpus,
         NEW s \in OnRq(v, c), NEW r \in Marks(v, c, s)
  PROVE  /\ Good(r, M, X, e, B, A) /\ Local(v, M, X, r, M, X, A, c, None) /\ r.se = v.se
         /\ SameCurr(v, r, c)
  <1> DEFINE q1 == [v.rq[c] EXCEPT !.next = s]
             q2 == [v.rq[c] EXCEPT !.last = s]
             q3 == [v.rq[c] EXCEPT !.skip = s]
  <1>1. v \in VType /\ Buddy(v, c)
    BY DEF Good, Typed, CpuOk
  <1>2. v.rq[c] \in RqType /\ s \in Tasks
    BY <1>1, Parts DEF OnRq
  <1>3. \A q \in {q1, q2, q3} :
          /\ q \in RqType /\ q.curr = v.rq[c].curr /\ q.delta = v.rq[c].delta /\ q.timeline = v.rq[c].timeline
          /\ q.min_vruntime = v.rq[c].min_vruntime /\ q.pc = v.rq[c].pc
          /\ {q.last, q.next, q.skip} \subseteq {v.rq[c].last, v.rq[c].next, v.rq[c].skip, s}
    BY <1>2 DEF RqType
  <1>4. Marks(v, c, s) = {WithRq(v, c, q1), WithRq(v, c, q2), WithRq(v, c, q3)}
    <2>1. /\ [v EXCEPT !.rq[c].next = s] = WithRq(v, c, q1)
          /\ [v EXCEPT !.rq[c].last = s] = WithRq(v, c, q2)
          /\ [v EXCEPT !.rq[c].skip = s] = WithRq(v, c, q3)
      BY <1>1 DEF WithRq, VType
    <2> HIDE DEF q1, q2, q3
    <2> QED BY <2>1 DEF Marks
  <1> HIDE DEF q1, q2, q3
  <1>5. PICK q \in {q1, q2, q3} : r = WithRq(v, c, q)
    BY <1>4
  <1>6. {q.last, q.next, q.skip} \subseteq OnRq(v, c) \cup {None}
    BY <1>1, <1>3, <1>5 DEF Buddy
  <1>7. /\ q \in RqType /\ q.curr = v.rq[c].curr /\ q.delta = v.rq[c].delta /\ q.timeline = v.rq[c].timeline
        /\ q.min_vruntime = v.rq[c].min_vruntime /\ q.pc = v.rq[c].pc
    BY <1>3, <1>5
  <1>8. /\ Good(r, M, X, e, B, A) /\ r.se = v.se /\ r.rq[c] = q
        /\ \A t : Local(v, M, X, r, M, X, A, c, t)
    BY <1>5, <1>6, <1>7, Reflag
  <1> QED BY <1>7, <1>8 DEF SameCurr

\* resched_curr disturbs nothing.
LEMMA ReschedGood ==
  ASSUME NEW v, NEW M, NEW X, NEW e, NEW B, NEW A, Good(v, M, X, e, B, A), NEW c \in Cpus
  PROVE  LET r == resched_curr(v, c)
         IN  /\ Good(r, M, X, e, B, A) /\ Local(v, M, X, r, M, X, A, c, None) /\ r.se = v.se
             /\ SameCurr(v, r, c)
  <1> DEFINE q == [v.rq[c] EXCEPT !.resched = TRUE]
             r == resched_curr(v, c)
  <1>1. v \in VType /\ Buddy(v, c)
    BY DEF Good, Typed, CpuOk
  <1>2. v.rq[c] \in RqType
    BY <1>1, Parts
  <1>3. /\ q \in RqType /\ q.curr = v.rq[c].curr /\ q.delta = v.rq[c].delta /\ q.timeline = v.rq[c].timeline
        /\ q.min_vruntime = v.rq[c].min_vruntime /\ q.pc = v.rq[c].pc
        /\ q.last = v.rq[c].last /\ q.next = v.rq[c].next /\ q.skip = v.rq[c].skip
    BY <1>2 DEF RqType
  <1>4. r = WithRq(v, c, q)
    <2>1. ASSUME NEW b PROVE [v EXCEPT !.rq[c].resched = b] = WithRq(v, c, [v.rq[c] EXCEPT !.resched = b])
      BY <1>1 DEF WithRq, VType
    <2> QED BY <2>1, Zenon DEF resched_curr
  <1> HIDE DEF q, r
  <1>6. {q.last, q.next, q.skip} \subseteq OnRq(v, c) \cup {None}
    BY <1>1, <1>3 DEF Buddy
  <1>8. /\ Good(r, M, X, e, B, A) /\ r.se = v.se /\ r.rq[c] = q
        /\ \A t : Local(v, M, X, r, M, X, A, c, t)
    BY <1>3, <1>4, <1>6, Reflag
  <1> QED BY <1>3, <1>8 DEF SameCurr, r

AtPc(v, c, pc) == [v EXCEPT !.rq[c].pc = pc]

\* Where schedule stands disturbs nothing.
LEMMA PcGood ==
  ASSUME NEW v, NEW M, NEW X, NEW e, NEW B, NEW A, Good(v, M, X, e, B, A), NEW c \in Cpus,
         NEW pc \in {"run", "yield", "newidle"}
  PROVE  LET r == AtPc(v, c, pc)
         IN  /\ Good(r, M, X, e, B, A) /\ Local(v, M, X, r, M, X, A, c, None) /\ r.se = v.se
             /\ r.rq[c].curr = v.rq[c].curr /\ r.rq[c].pc = pc
  <1> DEFINE q == [v.rq[c] EXCEPT !.pc = pc]
             r == AtPc(v, c, pc)
  <1>1. v \in VType /\ Buddy(v, c)
    BY DEF Good, Typed, CpuOk
  <1>2. v.rq[c] \in RqType
    BY <1>1, Parts
  <1>3. /\ q \in RqType /\ q.curr = v.rq[c].curr /\ q.delta = v.rq[c].delta /\ q.timeline = v.rq[c].timeline
        /\ q.min_vruntime = v.rq[c].min_vruntime /\ q.pc = pc
        /\ q.last = v.rq[c].last /\ q.next = v.rq[c].next /\ q.skip = v.rq[c].skip
    BY <1>2 DEF RqType
  <1>4. r = WithRq(v, c, q)
    BY <1>1 DEF AtPc, WithRq, VType
  <1> HIDE DEF q, r
  <1>6. {q.last, q.next, q.skip} \subseteq OnRq(v, c) \cup {None}
    BY <1>1, <1>3 DEF Buddy
  <1>8. /\ Good(r, M, X, e, B, A) /\ r.se = v.se /\ r.rq[c] = q
        /\ \A t : Local(v, M, X, r, M, X, A, c, t)
    BY <1>3, <1>4, <1>6, Reflag
  <1> QED BY <1>3, <1>8 DEF r

\* A step that changes nothing is local.
LEMMA SameGood ==
  ASSUME NEW v, NEW M, NEW X, NEW e, NEW B, NEW A, Good(v, M, X, e, B, A), NEW c \in Cpus
  PROVE  Local(v, M, X, v, M, X, A, c, None)
  <1>1. \A d \in Cpus : M[d] <= M[d]
    BY DEF Good, Typed
  <1> QED BY <1>1 DEF Local, SameTask

\* Whatever check_preempt_curr decides, the run queue stays sound.
LEMMA PreemptGood ==
  ASSUME NEW v, NEW M, NEW X, NEW e, NEW B, NEW A, Good(v, M, X, e, B, A), NEW c \in Cpus,
         NEW p \in OnRq(v, c), NEW fork
  PROVE  \E M2 \in [Cpus -> Int], X2 \in [Tasks -> Int] :
           LET r == check_preempt_curr(v, c, p, fork)
           IN  /\ Good(r, M2, X2, e, B, A) /\ Local(v, M, X, r, M2, X2, A, c, None)
               /\ SameCurr(v, r, c)
  <1> DEFINE curr   == v.rq[c].curr
             scale  == nr_running(v, c) >= sched_nr_latency
             marked == "NEXT_BUDDY" \in Features /\ scale /\ ~fork
             v1 == IF marked THEN [v EXCEPT !.rq[c].next = p] ELSE v
             v2 == update_curr(v1, c)
             n2 == [v2 EXCEPT !.rq[c].next = p]
             v3 == resched_curr(n2, c)
             v4 == [v3 EXCEPT !.rq[c].last = curr]
             r  == check_preempt_curr(v, c, p, fork)
  <1>0. M \in [Cpus -> Int] /\ X \in [Tasks -> Int] /\ v \in VType
    BY DEF Good, Typed
  <1>1. CASE curr = None
    <2>1. r = resched_curr(v, c)
      BY <1>1 DEF check_preempt_curr
    <2> QED BY <1>0, <2>1, ReschedGood
  <1>2. CASE curr # None
    <2> DEFINE last == v.se[curr].on_rq /\ "LAST_BUDDY" \in Features /\ scale
               less == wakeup_preempt_entity(v2, curr, p) < 1
               stop == v.rq[c].resched \/ "WAKEUP_PREEMPTION" \notin Features
    <2>1. r = IF curr = p THEN v ELSE IF stop THEN v1 ELSE IF less THEN v2 ELSE IF last THEN v4 ELSE v3
      BY <1>2, Zenon DEF check_preempt_curr, check_preempt_wakeup
    <2>2. /\ Good(v1, M, X, e, B, A) /\ Local(v, M, X, v1, M, X, A, c, None) /\ v1.se = v.se
          /\ SameCurr(v, v1, c)
      <3>1. CASE marked
        <4>1. v1 \in Marks(v, c, p)
          BY <3>1 DEF Marks
        <4> QED BY <4>1, MarkGood
      <3>2. CASE ~marked
        <4> HIDE DEF marked
        <4>1. v1 = v
          BY <3>2
        <4> QED BY <4>1, SameGood DEF SameCurr
      <3> QED BY <3>1, <3>2
    <2> HIDE DEF marked, v1
    <2>3. v1 \in VType
      BY <2>2 DEF Good, Typed
    <2>4. PICK M2 \in [Cpus -> Int], X2 \in [Tasks -> Int] :
            Good(v2, M2, X2, e, B, A) /\ Local(v1, M, X, v2, M2, X2, A, c, None)
      BY <2>2, UpdateCurrGood
    <2>5. SameCurr(v, v2, c) /\ \A t \in Tasks : SameTask(v, v2, t)
      BY <2>2, <2>3, UpdateCurrFacts DEF Keeps, SameQueue, SameCurr, SameTask
    <2>6. Local(v, M, X, v2, M2, X2, A, c, None)
      BY <1>0, <2>2, <2>4, LocalTrans
    <2> HIDE DEF v2
    <2>7. p \in OnRq(v2, c)
      BY <2>5, OnRqSame
    <2>8. /\ Good(n2, M2, X2, e, B, A) /\ Local(v2, M2, X2, n2, M2, X2, A, c, None) /\ n2.se = v2.se
          /\ SameCurr(v2, n2, c)
      <3>1. n2 \in Marks(v2, c, p)
        BY DEF Marks
      <3> QED BY <2>4, <2>7, <3>1, MarkGood
    <2> HIDE DEF n2
    <2>9. /\ Good(v3, M2, X2, e, B, A) /\ Local(n2, M2, X2, v3, M2, X2, A, c, None) /\ v3.se = n2.se
          /\ SameCurr(n2, v3, c)
      BY <2>8, ReschedGood
    <2> HIDE DEF v3
    <2>10. /\ Local(v, M, X, v3, M2, X2, A, c, None) /\ SameCurr(v, v3, c)
      <3>1. Local(v, M, X, n2, M2, X2, A, c, None)
        BY <1>0, <2>6, <2>8, LocalTrans
      <3> QED BY <1>0, <2>5, <2>8, <2>9, <3>1, LocalTrans DEF SameCurr
    <2>11. ASSUME last
           PROVE  /\ Good(v4, M2, X2, e, B, A) /\ Local(v3, M2, X2, v4, M2, X2, A, c, None)
                  /\ SameCurr(v3, v4, c)
      <3>1. curr \in OnRq(v, c)
        <4>1. Queued(v, c) = curr
          BY <1>2, <2>11 DEF Queued
        <4> QED BY <1>2, <4>1, QueuedFacts
      <3>2. curr \in OnRq(v3, c)
        <4>1. OnRq(v2, c) = OnRq(v, c)
          BY <2>5, OnRqSame
        <4> HIDE DEF curr
        <4> QED BY <2>8, <2>9, <3>1, <4>1 DEF OnRq
      <3>3. v4 \in Marks(v3, c, curr)
        BY DEF Marks
      <3> QED BY <2>9, <3>2, <3>3, MarkGood
    <2> HIDE DEF r, v4, last, less, stop, curr
    <2>12. CASE r = v
      BY <1>0, <2>12, SameGood DEF SameCurr, r
    <2>13. CASE r = v1
      BY <1>0, <2>2, <2>13 DEF r
    <2>14. CASE r = v2
      BY <2>4, <2>5, <2>6, <2>14 DEF r
    <2>15. CASE r = v3
      BY <2>9, <2>10, <2>15 DEF r
    <2>16. CASE last /\ r = v4
      <3>1. Local(v, M, X, v4, M2, X2, A, c, None)
        BY <1>0, <2>10, <2>11, <2>16, LocalTrans
      <3>2. SameCurr(v, v4, c)
        BY <2>10, <2>11, <2>16 DEF SameCurr
      <3> QED BY <2>11, <2>16, <3>1, <3>2 DEF r
    <2> QED BY <2>1, <2>12, <2>13, <2>14, <2>15, <2>16
  <1> QED BY <1>1, <1>2

\* Buddy pointers may be cleared.
LEMMA ClearedGood ==
  ASSUME NEW v, NEW M, NEW X, NEW e, NEW B, NEW A, Good(v, M, X, e, B, A), NEW c \in Cpus, NEW s \in Tasks
  PROVE  LET r == clear_buddies(v, c, s)
         IN  /\ Good(r, M, X, e, B, A) /\ Local(v, M, X, r, M, X, A, c, None) /\ r.se = v.se /\ SameCurr(v, r, c)
  BY ClearGood DEF SameQueue, SameCurr

\* check_preempt_tick changes flags and buddies only.
LEMMA TickGood ==
  ASSUME NEW v, NEW M, NEW X, NEW e, NEW B, NEW A, Good(v, M, X, e, B, A), NEW c \in Cpus, NEW s \in Tasks
  PROVE  LET r == check_preempt_tick(v, c, s)
         IN  /\ Good(r, M, X, e, B, A) /\ Local(v, M, X, r, M, X, A, c, None) /\ SameCurr(v, r, c)
  <1> DEFINE r  == check_preempt_tick(v, c, s)
             w  == resched_curr(v, c)
             k  == clear_buddies(w, c, s)
  <1>0. M \in [Cpus -> Int]
    BY DEF Good, Typed
  <1>1. r = k \/ r = v \/ r = w
    BY Zenon DEF check_preempt_tick
  <1>2. /\ Good(w, M, X, e, B, A) /\ Local(v, M, X, w, M, X, A, c, None) /\ w.se = v.se
        /\ SameCurr(v, w, c)
    BY ReschedGood
  <1>3. Local(v, M, X, v, M, X, A, c, None) /\ SameCurr(v, v, c)
    BY SameGood DEF SameCurr
  <1> HIDE DEF w, r
  <1>4. Good(k, M, X, e, B, A) /\ Local(w, M, X, k, M, X, A, c, None) /\ SameCurr(w, k, c)
    BY <1>2, ClearedGood
  <1> HIDE DEF k
  <1>5. Local(v, M, X, k, M, X, A, c, None) /\ SameCurr(v, k, c)
    BY <1>0, <1>2, <1>4, LocalTrans DEF SameCurr
  <1> QED BY <1>1, <1>2, <1>3, <1>4, <1>5 DEF r

\* yield_task_fair charges curr and marks it to be skipped.
LEMMA YieldGood ==
  ASSUME NEW v, NEW M, NEW X, NEW e, NEW B, NEW A, Good(v, M, X, e, B, A), NEW c \in Cpus,
         v.rq[c].curr \in OnRq(v, c)
  PROVE  \E M2 \in [Cpus -> Int], X2 \in [Tasks -> Int] :
           LET r == yield_task_fair(v, c)
           IN  /\ Good(r, M2, X2, e, B, A) /\ Local(v, M, X, r, M2, X2, A, c, None)
               /\ r.rq[c].curr = v.rq[c].curr /\ r.rq[c].pc = "yield"
  <1> DEFINE s  == v.rq[c].curr
             w  == clear_buddies(v, c, s)
             u  == update_curr(w, c)
             v1 == IF nr_running(v, c) = 1 THEN v ELSE [u EXCEPT !.rq[c].skip = s]
             r  == AtPc(v1, c, "yield")
  <1>0. M \in [Cpus -> Int] /\ X \in [Tasks -> Int] /\ v \in VType /\ s \in Tasks
    BY DEF Good, Typed, OnRq
  <1>1. /\ Good(w, M, X, e, B, A) /\ Local(v, M, X, w, M, X, A, c, None) /\ w.se = v.se /\ SameCurr(v, w, c)
    BY <1>0, ClearedGood
  <1> HIDE DEF w
  <1>2. PICK M2 \in [Cpus -> Int], X2 \in [Tasks -> Int] :
          Good(u, M2, X2, e, B, A) /\ Local(w, M, X, u, M2, X2, A, c, None)
    BY <1>1, UpdateCurrGood
  <1>3. Local(v, M, X, u, M2, X2, A, c, None)
    BY <1>0, <1>1, <1>2, LocalTrans
  <1>4. SameCurr(v, u, c) /\ OnRq(u, c) = OnRq(v, c)
    <2>1. w \in VType
      BY <1>1 DEF Good, Typed
    <2>2. SameQueue(w, u, c) /\ \A t \in Tasks : SameTask(w, u, t)
      BY <2>1, UpdateCurrFacts DEF Keeps
    <2>3. OnRq(u, c) = OnRq(w, c)
      BY <2>2, OnRqSame
    <2> HIDE DEF u
    <2> QED BY <1>1, <2>2, <2>3 DEF SameQueue, SameCurr, OnRq
  <1> HIDE DEF u
  <1>5. \E M3 \in [Cpus -> Int], X3 \in [Tasks -> Int] :
          Good(v1, M3, X3, e, B, A) /\ Local(v, M, X, v1, M3, X3, A, c, None) /\ SameCurr(v, v1, c)
    <2>1. CASE nr_running(v, c) = 1
      <3>1. v1 = v
        BY <2>1
      <3>2. Local(v, M, X, v, M, X, A, c, None) /\ SameCurr(v, v, c)
        BY SameGood DEF SameCurr
      <3> HIDE DEF v1
      <3> QED BY <1>0, <3>1, <3>2
    <2>2. CASE nr_running(v, c) # 1
      <3> DEFINE k == [u EXCEPT !.rq[c].skip = s]
      <3>1. v1 = k
        BY <2>2
      <3>2. k \in Marks(u, c, s)
        BY DEF Marks
      <3> HIDE DEF k, v1, s
      <3>3. s \in OnRq(u, c)
        BY <1>4 DEF s
      <3>4. Good(k, M2, X2, e, B, A) /\ Local(u, M2, X2, k, M2, X2, A, c, None) /\ SameCurr(u, k, c)
        BY <1>2, <3>2, <3>3, MarkGood
      <3>5. Local(v, M, X, k, M2, X2, A, c, None) /\ SameCurr(v, k, c)
        BY <1>0, <1>2, <1>3, <1>4, <3>4, LocalTrans DEF SameCurr
      <3> QED BY <3>1, <3>4, <3>5
    <2> QED BY <2>1, <2>2
  <1>6. PICK M3 \in [Cpus -> Int], X3 \in [Tasks -> Int] :
          Good(v1, M3, X3, e, B, A) /\ Local(v, M, X, v1, M3, X3, A, c, None) /\ SameCurr(v, v1, c)
    BY <1>5
  <1>7. r = yield_task_fair(v, c)
    BY DEF yield_task_fair, AtPc, u, w
  <1> HIDE DEF v1
  <1>8. /\ Good(r, M3, X3, e, B, A) /\ Local(v1, M3, X3, r, M3, X3, A, c, None)
        /\ r.rq[c].curr = v1.rq[c].curr /\ r.rq[c].pc = "yield"
    BY <1>6, PcGood
  <1> HIDE DEF r
  <1>9. Local(v, M, X, r, M3, X3, A, c, None)
    BY <1>0, <1>6, <1>8, LocalTrans
  <1> QED BY <1>6, <1>7, <1>8, <1>9 DEF SameCurr

\* The running task is put, with what it still has to be charged.
LEMMA PutGood ==
  ASSUME NEW v, NEW M, NEW X, NEW e, NEW B, NEW A, Good(v, M, X, e, B, A), NEW c \in Cpus,
         v.rq[c].curr # None
  PROVE  \E M2 \in [Cpus -> Int], X2 \in [Tasks -> Int] :
           LET r == put_prev_entity(v, c, v.rq[c].curr)
           IN  /\ Good(r, M2, X2, e, B, A) /\ Local(v, M, X, r, M2, X2, A, c, None)
               /\ r.rq[c].curr = None /\ r.rq[c].pc = v.rq[c].pc
  <1> DEFINE s  == v.rq[c].curr
             w  == IF v.se[s].on_rq THEN update_curr(v, c) ELSE v
             u  == put_prev_entity(w, c, w.rq[c].curr)
  <1>0. M \in [Cpus -> Int] /\ X \in [Tasks -> Int] /\ v \in VType /\ s \in Tasks
    BY Parts DEF Good, Typed, RqType
  <1>1. PICK M2 \in [Cpus -> Int], X2 \in [Tasks -> Int] :
          /\ Good(w, M2, X2, e, B, A) /\ Local(v, M, X, w, M2, X2, A, c, None)
    <2>1. CASE v.se[s].on_rq
      BY <2>1, UpdateCurrGood
    <2>2. CASE ~v.se[s].on_rq
      <3> DEFINE g == v.se[s].on_rq
      <3> HIDE DEF g
      <3>1. w = v
        BY <2>2
      <3> HIDE DEF w
      <3> QED BY <1>0, <3>1, SameGood
    <2> QED BY <2>1, <2>2
  <1>2. w.rq[c].curr = s /\ w.rq[c].pc = v.rq[c].pc /\ w.se[s].on_rq = v.se[s].on_rq /\ (v.se[s].on_rq => w.rq[c].delta = 0)
    <2>1. CASE v.se[s].on_rq
      BY <1>0, <2>1, UpdateCurrFacts, ZenonT(40) DEF Keeps, SameQueue, SameTask
    <2>2. CASE ~v.se[s].on_rq
      BY <2>2
    <2> QED BY <2>1, <2>2
  <1>3. put_prev_entity(v, c, s) = put_prev_entity(w, c, s)
    <2>1. CASE v.se[s].on_rq
      <3>1. w \in VType
        BY <1>1 DEF Good, Typed
      <3>2. update_curr(w, c) = w
        BY <1>0, <1>2, <2>1, <3>1, UpdateCurrCharges
      <3>3. w = update_curr(v, c)
        BY <2>1
      <3>4. put_prev_entity(v, c, s) = Unset(__enqueue_entity(update_curr(v, c), c, s), c)
        BY <2>1 DEF put_prev_entity, Unset
      <3>5. w.se[s].on_rq
        BY <1>2, <2>1
      <3> HIDE DEF w
      <3>6. put_prev_entity(w, c, s) = Unset(__enqueue_entity(update_curr(w, c), c, s), c)
        BY <3>5 DEF put_prev_entity, Unset
      <3> QED BY <3>2, <3>3, <3>4, <3>6
    <2>2. CASE ~v.se[s].on_rq
      BY <2>2
    <2> QED BY <2>1, <2>2
  <1> HIDE DEF w
  <1>4. Charges(w, c) /\ w.rq[c].curr # None
    BY <1>0, <1>2, NoneFacts DEF Charges
  <1>5. /\ Good(u, M2, X2, e, B, A) /\ u.se = w.se /\ \A d \in Cpus : d # c => u.rq[d] = w.rq[d]
        /\ u.rq[c].curr = None /\ u.rq[c].pc = w.rq[c].pc
    BY <1>1, <1>4, PutPrev
  <1>6. Local(v, M, X, u, M2, X2, A, c, None)
    BY <1>1, <1>5 DEF Local, SameTask
  <1>7. put_prev_entity(v, c, s) = u
    BY <1>2, <1>3
  <1> HIDE DEF u, s
  <1> QED BY <1>1, <1>2, <1>5, <1>6, <1>7 DEF s

-----------------------------------------------------------------------------
(***************************************************************************)
(* Changes of a task's state, weight and CPU.                              *)
(***************************************************************************)
LEMMA Relabel ==
  ASSUME NEW v, NEW M, NEW X, NEW e, NEW B, NEW A, Good(v, M, X, e, B, A),
         NEW s \in Tasks, NEW q \in SeType,
         q.vruntime = v.se[s].vruntime, q.on_rq = v.se[s].on_rq, q.cpu = v.se[s].cpu
  PROVE  LET r == WithSe(v, s, q)
         IN  /\ Good(r, M, X, e, B, A) /\ r.rq = v.rq /\ r.se[s] = q
             /\ \A t \in Tasks : t # s => r.se[t] = v.se[t]
             /\ \A c \in Cpus : Local(v, M, X, r, M, X, A, c, s)
  <1> DEFINE r == WithSe(v, s, q)
             c == q.cpu
  <1>1. v \in VType /\ M \in [Cpus -> Int] /\ X \in [Tasks -> Int] /\ A \subseteq Tasks /\ B \in 0 .. Reach
    BY DEF Good, Typed
  <1>2. r.rq = v.rq /\ r.se[s] = q /\ \A t \in Tasks : t # s => r.se[t] = v.se[t]
    BY <1>1, WithSeFacts
  <1>3. c \in Cpus /\ v.se[s].cpu = c
    BY DEF SeType
  <1>4. CpuOk(v, M, X, e, B, A, c) /\ TaskOk(v, M, X, e, B, A, c, s)
    BY <1>3 DEF Good, CpuOk
  <1>5. [X EXCEPT ![s] = X[s]] = X /\ X[s] \in Int
    BY <1>1
  <1>6. TaskOk(r, M, [X EXCEPT ![s] = X[s]], e, B, A, c, s)
    <2>1. Pend(r, c, s) = Pend(v, c, s)
      BY <1>2 DEF Pend
    <2> QED BY <1>2, <1>4, <1>5, <2>1 DEF TaskOk
  <1>7. v.rq[c].curr # s \/ s \in A \/ v.rq[c].delta = 0
    BY <1>4, NoneFacts DEF CpuOk, CurrOk
  <1>8. Good(r, M, [X EXCEPT ![s] = X[s]], e, B, A)
    <2>1. /\ q.cpu = v.se[s].cpu /\ B <= B /\ A \in SUBSET Tasks /\ A \ {s} = A \ {s}
          /\ TaskOk(WithSe(v, s, q), M, [X EXCEPT ![s] = X[s]], e, B, A, q.cpu, s)
      BY <1>1, <1>3, <1>6
    <2> QED BY <1>1, <1>5, <1>7, <2>1, Retask
  <1>9. \A d \in Cpus : M[d] <= M[d]
    BY <1>1
  <1> QED BY <1>2, <1>5, <1>8, <1>9 DEF Local, SameTask

\* A task's state changes.
LEMMA Restate ==
  ASSUME NEW v, NEW M, NEW X, NEW e, NEW B, NEW A, Good(v, M, X, e, B, A),
         NEW s \in Tasks, NEW state \in States
  PROVE  LET r == State(v, s, state)
         IN  /\ Good(r, M, X, e, B, A) /\ r.rq = v.rq /\ r.se[s].state = state
             /\ r.se[s].cpu = v.se[s].cpu /\ r.se[s].on_rq = v.se[s].on_rq /\ r.se[s].weight = v.se[s].weight
             /\ \A t \in Tasks : t # s => r.se[t] = v.se[t]
             /\ \A c \in Cpus : Local(v, M, X, r, M, X, A, c, s)
  <1> DEFINE q == [v.se[s] EXCEPT !.state = state]
  <1>1. v \in VType
    BY DEF Good, Typed
  <1>2. v.se[s] \in SeType
    BY <1>1, Parts
  <1>3. /\ q \in SeType /\ q.vruntime = v.se[s].vruntime /\ q.on_rq = v.se[s].on_rq /\ q.cpu = v.se[s].cpu
        /\ q.weight = v.se[s].weight /\ q.state = state
    BY <1>2 DEF SeType
  <1>4. State(v, s, state) = WithSe(v, s, q)
    BY <1>1 DEF State, WithSe, VType
  <1> HIDE DEF q
  <1> QED BY <1>3, <1>4, Relabel

\* A task's weight changes while it is off the run queue.
Reweighed(v, s, w) == [v EXCEPT !.se[s].weight = w]

\* The weight of a task is no part of the order.
LEMMA Reweigh ==
  ASSUME NEW v, NEW M, NEW X, NEW e, NEW B, NEW A, Good(v, M, X, e, B, A),
         NEW s \in Tasks, NEW w \in Weights
  PROVE  LET r == Reweighed(v, s, w)
         IN  /\ Good(r, M, X, e, B, A) /\ r.rq = v.rq
             /\ r.se[s].state = v.se[s].state /\ r.se[s].cpu = v.se[s].cpu /\ r.se[s].on_rq = v.se[s].on_rq
             /\ \A t \in Tasks : t # s => r.se[t] = v.se[t]
             /\ \A c \in Cpus : Local(v, M, X, r, M, X, A, c, s)
  <1> DEFINE q == [v.se[s] EXCEPT !.weight = w]
  <1>1. v \in VType
    BY DEF Good, Typed
  <1>2. v.se[s] \in SeType
    BY <1>1, Parts
  <1>3. /\ q \in SeType /\ q.vruntime = v.se[s].vruntime /\ q.on_rq = v.se[s].on_rq /\ q.cpu = v.se[s].cpu
        /\ q.state = v.se[s].state
    BY <1>2 DEF SeType
  <1>4. Reweighed(v, s, w) = WithSe(v, s, q)
    BY <1>1 DEF Reweighed, WithSe, VType
  <1> HIDE DEF q
  <1> QED BY <1>3, <1>4, Relabel

\* A task that is nowhere goes to another CPU.
Relocated(v, s, c) == [v EXCEPT !.se[s].cpu = c]

\* A task whose vruntime is relative may be said to be on any CPU.
LEMMA Relocate ==
  ASSUME NEW v, NEW M, NEW X, NEW e, NEW B, NEW A, Good(v, M, X, e, B, A),
         NEW s \in Tasks \ A, ~v.se[s].on_rq, \A d \in Cpus : v.rq[d].curr # s, NEW c \in Cpus
  PROVE  LET r == Relocated(v, s, c)
         IN  /\ Good(r, M, X, e, B, A) /\ r.rq = v.rq /\ r.se[s].cpu = c
             /\ r.se[s].state = v.se[s].state /\ r.se[s].on_rq = v.se[s].on_rq
             /\ \A t \in Tasks : t # s => r.se[t] = v.se[t]
             /\ \A d \in Cpus : Local(v, M, X, r, M, X, A, d, s)
  <1> DEFINE q == [v.se[s] EXCEPT !.cpu = c]
             r == WithSe(v, s, q)
  <1>1. Typed(v, M, X, e, B, A) /\ v \in VType /\ M \in [Cpus -> Int] /\ v.se[s] \in SeType
    BY Parts DEF Good, Typed
  <1>2. /\ q \in SeType /\ q.vruntime = v.se[s].vruntime /\ q.on_rq = v.se[s].on_rq /\ q.cpu = c
        /\ q.state = v.se[s].state
    BY <1>1 DEF SeType
  <1>3. Relocated(v, s, c) = r
    BY <1>1 DEF Relocated, WithSe, VType
  <1> HIDE DEF q
  <1>4. r \in VType /\ r.rq = v.rq /\ r.se[s] = q /\ \A t \in Tasks : t # s => r.se[t] = v.se[t]
    BY <1>1, <1>2, WithSeFacts
  <1> HIDE DEF r
  <1>5. \A d \in Cpus : OnRq(r, d) = OnRq(v, d)
    BY <1>2, <1>4 DEF OnRq
  <1>6. ASSUME NEW d \in Cpus PROVE CpuOk(r, M, X, e, B, A, d)
    <2>1. CpuOk(v, M, X, e, B, A, d)
      BY DEF Good
    <2>2. MinOk(r, M, B, d) /\ Queue(r, d) /\ Buddy(r, d) /\ Sorted(r.rq[d].timeline, X)
      BY <1>4, <1>5, <2>1 DEF CpuOk, MinOk, Queue, Buddy
    <2>3. CurrOk(r, e, A, d)
      <3>1. v.rq[d].curr \in Tasks \cup {None} /\ v.rq[d].curr # s
        BY <1>1, Parts DEF RqType
      <3> QED BY <1>4, <2>1, <3>1 DEF CpuOk, CurrOk
    <2>4. ASSUME NEW t \in Tasks, r.se[t].cpu = d PROVE TaskOk(r, M, X, e, B, A, d, t)
      <3>1. CASE t # s
        <4>1. TaskOk(v, M, X, e, B, A, d, t) /\ r.se[t] = v.se[t]
          BY <1>4, <2>1, <2>4, <3>1 DEF CpuOk
        <4>2. Pend(r, d, t) = Pend(v, d, t)
          BY <1>4 DEF Pend
        <4> QED BY <4>1, <4>2 DEF TaskOk
      <3>2. CASE t = s
        <4>1. v.se[s].vruntime = X[s] % VMod
          <5>1. v.se[s].cpu \in Cpus
            BY <1>1 DEF SeType
          <5> QED BY <5>1 DEF Good, CpuOk, TaskOk
        <4> QED BY <1>2, <1>4, <3>2, <4>1 DEF TaskOk
      <3> QED BY <3>1, <3>2
    <2> QED BY <2>2, <2>3, <2>4 DEF CpuOk
  <1>7. Good(r, M, X, e, B, A)
    BY <1>1, <1>4, <1>6 DEF Good, Typed
  <1>8. \A d \in Cpus : M[d] <= M[d]
    BY <1>1
  <1> QED BY <1>2, <1>3, <1>4, <1>7, <1>8 DEF Local, SameTask

-----------------------------------------------------------------------------
(***************************************************************************)
(* The inductive invariant.  A vruntime is absolute while its task is      *)
(* queued or sleeps, and relative to the min_vruntime that it left         *)
(* otherwise.  Every time a task arrives at a run queue its min_vruntime   *)
(* may get ahead by as much as the task is: by Horizon, and by as much as  *)
(* all arrivals together over all.                                         *)
(***************************************************************************)
Timed(v) == {s \in Tasks : v.se[s].state \in {"runnable", "sleeping"}}
Born(v)  == {s \in Tasks : v.se[s].state # "unborn"}

Arrivals(v, m) == 1 + m + Cardinality(Timed(v)) + Cardinality(Born(v))
Bound(v, e, m) == Horizon(e) * Arrivals(v, m)

\* What a task's state says of it.
TaskFits(v, X, e, B, s) ==
  LET state == v.se[s].state
  IN  /\ v.se[s].on_rq <=> state = "runnable"
      /\ state \in {"unborn", "new", "migrating"} => -thresh <= X[s] /\ X[s] <= Horizon(e)
      /\ state = "waking" => -thresh - B <= X[s] /\ X[s] <= Horizon(e)

\* Only in idle_balance a CPU has a current task that sleeps.
CurrFits(v, c) ==
  LET k == v.rq[c].curr
  IN  k # None => v.se[k].on_rq \/ (v.se[k].state = "sleeping" /\ v.rq[c].pc = "newidle")

Sound(v, M, X, e, m) ==
  /\ m \in 0 .. MaxMoves /\ Good(v, M, X, e, Bound(v, e, m), Timed(v))
  /\ \A s \in Tasks : TaskFits(v, X, e, Bound(v, e, m), s)
  /\ \A c \in Cpus : CurrFits(v, c)

IInv == \E M \in [Cpus -> Int], X \in [Tasks -> Int] : Sound(Now, M, X, elapsed, moves)

\* The number of arrivals is bounded.
LEMMA ArrivalsFacts ==
  ASSUME NEW v, NEW m \in 0 .. MaxMoves
  PROVE  /\ Arrivals(v, m) \in 1 .. 1 + MaxMoves + 2 * Cardinality(Tasks)
         /\ IsFiniteSet(Timed(v)) /\ IsFiniteSet(Born(v))
         /\ Cardinality(Timed(v)) \in Nat /\ Cardinality(Born(v)) \in Nat
  <1>1. IsFiniteSet(Tasks) /\ MaxMoves \in Nat
    BY CfsRqAssumption
  <1>2. Timed(v) \in SUBSET Tasks /\ Born(v) \in SUBSET Tasks
    BY DEF Timed, Born
  <1>3. /\ IsFiniteSet(Timed(v)) /\ Cardinality(Timed(v)) <= Cardinality(Tasks)
        /\ IsFiniteSet(Born(v)) /\ Cardinality(Born(v)) <= Cardinality(Tasks)
    BY <1>1, <1>2, FS_Subset
  <1>4. Cardinality(Tasks) \in Nat /\ Cardinality(Timed(v)) \in Nat /\ Cardinality(Born(v)) \in Nat
    BY <1>1, <1>3, FS_CardinalityType
  <1> QED BY <1>1, <1>3, <1>4 DEF Arrivals

\* The reach of a state is within that of the model, and grows with time and arrivals.
LEMMA BoundFacts ==
  ASSUME NEW v, NEW m \in 0 .. MaxMoves, NEW e \in 0 .. MaxTime
  PROVE  /\ Bound(v, e, m) \in 0 .. Reach /\ Horizon(e) <= Bound(v, e, m)
         /\ e < MaxTime => Bound(v, e, m) + NICE_0_LOAD <= Bound(v, e + 1, m)
  <1> DEFINE h == Horizon(e)
             a == Arrivals(v, m)
             H == Horizon(MaxTime)
             n == 1 + MaxMoves + 2 * Cardinality(Tasks)
  <1>1. a \in 1 .. n /\ n \in Nat
    BY ArrivalsFacts, HorizonFacts, CfsRqAssumption
  <1>2. h \in Nat /\ H \in Nat /\ h <= H /\ Horizon(e + 1) = h + NICE_0_LOAD /\ NICE_0_LOAD \in Nat
    BY HorizonFacts, CfsRqAssumption, SliceAssumption
  <1>3. Reach = H * n /\ Bound(v, e, m) = h * a /\ Bound(v, e + 1, m) = Horizon(e + 1) * a
    BY DEF Reach, Bound
  <1> HIDE DEF h, a, H, n
  <1>4. h * a \in Nat /\ h * n \in Nat /\ H * n \in Nat /\ h * a <= h * n /\ h * n <= H * n /\ h <= h * a
    <2>1. h * a \in Nat /\ h * n \in Nat /\ H * n \in Nat
      BY <1>1, <1>2
    <2>2. h * n = h * a + h * (n - a) /\ h * (n - a) \in Nat
      BY <1>1, <1>2
    <2>3. H * n = h * n + (H - h) * n /\ (H - h) * n \in Nat
      BY <1>1, <1>2
    <2>4. h * a = h + h * (a - 1) /\ h * (a - 1) \in Nat
      BY <1>1, <1>2
    <2> QED BY <1>2, <2>1, <2>2, <2>3, <2>4
  <1>5. (h + NICE_0_LOAD) * a = h * a + NICE_0_LOAD + NICE_0_LOAD * (a - 1) /\ NICE_0_LOAD * (a - 1) \in Nat
    BY <1>1, <1>2
  <1> QED BY <1>1, <1>2, <1>3, <1>4, <1>5 DEF h

\* States that fit together but for the states and weights of tasks.
LEMMA ArrivalGrowth ==
  ASSUME NEW v, NEW m \in 0 .. MaxMoves, NEW w, NEW k \in 0 .. MaxMoves, NEW e \in 0 .. MaxTime
  PROVE  /\ Arrivals(w, k) = Arrivals(v, m) => Bound(w, e, k) = Bound(v, e, m)
         /\ Arrivals(w, k) = Arrivals(v, m) + 1 => Bound(w, e, k) = Bound(v, e, m) + Horizon(e)
  <1> DEFINE h == Horizon(e)
             a == Arrivals(v, m)
             b == Arrivals(w, k)
  <1>1. a \in Nat /\ b \in Nat
    BY ArrivalsFacts, HorizonFacts, CfsRqAssumption
  <1>2. h \in Nat
    BY HorizonFacts, CfsRqAssumption
  <1> HIDE DEF h, a, b
  <1>3. b = a + 1 => h * b = h * a + h
    BY <1>1, <1>2
  <1> QED BY <1>3 DEF Bound, h, a, b

\* Who is timed and who is born after a step about s alone.
LEMMA TimedFacts ==
  ASSUME NEW v, NEW r, NEW s \in Tasks, \A t \in Tasks \ {s} : r.se[t].state = v.se[t].state,
         NEW m \in 0 .. MaxMoves
  PROVE  /\ Timed(r) = IF r.se[s].state \in {"runnable", "sleeping"} THEN Timed(v) \cup {s} ELSE Timed(v) \ {s}
         /\ r.se[s].state \in {"runnable", "sleeping"} <=> s \in Timed(r)
         /\ v.se[s].state \in {"runnable", "sleeping"} <=> s \in Timed(v)
         /\ (r.se[s].state = "unborn" <=> v.se[s].state = "unborn") =>
              /\ (s \in Timed(r) <=> s \in Timed(v)) => Arrivals(r, m) = Arrivals(v, m)
              /\ s \in Timed(r) /\ s \notin Timed(v) => Arrivals(r, m) = Arrivals(v, m) + 1
              /\ s \notin Timed(r) /\ s \in Timed(v) => Arrivals(r, m) = Arrivals(v, m) - 1
         /\ r.se[s].state # "unborn" /\ v.se[s].state = "unborn" /\ (s \in Timed(r) <=> s \in Timed(v))
              => Arrivals(r, m) = Arrivals(v, m) + 1
  <1> DEFINE tr == r.se[s].state \in {"runnable", "sleeping"}
             tv == v.se[s].state \in {"runnable", "sleeping"}
             br == r.se[s].state # "unborn"
             bv == v.se[s].state # "unborn"
  <1>1. Timed(r) = IF tr THEN Timed(v) \cup {s} ELSE Timed(v) \ {s}
    BY DEF Timed
  <1>2. Born(r) = IF br THEN Born(v) \cup {s} ELSE Born(v) \ {s}
    BY DEF Born
  <1>3. (tv <=> s \in Timed(v)) /\ (bv <=> s \in Born(v))
    BY DEF Timed, Born
  <1>4. /\ IsFiniteSet(Timed(v)) /\ IsFiniteSet(Born(v))
        /\ Cardinality(Timed(v)) \in Nat /\ Cardinality(Born(v)) \in Nat
    BY ArrivalsFacts
  <1>5. /\ Cardinality(Timed(v) \cup {s}) = IF s \in Timed(v) THEN Cardinality(Timed(v)) ELSE Cardinality(Timed(v)) + 1
        /\ Cardinality(Born(v) \cup {s}) = IF s \in Born(v) THEN Cardinality(Born(v)) ELSE Cardinality(Born(v)) + 1
    BY <1>4, FS_AddElement
  <1>6. /\ Cardinality(Timed(v) \ {s}) = IF s \in Timed(v) THEN Cardinality(Timed(v)) - 1 ELSE Cardinality(Timed(v))
        /\ Cardinality(Born(v) \ {s}) = IF s \in Born(v) THEN Cardinality(Born(v)) - 1 ELSE Cardinality(Born(v))
    BY <1>4, FS_RemoveElement
  <1> HIDE DEF tr, tv, br, bv
  <1>7. Cardinality(Timed(r)) = Cardinality(Timed(v)) + (IF tr THEN 1 ELSE 0) - (IF tv THEN 1 ELSE 0)
    BY <1>1, <1>3, <1>4, <1>5, <1>6
  <1>8. Cardinality(Born(r)) = Cardinality(Born(v)) + (IF br THEN 1 ELSE 0) - (IF bv THEN 1 ELSE 0)
    BY <1>2, <1>3, <1>4, <1>5, <1>6
  <1>9. /\ (br <=> bv) /\ (tr <=> tv) => Arrivals(r, m) = Arrivals(v, m)
        /\ (br <=> bv) /\ tr /\ ~tv => Arrivals(r, m) = Arrivals(v, m) + 1
        /\ (br <=> bv) /\ ~tr /\ tv => Arrivals(r, m) = Arrivals(v, m) - 1
        /\ br /\ ~bv /\ (tr <=> tv) => Arrivals(r, m) = Arrivals(v, m) + 1
    BY <1>4, <1>7, <1>8 DEF Arrivals
  <1>10. tr <=> s \in Timed(r)
    BY <1>1
  <1>11. (tv <=> s \in Timed(v)) /\ (br <=> r.se[s].state # "unborn") /\ (bv <=> v.se[s].state # "unborn")
    BY <1>3 DEF br, bv
  <1>12. (tr <=> r.se[s].state \in {"runnable", "sleeping"}) /\ (tv <=> v.se[s].state \in {"runnable", "sleeping"})
    BY DEF tr, tv
  <1> QED BY <1>1, <1>9, <1>10, <1>11, <1>12

\* A step on CPU c, about task s if s is one: no other CPU's run queue changes and no other
\* task's place.
Others(v, r, c, s) == /\ \A d \in Cpus \ {c} : r.rq[d] = v.rq[d] /\ (s \in Tasks => v.rq[d].curr # s)
                      /\ \A t \in Tasks \ {s} : SameTask(v, r, t)

\* c turns to a task that is not too far ahead of who waits, or to none; s may leave then.
\* A task that c still has as its current task but that sleeps is not queued.
Turn(v, r, c, s) ==
  \/ /\ r.rq[c].curr = v.rq[c].curr
     /\ s \in Tasks /\ s = v.rq[c].curr /\ r.se[s].on_rq => v.se[s].on_rq
  \/ /\ s = None \/ (s = v.rq[c].curr /\ v.se[s].on_rq)
     /\ \/ r.rq[c].curr = None
        \/ r.rq[c].timeline # <<>>
             => wakeup_preempt_entity(r, r.rq[c].curr, Head(r.rq[c].timeline)) < 1

\* What every step of the run queues does to a sound state.
Effect(v, M, r, e, m) ==
  \E M2 \in [Cpus -> Int], X2 \in [Tasks -> Int] :
    /\ Sound(r, M2, X2, e, m) /\ \A d \in Cpus : M[d] <= M2[d]
    /\ \E c \in Cpus, s \in Tasks \cup {None} : Others(v, r, c, s) /\ Turn(v, r, c, s)

\* A step on one CPU, about one task at most, from a sound state to a state that is in order and
\* in which that task and that CPU fit: the state is sound, and the step has its effect.
LEMMA Stepped ==
  ASSUME NEW v, NEW M, NEW X, NEW e, NEW m, Sound(v, M, X, e, m),
         NEW c \in Cpus, NEW s \in Tasks \cup {None}, NEW r,
         NEW M2 \in [Cpus -> Int], NEW X2 \in [Tasks -> Int],
         NEW e2 \in 0 .. MaxTime, NEW m2 \in 0 .. MaxMoves, e <= e2,
         Bound(v, e, m) <= Bound(r, e2, m2),
         Good(r, M2, X2, e2, Bound(r, e2, m2), Timed(r)),
         Local(v, M, X, r, M2, X2, Timed(v), c, s),
         s \in Tasks => \A d \in Cpus \ {c} : v.rq[d].curr # s,
         s \in Tasks => TaskFits(r, X2, e2, Bound(r, e2, m2), s),
         CurrFits(r, c), Turn(v, r, c, s)
  PROVE  Effect(v, M, r, e2, m2)
  <1> DEFINE B  == Bound(v, e, m)
             B2 == Bound(r, e2, m2)
  <1>1. /\ e \in 0 .. MaxTime /\ B \in 0 .. Reach /\ X \in [Tasks -> Int] /\ v \in VType
        /\ \A t \in Tasks : TaskFits(v, X, e, B, t)
        /\ \A d \in Cpus : CurrFits(v, d)
    BY DEF Sound, Good, Typed
  <1>2. B2 \in 0 .. Reach /\ thresh \in Nat
    BY NoneFacts DEF Good, Typed
  <1>3. Horizon(e) <= Horizon(e2) /\ Horizon(e) \in Nat /\ Horizon(e2) \in Nat
    <2>1. e \in 0 .. MaxTime /\ e2 \in 0 .. MaxTime /\ e \in Nat /\ e2 \in Nat
      BY <1>1, CfsRqAssumption
    <2> QED BY <2>1, HorizonFacts
  <1>4. \A t \in Tasks \ {s} : SameTask(v, r, t) /\ (t \notin Timed(v) => X2[t] = X[t])
    BY DEF Local
  <1> HIDE DEF B, B2
  <1>5. ASSUME NEW t \in Tasks PROVE TaskFits(r, X2, e2, B2, t)
    <2>1. CASE t = s
      BY <2>1 DEF B2
    <2>2. CASE t # s
      <3>1. SameTask(v, r, t) /\ TaskFits(v, X, e, B, t)
        BY <1>1, <1>4, <2>2
      <3>2. v.se[t].state \in {"unborn", "new", "migrating", "waking"} => X2[t] = X[t]
        <4>1. v.se[t].state \in {"unborn", "new", "migrating", "waking"} => t \notin Timed(v)
          BY DEF Timed
        <4> QED BY <1>4, <2>2, <4>1
      <3>3. B <= B2 /\ B \in Int /\ B2 \in Int
        BY <1>1, <1>2 DEF B, B2
      <3>4. X[t] \in Int /\ X2[t] \in Int
        BY <1>1
      <3>5. r.se[t].state = v.se[t].state /\ (r.se[t].on_rq <=> v.se[t].state = "runnable")
        BY <3>1 DEF SameTask, TaskFits
      <3> QED BY <1>2, <1>3, <3>1, <3>2, <3>3, <3>4, <3>5 DEF TaskFits
    <2> QED BY <2>1, <2>2
  <1>6. ASSUME NEW d \in Cpus PROVE CurrFits(r, d)
    <2>1. CASE d # c
      <3>1. r.rq[d] = v.rq[d] /\ CurrFits(v, d) /\ (s \in Tasks => v.rq[d].curr # s)
        BY <1>1, <2>1 DEF Local
      <3>2. v.rq[d].curr \in Tasks \cup {None}
        BY <1>1, Parts DEF RqType
      <3>3. v.rq[d].curr # None => SameTask(v, r, v.rq[d].curr)
        BY <1>4, <3>1, <3>2
      <3> QED BY <3>1, <3>3 DEF CurrFits, SameTask
    <2> QED BY <2>1
  <1>7. Sound(r, M2, X2, e2, m2)
    BY <1>5, <1>6 DEF Sound, B2
  <1>8. \A d \in Cpus : M[d] <= M2[d]
    BY DEF Local
  <1>9. Others(v, r, c, s)
    BY DEF Others, Local
  <1> QED BY <1>7, <1>8, <1>9 DEF Effect

\* The same of a step that is about no task.
LEMMA SteppedTogether ==
  ASSUME NEW v, NEW M, NEW X, NEW e, NEW m, Sound(v, M, X, e, m),
         NEW c \in Cpus, NEW r,
         NEW M2 \in [Cpus -> Int], NEW X2 \in [Tasks -> Int],
         Good(r, M2, X2, e, Bound(v, e, m), Timed(v)),
         Local(v, M, X, r, M2, X2, Timed(v), c, None),
         CurrFits(r, c), Turn(v, r, c, None)
  PROVE  Effect(v, M, r, e, m)
  <1>1. \A t \in Tasks : r.se[t].state = v.se[t].state
    BY NoneFacts DEF Local, SameTask
  <1>2. Timed(r) = Timed(v) /\ Born(r) = Born(v)
    BY <1>1 DEF Timed, Born
  <1>3. Bound(r, e, m) = Bound(v, e, m)
    BY <1>2 DEF Bound, Arrivals
  <1>4. e \in 0 .. MaxTime /\ m \in 0 .. MaxMoves /\ Bound(v, e, m) \in 0 .. Reach
    BY DEF Sound, Good, Typed
  <1>5. e <= e /\ Bound(v, e, m) <= Bound(r, e, m)
    BY <1>3, <1>4
  <1>6. None \notin Tasks
    BY NoneFacts
  <1> QED BY <1>2, <1>3, <1>4, <1>5, <1>6, Stepped

\* curr stays what it was.
LEMMA CurrKept ==
  ASSUME NEW v, NEW r, NEW c \in Cpus, NEW A, NEW M, NEW X, NEW M2, NEW X2, CurrFits(v, c), v \in VType,
         Local(v, M, X, r, M2, X2, A, c, None), SameCurr(v, r, c)
  PROVE  CurrFits(r, c) /\ \A s : Turn(v, r, c, s)
  <1>1. v.rq[c].curr \in Tasks \cup {None}
    BY Parts DEF RqType
  <1>2. v.rq[c].curr # None => SameTask(v, r, v.rq[c].curr)
    BY <1>1, NoneFacts DEF Local
  <1> QED BY <1>2 DEF CurrFits, Turn, SameCurr, SameTask

\* What a sound state says, part by part.
LEMMA SoundFacts ==
  ASSUME NEW v, NEW M, NEW X, NEW e, NEW m, Sound(v, M, X, e, m)
  PROVE  /\ Good(v, M, X, e, Bound(v, e, m), Timed(v)) /\ v \in VType
         /\ M \in [Cpus -> Int] /\ X \in [Tasks -> Int]
         /\ e \in 0 .. MaxTime /\ m \in 0 .. MaxMoves /\ Bound(v, e, m) \in 0 .. Reach
         /\ \A c \in Cpus : CurrFits(v, c)
         /\ \A s \in Tasks : TaskFits(v, X, e, Bound(v, e, m), s)
         /\ \A c \in Cpus : v.rq[c] \in RqType
         /\ \A s \in Tasks : v.se[s] \in SeType
         /\ \A c \in Cpus : v.rq[c].curr # None => /\ v.rq[c].curr \in Tasks
                                                  /\ v.se[v.rq[c].curr].cpu = c
                                                  /\ v.rq[c].curr \in Timed(v)
  <1>1. Good(v, M, X, e, Bound(v, e, m), Timed(v)) /\ v \in VType
    BY DEF Sound, Good, Typed
  <1>2. ASSUME NEW c \in Cpus, v.rq[c].curr # None
        PROVE  /\ v.rq[c].curr \in Tasks /\ v.se[v.rq[c].curr].cpu = c /\ v.rq[c].curr \in Timed(v)
    <2> DEFINE k == v.rq[c].curr
    <2>1. k \in Tasks /\ v.se[k].cpu = c
      BY <1>1, <1>2, Parts DEF RqType, Good, CpuOk, CurrOk
    <2>2. v.se[k].state \in {"runnable", "sleeping"}
      BY <1>2, <2>1 DEF Sound, CurrFits, TaskFits
    <2> QED BY <2>1, <2>2 DEF Timed
  <1>3. /\ \A c \in Cpus : v.rq[c] \in RqType
        /\ \A s \in Tasks : v.se[s] \in SeType
    BY <1>1, Parts
  <1> QED BY <1>1, <1>2, <1>3 DEF Sound, Good, Typed

-----------------------------------------------------------------------------
(***************************************************************************)
(* Steps that are about no task.                                           *)
(***************************************************************************)
Elapsed(v, c) == [v EXCEPT !.rq[c].delta = v.rq[c].delta + 1]

\* Time passes: curr gets further ahead than its vruntime says.
LEMMA ElapseEffect ==
  ASSUME NEW v, NEW M, NEW X, NEW e, NEW m, Sound(v, M, X, e, m),
         NEW c \in Cpus, e < MaxTime, v.rq[c].curr # None
  PROVE  Effect(v, M, Elapsed(v, c), e + 1, m)
  <1> DEFINE q  == [v.rq[c] EXCEPT !.delta = v.rq[c].delta + 1]
             r  == Elapsed(v, c)
             k  == v.rq[c].curr
             B  == Bound(v, e, m)
             B2 == Bound(r, e + 1, m)
             A  == Timed(v)
  <1>1. /\ Good(v, M, X, e, B, A) /\ v \in VType /\ M \in [Cpus -> Int] /\ X \in [Tasks -> Int]
        /\ e \in 0 .. MaxTime /\ m \in 0 .. MaxMoves /\ B \in 0 .. Reach
        /\ CurrFits(v, c) /\ v.rq[c] \in RqType
        /\ k \in Tasks /\ v.se[k].cpu = c /\ k \in A
    BY SoundFacts
  <1>2. CpuOk(v, M, X, e, B, A, c)
    BY <1>1 DEF Good
  <1>3. v.rq[c].delta \in 0 .. e /\ e + 1 \in 0 .. MaxTime /\ e \in Nat /\ MaxTime \in Nat
    BY <1>1, <1>2, CfsRqAssumption DEF CpuOk, CurrOk, RqType
  <1>4. /\ q \in RqType /\ q.delta = v.rq[c].delta + 1 /\ q.curr = k /\ q.pc = v.rq[c].pc
        /\ q.min_vruntime = v.rq[c].min_vruntime /\ q.timeline = v.rq[c].timeline
        /\ q.last = v.rq[c].last /\ q.next = v.rq[c].next /\ q.skip = v.rq[c].skip
    <2>1. v.rq[c].delta + 1 \in 0 .. MaxTime
      BY <1>3
    <2> QED BY <1>1, <2>1 DEF RqType
  <1>5. r = WithRq(v, c, q)
    BY <1>1 DEF Elapsed, WithRq, VType
  <1> HIDE DEF q, r
  <1>6. r \in VType /\ r.se = v.se /\ r.rq[c] = q /\ \A d \in Cpus : d # c => r.rq[d] = v.rq[d]
    BY <1>1, <1>4, <1>5, WithRqFacts
  <1>7. Timed(r) = A /\ Born(r) = Born(v)
    BY <1>6 DEF Timed, Born
  <1>8. B + NICE_0_LOAD <= B2 /\ B2 \in 0 .. Reach /\ B <= B2 /\ NICE_0_LOAD \in Nat
    <2>1. Bound(r, e + 1, m) = Bound(v, e + 1, m)
      BY <1>7 DEF Bound, Arrivals
    <2>2. Bound(v, e, m) + NICE_0_LOAD <= Bound(v, e + 1, m)
      BY <1>1, BoundFacts
    <2>3. Bound(r, e + 1, m) \in 0 .. Reach
      BY <1>1, <1>3, BoundFacts
    <2>4. NICE_0_LOAD \in Nat
      BY SliceAssumption
    <2> QED BY <1>1, <2>1, <2>2, <2>3, <2>4
  <1> HIDE DEF B, B2
  <1>9. Typed(r, M, X, e + 1, B2, A)
    BY <1>1, <1>3, <1>6, <1>8 DEF Typed, Timed
  <1>10. OnRq(r, c) = OnRq(v, c)
    BY <1>6 DEF OnRq
  <1>11. CpuOk(r, M, X, e + 1, B2, A, c)
    <2>0. /\ M[c] \in Int /\ InitMin[c] \in Int /\ X[k] \in Int /\ B \in Int /\ B2 \in Int
          /\ Horizon(e + 1) = Horizon(e) + NICE_0_LOAD /\ Horizon(e) \in Nat
          /\ NICE_0_LOAD * v.rq[c].delta \in Nat
          /\ NICE_0_LOAD * (v.rq[c].delta + 1) = NICE_0_LOAD * v.rq[c].delta + NICE_0_LOAD
      <3>1. InitMin[c] \in Int
        BY CfsRqAssumption
      <3>2. v.rq[c].delta \in 0 .. MaxTime /\ v.rq[c].delta <= e
        BY <1>3
      <3>3. Horizon(e + 1) = Horizon(e) + NICE_0_LOAD /\ Horizon(e) \in Nat
        BY <1>3, HorizonFacts
      <3>4. /\ NICE_0_LOAD * v.rq[c].delta \in Nat
            /\ NICE_0_LOAD * (v.rq[c].delta + 1) = NICE_0_LOAD * v.rq[c].delta + NICE_0_LOAD
        BY <1>1, <3>2, HorizonFacts
      <3>5. M[c] \in Int /\ X[k] \in Int /\ B \in Int /\ B2 \in Int
        BY <1>1, <1>8
      <3> QED BY <3>1, <3>3, <3>4, <3>5
    <2>1. MinOk(r, M, B2, c)
      BY <1>2, <1>4, <1>6, <1>8, <2>0 DEF CpuOk, MinOk
    <2>2. CurrOk(r, e + 1, A, c)
      BY <1>1, <1>3, <1>4, <1>6 DEF CurrOk
    <2>3. Queue(r, c) /\ Buddy(r, c) /\ Sorted(r.rq[c].timeline, X)
      BY <1>2, <1>4, <1>6, <1>10 DEF CpuOk, Queue, Buddy
    <2>4. ASSUME NEW t \in Tasks, r.se[t].cpu = c PROVE TaskOk(r, M, X, e + 1, B2, A, c, t)
      <3>1. TaskOk(v, M, X, e, B, A, c, t) /\ r.se[t] = v.se[t] /\ X[t] \in Int
        BY <1>1, <1>2, <1>6, <2>4 DEF CpuOk
      <3>2. Pend(r, c, t) = IF t = k THEN Pend(v, c, t) + NICE_0_LOAD ELSE Pend(v, c, t)
        BY <1>4, <1>6, <2>0 DEF Pend
      <3>3. Pend(v, c, t) \in Nat
        BY <2>0 DEF Pend
      <3>4. t \in A => /\ X[t] + Pend(r, c, t) <= M[c] + Horizon(e + 1)
                       /\ X[t] + Pend(r, c, t) <= InitMin[c] + B2
        BY <1>8, <2>0, <3>1, <3>2, <3>3 DEF TaskOk
      <3> QED BY <3>1, <3>4 DEF TaskOk
    <2> QED BY <2>1, <2>2, <2>3, <2>4 DEF CpuOk
  <1>12. ASSUME NEW d \in Cpus, d # c PROVE CpuOk(r, M, X, e + 1, B2, A, d)
    BY <1>1, <1>3, <1>6, <1>8, <1>9, <1>12, Elsewhere
  <1>13. Good(r, M, X, e + 1, B2, A)
    BY <1>9, <1>11, <1>12 DEF Good
  <1>14. Local(v, M, X, r, M, X, A, c, None)
    <2>1. \A d \in Cpus : M[d] <= M[d]
      BY <1>1
    <2> QED BY <1>6, <2>1 DEF Local, SameTask
  <1>15. CurrFits(r, c) /\ Turn(v, r, c, None)
    BY <1>1, <1>4, <1>6 DEF CurrFits, Turn
  <1>16. None \notin Tasks /\ e <= e + 1 /\ e + 1 \in 0 .. MaxTime
    BY <1>3, NoneFacts
  <1> QED BY <1>1, <1>7, <1>8, <1>13, <1>14, <1>15, <1>16, Stepped DEF B, B2, r

\* entity_tick
TickedOver(v, c) ==
  LET w == update_curr(v, c)
  IN  IF nr_running(w, c) > 1 THEN check_preempt_tick(w, c, v.rq[c].curr) ELSE w

\* entity_tick.
LEMMA TickEffect ==
  ASSUME NEW v, NEW M, NEW X, NEW e, NEW m, Sound(v, M, X, e, m), NEW c \in Cpus, v.rq[c].curr # None
  PROVE  Effect(v, M, TickedOver(v, c), e, m)
  <1> DEFINE B == Bound(v, e, m)
             A == Timed(v)
             w == update_curr(v, c)
             k == check_preempt_tick(w, c, v.rq[c].curr)
             r == TickedOver(v, c)
  <1>1. /\ Good(v, M, X, e, B, A) /\ v \in VType /\ M \in [Cpus -> Int] /\ X \in [Tasks -> Int]
        /\ CurrFits(v, c) /\ v.rq[c].curr \in Tasks
    BY SoundFacts
  <1>2. PICK M2 \in [Cpus -> Int], X2 \in [Tasks -> Int] :
          Good(w, M2, X2, e, B, A) /\ Local(v, M, X, w, M2, X2, A, c, None)
    BY <1>1, UpdateCurrGood
  <1>3. SameCurr(v, w, c)
    BY <1>1, UpdateCurrFacts DEF SameQueue, SameCurr
  <1>4. r = k \/ r = w
    BY DEF TickedOver
  <1> HIDE DEF w, r
  <1>5. Good(k, M2, X2, e, B, A) /\ Local(w, M2, X2, k, M2, X2, A, c, None) /\ SameCurr(w, k, c)
    BY <1>1, <1>2, TickGood
  <1> HIDE DEF k
  <1>6. Local(v, M, X, k, M2, X2, A, c, None) /\ SameCurr(v, k, c)
    BY <1>1, <1>2, <1>3, <1>5, LocalTrans DEF SameCurr
  <1>7. Good(r, M2, X2, e, B, A) /\ Local(v, M, X, r, M2, X2, A, c, None) /\ SameCurr(v, r, c)
    BY <1>2, <1>3, <1>4, <1>5, <1>6
  <1>8. CurrFits(r, c) /\ Turn(v, r, c, None)
    BY <1>1, <1>7, CurrKept
  <1> QED BY <1>7, <1>8, SteppedTogether DEF r

\* Picking when something is queued.
LEMMA PickEffect ==
  ASSUME NEW v, NEW M, NEW X, NEW e, NEW m, Sound(v, M, X, e, m), NEW c \in Cpus, OnRq(v, c) # {}
  PROVE  Effect(v, M, Pick(v, c), e, m)
  <1> DEFINE B == Bound(v, e, m)
             A == Timed(v)
             r == Pick(v, c)
  <1>1. /\ Good(v, M, X, e, B, A) /\ v \in VType /\ M \in [Cpus -> Int] /\ X \in [Tasks -> Int]
    BY SoundFacts
  <1>2. PICK M2 \in [Cpus -> Int], X2 \in [Tasks -> Int] :
          /\ Good(r, M2, X2, e, B, A) /\ Local(v, M, X, r, M2, X2, A, c, None)
          /\ r.rq[c].curr \in OnRq(r, c) /\ r.rq[c].pc = "run"
          /\ r.rq[c].curr # v.rq[c].curr /\ r.rq[c].timeline # <<>>
               => wakeup_preempt_entity(r, r.rq[c].curr, Head(r.rq[c].timeline)) < 1
    BY <1>1, PickGood
  <1>3. CurrFits(r, c) /\ Turn(v, r, c, None)
    BY <1>2 DEF CurrFits, Turn, OnRq
  <1> QED BY <1>2, <1>3, SteppedTogether

\* idle_balance is over.
IdleEnds(v, c) == IF nr_running(v, c) > 0 THEN Pick(v, c)
                  ELSE Decided(IF v.rq[c].curr = None THEN v ELSE put_prev_entity(v, c, v.rq[c].curr), c)

\* nr_running counts who is queued.
LEMMA NrRunningFacts ==
  ASSUME NEW v, NEW c \in Cpus
  PROVE  nr_running(v, c) \in Nat /\ (nr_running(v, c) = 0 <=> OnRq(v, c) = {})
  <1>1. OnRq(v, c) \in SUBSET Tasks /\ IsFiniteSet(Tasks)
    BY CfsRqAssumption DEF OnRq
  <1>2. IsFiniteSet(OnRq(v, c))
    BY <1>1, FS_Subset
  <1> QED BY <1>2, FS_CardinalityType, FS_EmptySet DEF nr_running

\* idle_balance is over: what was queued meanwhile is picked, or the last task is put.
LEMMA IdleEffect ==
  ASSUME NEW v, NEW M, NEW X, NEW e, NEW m, Sound(v, M, X, e, m), NEW c \in Cpus
  PROVE  Effect(v, M, IdleEnds(v, c), e, m)
  <1> DEFINE B == Bound(v, e, m)
             A == Timed(v)
             w == IF v.rq[c].curr = None THEN v ELSE put_prev_entity(v, c, v.rq[c].curr)
             r == Decided(w, c)
  <1>1. /\ Good(v, M, X, e, B, A) /\ v \in VType /\ M \in [Cpus -> Int] /\ X \in [Tasks -> Int]
    BY SoundFacts
  <1>2. CASE OnRq(v, c) # {}
    <2>1. IdleEnds(v, c) = Pick(v, c)
      BY <1>2, NrRunningFacts DEF IdleEnds
    <2> QED BY <1>2, <2>1, PickEffect
  <1>3. CASE OnRq(v, c) = {}
    <2>1. IdleEnds(v, c) = r
      BY <1>3, NrRunningFacts DEF IdleEnds
    <2>2. PICK M2 \in [Cpus -> Int], X2 \in [Tasks -> Int] :
            Good(w, M2, X2, e, B, A) /\ Local(v, M, X, w, M2, X2, A, c, None) /\ w.rq[c].curr = None
      <3>1. CASE v.rq[c].curr = None
        <4>1. w = v
          BY <3>1
        <4> HIDE DEF w
        <4> QED BY <1>1, <3>1, <4>1, SameGood
      <3>2. CASE v.rq[c].curr # None
        BY <1>1, <3>2, PutGood
      <3> QED BY <3>1, <3>2
    <2> HIDE DEF w
    <2>3. Good(r, M2, X2, e, B, A) /\ Local(w, M2, X2, r, M2, X2, A, c, None) /\ r.rq[c].curr = None
      BY <2>2, DecidedGood
    <2> HIDE DEF r
    <2>4. Local(v, M, X, r, M2, X2, A, c, None)
      BY <1>1, <2>2, <2>3, LocalTrans
    <2>5. CurrFits(r, c) /\ Turn(v, r, c, None)
      BY <2>3 DEF CurrFits, Turn
    <2> QED BY <2>1, <2>3, <2>4, <2>5, SteppedTogether
  <1> QED BY <1>2, <1>3

\* A task of a class above fair runs instead.
LEMMA PutEffect ==
  ASSUME NEW v, NEW M, NEW X, NEW e, NEW m, Sound(v, M, X, e, m), NEW c \in Cpus, v.rq[c].curr # None
  PROVE  Effect(v, M, Preempted(put_prev_entity(v, c, v.rq[c].curr), c), e, m)
  <1> DEFINE B == Bound(v, e, m)
             A == Timed(v)
             w == put_prev_entity(v, c, v.rq[c].curr)
             r == Preempted(w, c)
  <1>1. /\ Good(v, M, X, e, B, A) /\ v \in VType /\ M \in [Cpus -> Int] /\ X \in [Tasks -> Int]
    BY SoundFacts
  <1>2. PICK M2 \in [Cpus -> Int], X2 \in [Tasks -> Int] :
          Good(w, M2, X2, e, B, A) /\ Local(v, M, X, w, M2, X2, A, c, None) /\ w.rq[c].curr = None
    BY <1>1, PutGood
  <1> HIDE DEF w
  <1>3. Good(r, M2, X2, e, B, A) /\ Local(w, M2, X2, r, M2, X2, A, c, None) /\ r.rq[c].curr = None
    BY <1>2, DecidedGood
  <1> HIDE DEF r
  <1>4. Local(v, M, X, r, M2, X2, A, c, None)
    BY <1>1, <1>2, <1>3, LocalTrans
  <1>5. CurrFits(r, c) /\ Turn(v, r, c, None)
    BY <1>3 DEF CurrFits, Turn
  <1> QED BY <1>3, <1>4, <1>5, SteppedTogether DEF r, w

\* The running task yields, to one that is queued or to none in particular.
LEMMA YieldEffect ==
  ASSUME NEW v, NEW M, NEW X, NEW e, NEW m, Sound(v, M, X, e, m), NEW c \in Cpus,
         v.rq[c].curr # None, v.rq[c].pc = "run",
         NEW w, w = v \/ \E p \in OnRq(v, c) : w = [v EXCEPT !.rq[c].next = p]
  PROVE  Effect(v, M, yield_task_fair(w, c), e, m)
  <1> DEFINE B == Bound(v, e, m)
             A == Timed(v)
             k == v.rq[c].curr
             r == yield_task_fair(w, c)
  <1>1. /\ Good(v, M, X, e, B, A) /\ v \in VType /\ M \in [Cpus -> Int] /\ X \in [Tasks -> Int]
        /\ CurrFits(v, c) /\ k \in Tasks /\ v.se[k].cpu = c
    BY SoundFacts
  <1>2. k \in OnRq(v, c)
    BY <1>1 DEF CurrFits, OnRq
  <1>3. Good(w, M, X, e, B, A) /\ Local(v, M, X, w, M, X, A, c, None) /\ w.se = v.se /\ SameCurr(v, w, c)
    <2>1. CASE w = v
      BY <1>1, <2>1, SameGood DEF SameCurr
    <2>2. CASE \E p \in OnRq(v, c) : w = [v EXCEPT !.rq[c].next = p]
      <3>1. PICK p \in OnRq(v, c) : w = [v EXCEPT !.rq[c].next = p]
        BY <2>2
      <3>2. w \in Marks(v, c, p)
        BY <3>1 DEF Marks
      <3> QED BY <1>1, <3>2, MarkGood
    <2> QED BY <2>1, <2>2
  <1>4. w.rq[c].curr \in OnRq(w, c) /\ w.rq[c].curr = k
    BY <1>2, <1>3 DEF OnRq, SameCurr
  <1>5. PICK M2 \in [Cpus -> Int], X2 \in [Tasks -> Int] :
          /\ Good(r, M2, X2, e, B, A) /\ Local(w, M, X, r, M2, X2, A, c, None)
          /\ r.rq[c].curr = w.rq[c].curr
    BY <1>3, <1>4, YieldGood
  <1> HIDE DEF r
  <1>6. Local(v, M, X, r, M2, X2, A, c, None)
    BY <1>1, <1>3, <1>5, LocalTrans
  <1>7. r.rq[c].curr = k
    BY <1>4, <1>5
  <1>8. CurrFits(r, c) /\ Turn(v, r, c, None)
    <2>1. SameTask(v, r, k)
      BY <1>1, <1>6, NoneFacts DEF Local
    <2> QED BY <1>2, <1>7, <2>1 DEF CurrFits, Turn, SameTask, OnRq
  <1> QED BY <1>5, <1>6, <1>8, SteppedTogether DEF r

-----------------------------------------------------------------------------
(***************************************************************************)
(* Steps that are about a task.                                            *)
(***************************************************************************)

\* schedule when the current task is preempted.
Reschedule(v, c) == IF nr_running(v, c) = 0 THEN AtPc(v, c, "newidle") ELSE Pick(v, c)

\* schedule picks, or drops the lock in idle_balance with nothing left to run.
LEMMA PreemptionEffect ==
  ASSUME NEW v, NEW M, NEW X, NEW e, NEW m, Sound(v, M, X, e, m), NEW c \in Cpus
  PROVE  Effect(v, M, Reschedule(v, c), e, m)
  <1> DEFINE B == Bound(v, e, m)
             A == Timed(v)
             r == AtPc(v, c, "newidle")
  <1>1. /\ Good(v, M, X, e, B, A) /\ v \in VType /\ M \in [Cpus -> Int] /\ X \in [Tasks -> Int]
        /\ CurrFits(v, c)
    BY SoundFacts
  <1>2. CASE OnRq(v, c) # {}
    <2>1. Reschedule(v, c) = Pick(v, c)
      BY <1>2, NrRunningFacts DEF Reschedule
    <2> QED BY <1>2, <2>1, PickEffect
  <1>3. CASE OnRq(v, c) = {}
    <2>1. Reschedule(v, c) = r
      BY <1>3, NrRunningFacts DEF Reschedule
    <2>2. /\ Good(r, M, X, e, B, A) /\ Local(v, M, X, r, M, X, A, c, None) /\ r.se = v.se
          /\ r.rq[c].curr = v.rq[c].curr /\ r.rq[c].pc = "newidle"
      BY <1>1, PcGood
    <2> HIDE DEF r
    <2>3. CurrFits(r, c) /\ Turn(v, r, c, None)
      BY <1>1, <2>2 DEF CurrFits, Turn
    <2> QED BY <1>1, <2>1, <2>2, <2>3, SteppedTogether
  <1> QED BY <1>2, <1>3

\* schedule when the current task sleeps.
Slept(v, c) == State(dequeue_entity(v, c, v.rq[c].curr, {"sleep"}), v.rq[c].curr, "sleeping")

\* The current task sleeps: dequeued, it stays curr until another is picked, or until
\* idle_balance is over.
LEMMA SleepEffect ==
  ASSUME NEW v, NEW M, NEW X, NEW e, NEW m, Sound(v, M, X, e, m), NEW c \in Cpus,
         v.rq[c].curr # None, v.rq[c].pc = "run"
  PROVE  Effect(v, M, Reschedule(Slept(v, c), c), e, m)
  <1> DEFINE B == Bound(v, e, m)
             A == Timed(v)
             s == v.rq[c].curr
             w == dequeue_entity(v, c, s, {"sleep"})
             u == Slept(v, c)
             r == Reschedule(u, c)
  <1>1. /\ Good(v, M, X, e, B, A) /\ v \in VType /\ M \in [Cpus -> Int] /\ X \in [Tasks -> Int]
        /\ e \in 0 .. MaxTime /\ m \in 0 .. MaxMoves /\ B \in 0 .. Reach
        /\ CurrFits(v, c) /\ s \in Tasks /\ v.se[s].cpu = c /\ s \in A
        /\ \A d \in Cpus : v.rq[d].curr # None => v.se[v.rq[d].curr].cpu = d
    BY SoundFacts
  <1>2. s \in OnRq(v, c) /\ v.se[s].on_rq
    BY <1>1 DEF CurrFits, OnRq
  <1>s. v.se[s].state = "runnable"
    BY <1>1, <1>2, SoundFacts DEF TaskFits
  <1>3. PICK M2 \in [Cpus -> Int], X2 \in [Tasks -> Int] :
          /\ Good(w, M2, X2, e, B, A) /\ Local(v, M, X, w, M2, X2, A, c, s)
          /\ SameSelf(v, w, s) /\ ~w.se[s].on_rq /\ SameCurr(v, w, c)
    <2>1. (IF "sleep" \in {"sleep"} THEN A ELSE A \ {s}) = A
      OBVIOUS
    <2> DEFINE flags == {"sleep"}
    <2> HIDE DEF flags, s
    <2>2. \E M2 \in [Cpus -> Int], X2 \in [Tasks -> Int] :
            LET r1 == dequeue_entity(v, c, s, flags)
            IN  /\ Good(r1, M2, X2, e, B, IF "sleep" \in flags THEN A ELSE A \ {s})
                /\ Local(v, M, X, r1, M2, X2, A, c, s)
                /\ SameSelf(v, r1, s) /\ ~r1.se[s].on_rq /\ SameCurr(v, r1, c)
                /\ "sleep" \notin flags => -thresh <= X2[s] /\ X2[s] <= Horizon(e)
      <3> HIDE DEF A, B
      <3>1. Good(v, M, X, e, B, A) /\ s \in OnRq(v, c)
        BY <1>1, <1>2
      <3> QED BY <3>1, DequeueGood
    <2>3. PICK M2 \in [Cpus -> Int], X2 \in [Tasks -> Int] :
            LET r1 == dequeue_entity(v, c, s, flags)
            IN  /\ Good(r1, M2, X2, e, B, IF "sleep" \in flags THEN A ELSE A \ {s})
                /\ Local(v, M, X, r1, M2, X2, A, c, s)
                /\ SameSelf(v, r1, s) /\ ~r1.se[s].on_rq /\ SameCurr(v, r1, c)
      BY <2>2
    <2> QED BY <2>1, <2>3 DEF flags
  <1>u. u = State(w, s, "sleeping") /\ "sleeping" \in States
    BY DEF Slept, States
  <1> HIDE DEF w, s
  <1>4. /\ Good(u, M2, X2, e, B, A) /\ u.rq = w.rq /\ u.se[s].state = "sleeping"
        /\ u.se[s].on_rq = w.se[s].on_rq /\ Local(w, M2, X2, u, M2, X2, A, c, s)
    BY <1>1, <1>3, <1>u, Restate
  <1> HIDE DEF u
  <1>5. Local(v, M, X, u, M2, X2, A, c, s) /\ u.rq[c].curr = s
    BY <1>1, <1>3, <1>4, LocalTrans DEF SameCurr, s
  <1>6. \E M3 \in [Cpus -> Int], X3 \in [Tasks -> Int] :
          /\ Good(r, M3, X3, e, B, A) /\ Local(u, M2, X2, r, M3, X3, A, c, None)
          /\ \/ r.rq[c].curr = s /\ r.rq[c].pc = "newidle"
             \/ /\ r.rq[c].curr \in OnRq(r, c)
                /\ r.rq[c].curr # u.rq[c].curr /\ r.rq[c].timeline # <<>>
                     => wakeup_preempt_entity(r, r.rq[c].curr, Head(r.rq[c].timeline)) < 1
    <2>1. CASE OnRq(u, c) # {}
      <3>1. r = Pick(u, c)
        BY <2>1, NrRunningFacts DEF Reschedule
      <3> HIDE DEF r
      <3> QED BY <1>4, <2>1, <3>1, PickGood
    <2>2. CASE OnRq(u, c) = {}
      <3>1. r = AtPc(u, c, "newidle")
        BY <2>2, NrRunningFacts DEF Reschedule
      <3> HIDE DEF r
      <3>2. /\ Good(r, M2, X2, e, B, A) /\ Local(u, M2, X2, r, M2, X2, A, c, None)
            /\ r.rq[c].curr = s /\ r.rq[c].pc = "newidle"
        BY <1>4, <1>5, <3>1, PcGood, SMTT(30)
      <3> QED BY <3>2
    <2> QED BY <2>1, <2>2
  <1> HIDE DEF r
  <1>7. PICK M3 \in [Cpus -> Int], X3 \in [Tasks -> Int] :
          /\ Good(r, M3, X3, e, B, A) /\ Local(u, M2, X2, r, M3, X3, A, c, None)
          /\ \/ r.rq[c].curr = s /\ r.rq[c].pc = "newidle"
             \/ /\ r.rq[c].curr \in OnRq(r, c)
                /\ r.rq[c].curr # u.rq[c].curr /\ r.rq[c].timeline # <<>>
                     => wakeup_preempt_entity(r, r.rq[c].curr, Head(r.rq[c].timeline)) < 1
    BY <1>6
  <1>8. SameTask(u, r, s)
    BY <1>1, <1>7, NoneFacts DEF Local
  <1>9. r.se[s].state = "sleeping" /\ ~r.se[s].on_rq
    BY <1>3, <1>4, <1>8 DEF SameTask
  <1>10. Local(v, M, X, r, M3, X3, A, c, s)
    <2>1. Local(u, M2, X2, r, M3, X3, A, c, s)
      BY <1>1, <1>7, LocalWiden
    <2> QED BY <1>1, <1>5, <2>1, LocalTrans
  <1>11. Timed(r) = A /\ Bound(r, e, m) = B
    <2>1. \A t \in Tasks \ {s} : r.se[t].state = v.se[t].state
      BY <1>10 DEF Local, SameTask
    <2>2. v.se[s].state \in {"runnable", "sleeping"} /\ r.se[s].state \in {"runnable", "sleeping"}
      BY <1>9, <1>s DEF s
    <2>3. Timed(r) = A /\ Born(r) = Born(v)
      BY <1>1, <2>1, <2>2 DEF Timed, Born
    <2> QED BY <2>3 DEF Bound, Arrivals
  <1>12. CurrFits(r, c) /\ Turn(v, r, c, s)
    <2>1. CurrFits(r, c)
      BY <1>7, <1>9 DEF CurrFits, OnRq
    <2>2. Turn(v, r, c, s)
      BY <1>2, <1>5, <1>7 DEF Turn, s
    <2> QED BY <2>1, <2>2
  <1>13. TaskFits(r, X3, e, Bound(r, e, m), s)
    BY <1>9 DEF TaskFits
  <1>14. \A d \in Cpus \ {c} : v.rq[d].curr # s
    BY <1>1, NoneFacts
  <1>15. e <= e /\ Bound(v, e, m) <= Bound(r, e, m)
    BY <1>1, <1>11
  <1> QED BY <1>1, <1>7, <1>10, <1>11, <1>12, <1>13, <1>14, <1>15, Stepped DEF r, u

\* A task that leaves for another CPU is accounted as a move and no longer as timed.
LEMMA Departs ==
  ASSUME NEW v, NEW m \in 0 .. MaxMoves, NEW e \in 0 .. MaxTime, NEW r, NEW s \in Timed(v), m < MaxMoves,
         \A t \in Tasks \ {s} : r.se[t].state = v.se[t].state, r.se[s].state \in {"waking", "migrating"}
  PROVE  /\ Timed(r) = Timed(v) \ {s} /\ Bound(r, e, m + 1) = Bound(v, e, m) /\ m + 1 \in 0 .. MaxMoves
  <1>1. s \in Tasks /\ v.se[s].state \in {"runnable", "sleeping"}
    BY DEF Timed
  <1>2. m + 1 \in 0 .. MaxMoves /\ m \in Nat
    BY CfsRqAssumption
  <1>a. /\ r.se[s].state # "unborn" /\ v.se[s].state # "unborn"
        /\ r.se[s].state \notin {"runnable", "sleeping"} /\ v.se[s].state \in {"runnable", "sleeping"}
    BY <1>1
  <1>3. Timed(r) = Timed(v) \ {s} /\ Arrivals(r, m) = Arrivals(v, m) - 1
    BY <1>1, <1>a, TimedFacts
  <1>4. Arrivals(r, m + 1) = Arrivals(r, m) + 1 /\ Arrivals(v, m) \in Nat
    <2>1. Arrivals(v, m) \in Nat
      BY ArrivalsFacts, HorizonFacts, CfsRqAssumption
    <2>2. Cardinality(Timed(r)) \in Nat /\ Cardinality(Born(r)) \in Nat
      BY ArrivalsFacts
    <2> QED BY <1>2, <2>1, <2>2 DEF Arrivals
  <1> QED BY <1>2, <1>3, <1>4, ArrivalGrowth

\* A task that arrives, is born or is put back may advance min_vruntime by another horizon.
LEMMA Arrives ==
  ASSUME NEW v, NEW m \in 0 .. MaxMoves, NEW e \in 0 .. MaxTime, NEW r, NEW k \in 0 .. MaxMoves, m <= k,
         NEW s \in Tasks, \A t \in Tasks \ {s} : r.se[t].state = v.se[t].state,
         \/ v.se[s].state \in {"new", "waking", "migrating"} /\ r.se[s].state = "runnable"
         \/ v.se[s].state = "unborn" /\ r.se[s].state = "new"
         \/ v.se[s].state = "runnable" /\ r.se[s].state = "runnable" /\ k = m + 1
  PROVE  /\ Timed(r) = IF r.se[s].state = "runnable" THEN Timed(v) \cup {s} ELSE Timed(v)
         /\ Bound(r, e, k) \in 0 .. Reach /\ Bound(v, e, m) + Horizon(e) <= Bound(r, e, k)
         /\ Bound(v, e, m) <= Bound(r, e, k)
  <1> DEFINE h == Horizon(e)
             a == Arrivals(v, m)
             b == Arrivals(r, k)
  <1>1. a \in Nat /\ b \in Nat /\ h \in Nat /\ Bound(v, e, m) = h * a /\ Bound(r, e, k) = h * b
    BY ArrivalsFacts, HorizonFacts, CfsRqAssumption DEF Bound
  <1>2. Timed(r) = IF r.se[s].state = "runnable" THEN Timed(v) \cup {s} ELSE Timed(v)
    <2>1. /\ r.se[s].state \in {"runnable", "new"}
          /\ r.se[s].state = "new" => v.se[s].state \notin {"runnable", "sleeping"}
      OBVIOUS
    <2>2. r.se[s].state # "runnable" => r.se[s].state \notin {"runnable", "sleeping"} /\ s \notin Timed(v)
      BY <2>1 DEF Timed
    <2>3. Timed(r) = IF r.se[s].state \in {"runnable", "sleeping"} THEN Timed(v) \cup {s} ELSE Timed(v) \ {s}
      BY TimedFacts
    <2> QED BY <2>2, <2>3
  <1>3. Arrivals(r, k) = Arrivals(r, m) + (k - m) /\ Arrivals(r, m) \in Nat
    <2>1. Cardinality(Timed(r)) \in Nat /\ Cardinality(Born(r)) \in Nat /\ m \in Nat /\ k \in Nat
      BY ArrivalsFacts
    <2> QED BY <2>1 DEF Arrivals
  <1>4. a + 1 <= b
    <2>1. \/ Arrivals(r, m) = a + 1
          \/ Arrivals(r, m) = a /\ k = m + 1
      <3>1. CASE v.se[s].state \in {"new", "waking", "migrating"} /\ r.se[s].state = "runnable"
        <4>1. /\ v.se[s].state \notin {"runnable", "sleeping"} /\ r.se[s].state \in {"runnable", "sleeping"}
              /\ v.se[s].state # "unborn" /\ r.se[s].state # "unborn"
          BY <3>1
        <4> QED BY <4>1, TimedFacts
      <3>2. CASE v.se[s].state = "unborn" /\ r.se[s].state = "new"
        <4>1. /\ v.se[s].state \notin {"runnable", "sleeping"} /\ r.se[s].state \notin {"runnable", "sleeping"}
              /\ v.se[s].state = "unborn" /\ r.se[s].state # "unborn"
          BY <3>2
        <4>2. s \notin Timed(v) /\ s \notin Timed(r)
          BY <4>1 DEF Timed
        <4> QED BY <4>1, <4>2, TimedFacts
      <3>3. CASE v.se[s].state = "runnable" /\ r.se[s].state = "runnable" /\ k = m + 1
        <4>1. /\ v.se[s].state \in {"runnable", "sleeping"} /\ r.se[s].state \in {"runnable", "sleeping"}
              /\ v.se[s].state # "unborn" /\ r.se[s].state # "unborn"
          BY <3>3
        <4>2. s \in Timed(v) /\ s \in Timed(r)
          BY <4>1 DEF Timed
        <4>3. Arrivals(r, m) = Arrivals(v, m)
          BY <4>1, <4>2, TimedFacts
        <4> QED BY <3>3, <4>3
      <3> QED BY <3>1, <3>2, <3>3
    <2> HIDE DEF a
    <2> QED BY <1>1, <1>3, <2>1
  <1> HIDE DEF h, a, b
  <1>5. h * b = h * a + h + h * (b - a - 1) /\ h * (b - a - 1) \in Nat /\ h * a \in Nat /\ h * b \in Nat
    BY <1>1, <1>4
  <1>6. Bound(r, e, k) \in 0 .. Reach
    BY BoundFacts
  <1> QED BY <1>1, <1>2, <1>5, <1>6 DEF h

\* What is relative to a min_vruntime is so as a number.
LEMMA Relative ==
  ASSUME NEW v, NEW M, NEW X, NEW e, NEW B, NEW A, Good(v, M, X, e, B, A),
         NEW c \in Cpus, NEW s \in Tasks
  PROVE  Normalise(v, c, s) = Revalued(v, s, X[s] - M[c]) /\ X[s] - M[c] \in Int
  <1>1. v \in VType /\ X[s] \in Int /\ M[c] \in Int /\ v.se[s] \in SeType
    BY Parts DEF Good, Typed
  <1>2. v.se[s].vruntime = X[s] % VMod
    <2>1. v.se[s].cpu \in Cpus
      BY <1>1 DEF SeType
    <2> QED BY <2>1 DEF Good, CpuOk, TaskOk
  <1>3. v.rq[c].min_vruntime = M[c] % VMod
    BY DEF Good, CpuOk, MinOk
  <1>4. ((X[s] % VMod) - (M[c] % VMod)) % VMod = (X[s] - M[c]) % VMod
    BY <1>1, ModAdd
  <1>5. (v.se[s].vruntime - v.rq[c].min_vruntime) % VMod = (X[s] - M[c]) % VMod
    BY <1>2, <1>3, <1>4
  <1>6. Normalise(v, c, s) = [v EXCEPT !.se[s].vruntime = (v.se[s].vruntime - v.rq[c].min_vruntime) % VMod]
    BY <1>1 DEF Normalise, VType
  <1> QED BY <1>1, <1>5, <1>6 DEF Revalued

\* What is dequeued and does not sleep is relative.
LEMMA DequeueRelative ==
  ASSUME NEW v, NEW M, NEW X, NEW e, NEW B, NEW A, Good(v, M, X, e, B, A),
         NEW c \in Cpus, NEW s \in OnRq(v, c), NEW flags
  PROVE  "sleep" \notin flags =>
           \E M2 \in [Cpus -> Int], X2 \in [Tasks -> Int] :
             LET r == dequeue_entity(v, c, s, flags)
             IN  /\ Good(r, M2, X2, e, B, A \ {s}) /\ Local(v, M, X, r, M2, X2, A, c, s)
                 /\ SameSelf(v, r, s) /\ ~r.se[s].on_rq /\ SameCurr(v, r, c)
                 /\ -thresh <= X2[s] /\ X2[s] <= Horizon(e)
  <1>1. \E M2 \in [Cpus -> Int], X2 \in [Tasks -> Int] :
          LET r1 == dequeue_entity(v, c, s, flags)
          IN  /\ Good(r1, M2, X2, e, B, IF "sleep" \in flags THEN A ELSE A \ {s})
              /\ Local(v, M, X, r1, M2, X2, A, c, s)
              /\ SameSelf(v, r1, s) /\ ~r1.se[s].on_rq /\ SameCurr(v, r1, c)
              /\ "sleep" \notin flags => -thresh <= X2[s] /\ X2[s] <= Horizon(e)
    <2>1. Good(v, M, X, e, B, A) /\ s \in OnRq(v, c)
      OBVIOUS
    <2> QED BY <2>1, DequeueGood, Z3
  <1>2. "sleep" \notin flags => (IF "sleep" \in flags THEN A ELSE A \ {s}) = A \ {s}
    OBVIOUS
  <1> QED BY <1>1, <1>2

\* The load balancer detaches a task.
Detached(v, s, c) == Relocated(State(dequeue_entity(v, v.se[s].cpu, s, {}), s, "migrating"), s, c)

\* detach_task: the vruntime of a queued task becomes relative to its CPU.
LEMMA DetachEffect ==
  ASSUME NEW v, NEW M, NEW X, NEW e, NEW m, Sound(v, M, X, e, m), NEW s \in Tasks, NEW c \in Cpus,
         v.se[s].state = "runnable", v.rq[v.se[s].cpu].curr # s, m < MaxMoves
  PROVE  Effect(v, M, Detached(v, s, c), e, m + 1)
  <1> DEFINE B == Bound(v, e, m)
             A == Timed(v)
             d == v.se[s].cpu
             w == dequeue_entity(v, d, s, {})
             u == State(w, s, "migrating")
             r == Relocated(u, s, c)
  <1>1. /\ Good(v, M, X, e, B, A) /\ v \in VType /\ M \in [Cpus -> Int] /\ X \in [Tasks -> Int]
        /\ e \in 0 .. MaxTime /\ m \in 0 .. MaxMoves /\ B \in 0 .. Reach
        /\ v.se[s] \in SeType /\ TaskFits(v, X, e, B, s)
        /\ \A k \in Cpus : CurrFits(v, k) /\ (v.rq[k].curr # None => v.se[v.rq[k].curr].cpu = k)
    BY SoundFacts
  <1>2. d \in Cpus /\ s \in OnRq(v, d) /\ s \in A
    BY <1>1 DEF TaskFits, OnRq, Timed, SeType
  <1>3. \A k \in Cpus : v.rq[k].curr # s
    BY <1>1, NoneFacts
  <1>4. PICK M2 \in [Cpus -> Int], X2 \in [Tasks -> Int] :
          /\ Good(w, M2, X2, e, B, A \ {s}) /\ Local(v, M, X, w, M2, X2, A, d, s)
          /\ SameSelf(v, w, s) /\ ~w.se[s].on_rq /\ SameCurr(v, w, d)
          /\ -thresh <= X2[s] /\ X2[s] <= Horizon(e)
    <2> HIDE DEF A, B, d
    <2>1. Good(v, M, X, e, B, A) /\ s \in OnRq(v, d) /\ d \in Cpus /\ "sleep" \notin {}
      BY <1>1, <1>2
    <2>2. \E M2 \in [Cpus -> Int], X2 \in [Tasks -> Int] :
            LET r1 == dequeue_entity(v, d, s, {})
            IN  /\ Good(r1, M2, X2, e, B, A \ {s}) /\ Local(v, M, X, r1, M2, X2, A, d, s)
                /\ SameSelf(v, r1, s) /\ ~r1.se[s].on_rq /\ SameCurr(v, r1, d)
                /\ -thresh <= X2[s] /\ X2[s] <= Horizon(e)
      BY <2>1, DequeueRelative
    <2> QED BY <2>2
  <1> HIDE DEF w, d
  <1>5. /\ Good(u, M2, X2, e, B, A \ {s}) /\ u.rq = w.rq /\ u.se[s].state = "migrating"
        /\ u.se[s].on_rq = w.se[s].on_rq /\ Local(w, M2, X2, u, M2, X2, A \ {s}, d, s)
    <2>1. "migrating" \in States
      BY DEF States
    <2> QED BY <1>2, <1>4, <2>1, Restate
  <1> HIDE DEF u
  <1>6. \A k \in Cpus : u.rq[k].curr # s
    <2>1. u.rq[d].curr # s
      BY <1>2, <1>3, <1>4, <1>5 DEF SameCurr
    <2>2. \A k \in Cpus : k # d => u.rq[k] = v.rq[k]
      BY <1>4, <1>5 DEF Local
    <2> QED BY <1>3, <2>1, <2>2
  <1>7. /\ Good(r, M2, X2, e, B, A \ {s}) /\ r.rq = u.rq /\ r.se[s].state = "migrating"
        /\ r.se[s].on_rq = u.se[s].on_rq /\ Local(u, M2, X2, r, M2, X2, A \ {s}, d, s)
    <2>1. s \in Tasks \ (A \ {s}) /\ ~u.se[s].on_rq
      BY <1>4, <1>5
    <2> QED BY <1>2, <1>5, <1>6, <2>1, Relocate
  <1> HIDE DEF r
  <1>8. Local(v, M, X, r, M2, X2, A, d, s)
    <2>1. Local(v, M, X, u, M2, X2, A, d, s)
      BY <1>1, <1>4, <1>5, LocalTrans
    <2> QED BY <1>1, <1>7, <2>1, LocalTrans
  <1>9. \A t \in Tasks \ {s} : r.se[t].state = v.se[t].state
    BY <1>8 DEF Local, SameTask
  <1>10. Timed(r) = A \ {s} /\ Bound(r, e, m + 1) = B /\ m + 1 \in 0 .. MaxMoves
    BY <1>1, <1>2, <1>7, <1>9, Departs
  <1>11. r.rq[d].curr = v.rq[d].curr /\ r.rq[d].pc = v.rq[d].pc
    BY <1>4, <1>5, <1>7 DEF SameCurr
  <1>12. Turn(v, r, d, s) /\ CurrFits(r, d)
    <2>1. v.rq[d].curr # None => SameTask(v, r, v.rq[d].curr)
      <3>1. v.rq[d].curr \in Tasks \cup {None}
        BY <1>1, <1>2, Parts DEF RqType
      <3> QED BY <1>2, <1>3, <1>8, <3>1 DEF Local
    <2> QED BY <1>1, <1>2, <1>11, <2>1 DEF Turn, CurrFits, SameTask
  <1>13. TaskFits(r, X2, e, Bound(r, e, m + 1), s)
    BY <1>4, <1>5, <1>7 DEF TaskFits
  <1>14. e <= e /\ Bound(v, e, m) <= Bound(r, e, m + 1) /\ \A k \in Cpus \ {d} : v.rq[k].curr # s
    BY <1>1, <1>3, <1>10
  <1> HIDE DEF A, B
  <1>15. /\ Good(r, M2, X2, e, Bound(r, e, m + 1), Timed(r)) /\ Local(v, M, X, r, M2, X2, Timed(v), d, s)
         /\ s \in Tasks \cup {None} /\ d \in Cpus /\ m + 1 \in 0 .. MaxMoves /\ e \in 0 .. MaxTime
    BY <1>1, <1>2, <1>7, <1>8, <1>10 DEF A, B
  <1>16. Effect(v, M, r, e, m + 1)
    BY <1>12, <1>13, <1>14, <1>15, Stepped
  <1> QED BY <1>16 DEF r, u, w, d, Detached

\* A task arrives at a run queue and may preempt who runs there.
Landed(v, c, s, wakeup, migrated, fork) ==
  check_preempt_curr(State(enqueue_entity(v, c, s, wakeup, migrated), s, "runnable"), c, s, fork)

\* A task is queued and preempts curr or not: whichever way it came, the run queue is in order.
LEMMA Landing ==
  ASSUME NEW v, NEW M, NEW X, NEW e, NEW B, NEW A, NEW c, NEW s, NEW B2, NEW wakeup, NEW migrated, NEW fork,
         Enqueueable(v, M, X, e, B, A, B2, c, s, wakeup, migrated)
  PROVE  \E M2 \in [Cpus -> Int], X2 \in [Tasks -> Int] :
           LET r == Landed(v, c, s, wakeup, migrated, fork)
           IN  /\ Good(r, M2, X2, e, B2, A \cup {s}) /\ Local(v, M, X, r, M2, X2, A, c, s)
               /\ r.se[s].state = "runnable" /\ r.se[s].on_rq /\ r.se[s].cpu = c /\ SameCurr(v, r, c)
  <1> DEFINE w == enqueue_entity(v, c, s, wakeup, migrated)
             u == State(w, s, "runnable")
             r == check_preempt_curr(u, c, s, fork)
             A2 == A \cup {s}
  <1>0. c \in Cpus /\ s \in Tasks /\ M \in [Cpus -> Int] /\ X \in [Tasks -> Int] /\ v.se[s].cpu = c
    BY DEF Enqueueable, Good, Typed
  <1>1. PICK M1 \in [Cpus -> Int], X1 \in [Tasks -> Int] :
          /\ Good(w, M1, X1, e, B2, A2) /\ Local(v, M, X, w, M1, X1, A, c, s)
          /\ SameSelf(v, w, s) /\ w.se[s].on_rq /\ SameCurr(v, w, c)
    BY EnqueueGood
  <1> HIDE DEF w, A2
  <1>2. "runnable" \in States
    BY DEF States
  <1>3. /\ Good(u, M1, X1, e, B2, A2) /\ u.rq = w.rq /\ u.se[s].state = "runnable"
        /\ u.se[s].cpu = w.se[s].cpu /\ u.se[s].on_rq = w.se[s].on_rq
        /\ Local(w, M1, X1, u, M1, X1, A2, c, s)
    <2>1. Good(w, M1, X1, e, B2, A2) /\ s \in Tasks /\ c \in Cpus
      BY <1>0, <1>1
    <2> QED BY <1>2, <2>1, Restate
  <1> HIDE DEF u
  <1>4. s \in OnRq(u, c) /\ SameCurr(v, u, c)
    BY <1>0, <1>1, <1>3 DEF OnRq, SameSelf, SameCurr
  <1>5. Local(v, M, X, u, M1, X1, A, c, s)
    <2>1. A2 \ {s} = A \ {s}
      BY DEF A2
    <2> QED BY <1>0, <1>1, <1>3, <2>1, LocalTrans
  <1>6. PICK M2 \in [Cpus -> Int], X2 \in [Tasks -> Int] :
          Good(r, M2, X2, e, B2, A2) /\ Local(u, M1, X1, r, M2, X2, A2, c, None) /\ SameCurr(u, r, c)
    BY <1>0, <1>3, <1>4, PreemptGood
  <1> HIDE DEF r
  <1>7. SameTask(u, r, s)
    BY <1>0, <1>6, NoneFacts DEF Local
  <1>8. Local(v, M, X, r, M2, X2, A, c, s)
    <2>1. Local(u, M1, X1, r, M2, X2, A2, c, s)
      BY <1>0, <1>1, <1>6, LocalWiden
    <2>2. A2 \ {s} = A \ {s}
      BY DEF A2
    <2> QED BY <1>0, <1>1, <1>5, <1>6, <2>1, <2>2, LocalTrans
  <1>9. r.se[s].state = "runnable" /\ r.se[s].on_rq /\ r.se[s].cpu = c /\ SameCurr(v, r, c)
    BY <1>0, <1>1, <1>3, <1>4, <1>6, <1>7 DEF SameTask, SameSelf, SameCurr
  <1>10. r = Landed(v, c, s, wakeup, migrated, fork)
    BY DEF r, u, w, Landed
  <1>11. Good(r, M2, X2, e, B2, A \cup {s})
    BY <1>6 DEF A2
  <1> QED BY <1>8, <1>9, <1>10, <1>11

\* A task that is woken or attached, or starts to run.
LEMMA LandingEffect ==
  ASSUME NEW v, NEW M, NEW X, NEW e, NEW m, Sound(v, M, X, e, m), NEW s \in Tasks, NEW c \in Cpus,
         NEW w, \/ w = v /\ v.se[s].cpu = c
                \/ w = Relocated(v, s, c) /\ v.se[s].state = "new",
         v.rq[v.se[s].cpu].curr # s, NEW k \in 0 .. MaxMoves, m <= k,
         NEW wakeup \in BOOLEAN, NEW migrated \in BOOLEAN, NEW fork,
         \/ v.se[s].state = "sleeping" /\ wakeup /\ ~migrated /\ k = m
         \/ v.se[s].state = "waking" /\ wakeup /\ migrated
         \/ v.se[s].state \in {"new", "migrating"} /\ ~wakeup /\ ~migrated
  PROVE  Effect(v, M, Landed(w, c, s, wakeup, migrated, fork), e, k)
  <1> DEFINE B == Bound(v, e, m)
             A == Timed(v)
             u == State(v, s, "runnable")
             B2 == Bound(u, e, k)
             r == Landed(w, c, s, wakeup, migrated, fork)
             state == v.se[s].state
  <1>1. /\ Good(v, M, X, e, B, A) /\ v \in VType /\ M \in [Cpus -> Int] /\ X \in [Tasks -> Int]
        /\ e \in 0 .. MaxTime /\ m \in 0 .. MaxMoves /\ B \in 0 .. Reach
        /\ v.se[s] \in SeType /\ TaskFits(v, X, e, B, s)
        /\ \A d \in Cpus : CurrFits(v, d) /\ (v.rq[d].curr # None => v.se[v.rq[d].curr].cpu = d)
    BY SoundFacts
  <1>2. ~v.se[s].on_rq /\ state \in {"sleeping", "waking", "new", "migrating"} /\ s \in Tasks \cup {None}
    BY <1>1 DEF TaskFits
  <1>3. \A d \in Cpus : v.rq[d].curr # s
    BY <1>1, NoneFacts
  <1>4. /\ Good(w, M, X, e, B, A) /\ w.rq = v.rq /\ w.se[s].cpu = c /\ ~w.se[s].on_rq
        /\ \A t \in Tasks : w.se[t].state = v.se[t].state
        /\ Local(v, M, X, w, M, X, A, c, s)
    <2>1. CASE w = v /\ v.se[s].cpu = c
      <3>1. Local(v, M, X, w, M, X, A, c, s)
        BY <1>1, <2>1 DEF Local, SameTask
      <3> QED BY <1>1, <1>2, <2>1, <3>1
    <2>2. CASE w = Relocated(v, s, c) /\ v.se[s].state = "new"
      <3>1. s \in Tasks \ A
        BY <2>2 DEF Timed
      <3>2. /\ Good(w, M, X, e, B, A) /\ w.rq = v.rq /\ w.se[s].cpu = c
            /\ w.se[s].state = v.se[s].state /\ w.se[s].on_rq = v.se[s].on_rq
            /\ \A t \in Tasks : t # s => w.se[t] = v.se[t]
            /\ Local(v, M, X, w, M, X, A, c, s)
        BY <1>1, <1>2, <1>3, <2>2, <3>1, Relocate
      <3> QED BY <1>2, <3>2
    <2> QED BY <2>1, <2>2
  <1>5. u.se[s].state = "runnable" /\ \A t \in Tasks \ {s} : u.se[t].state = v.se[t].state
    <2>1. "runnable" \in States
      BY DEF States
    <2>2. u.se[s].state = "runnable" /\ \A t \in Tasks : t # s => u.se[t] = v.se[t]
      BY <1>1, <2>1, Restate
    <2> QED BY <2>2
  <1> HIDE DEF u
  <1>6. /\ Timed(u) = A \cup {s} /\ B2 \in 0 .. Reach /\ B <= B2
        /\ state # "sleeping" => B + Horizon(e) <= B2
    <2>1. CASE state = "sleeping"
      <3>1. v.se[s].state \in {"runnable", "sleeping"} /\ u.se[s].state \in {"runnable", "sleeping"}
        BY <1>5, <2>1
      <3>2. Timed(u) = A /\ Born(u) = Born(v) /\ s \in A
        BY <1>5, <2>1, <3>1 DEF Timed, Born
      <3>3. B2 = B
        BY <2>1, <3>2 DEF Bound, Arrivals
      <3> QED BY <1>1, <2>1, <3>2, <3>3
    <2>2. CASE state # "sleeping"
      <3>1. state \in {"new", "waking", "migrating"} /\ u.se[s].state = "runnable"
        BY <1>2, <1>5, <2>2
      <3> QED BY <1>1, <1>5, <3>1, Arrives
    <2> QED BY <2>1, <2>2
  <1>7. MayEnqueue(M, X, e, B, A, B2, c, s, wakeup, migrated)
    <2>1. CASE state = "sleeping"
      <3>1. wakeup /\ ~migrated /\ s \in A
        BY <2>1 DEF Timed
      <3> QED BY <3>1 DEF MayEnqueue
    <2>2. CASE state = "waking"
      <3>1. wakeup /\ migrated /\ B + Horizon(e) <= B2 /\ -thresh - B <= X[s] /\ X[s] <= Horizon(e)
        BY <1>1, <1>6, <2>2 DEF TaskFits
      <3> QED BY <3>1 DEF MayEnqueue
    <2>3. CASE state \in {"new", "migrating"}
      <3>1. state # "sleeping" /\ state # "waking" /\ state \in {"unborn", "new", "migrating"}
        BY <2>3
      <3>2. ~wakeup /\ ~migrated /\ B + Horizon(e) <= B2 /\ -thresh <= X[s] /\ X[s] <= Horizon(e)
        BY <1>1, <1>6, <3>1 DEF TaskFits
      <3> QED BY <3>2 DEF MayEnqueue
    <2> QED BY <1>2, <2>1, <2>2, <2>3
  <1>8. PICK M2 \in [Cpus -> Int], X2 \in [Tasks -> Int] :
          /\ Good(r, M2, X2, e, B2, A \cup {s}) /\ Local(w, M, X, r, M2, X2, A, c, s)
          /\ r.se[s].state = "runnable" /\ r.se[s].on_rq /\ r.se[s].cpu = c /\ SameCurr(w, r, c)
    <2> HIDE DEF B, B2, A
    <2>1. w.rq[c].curr # s
      BY <1>3, <1>4
    <2>2. Enqueueable(w, M, X, e, B, A, B2, c, s, wakeup, migrated)
      BY <1>4, <1>6, <1>7, <2>1 DEF Enqueueable
    <2> QED BY <2>2, Landing, ZenonT(40)
  <1> HIDE DEF r
  <1>9. Local(v, M, X, r, M2, X2, A, c, s)
    BY <1>1, <1>4, <1>8, LocalTrans
  <1>10. Timed(r) = A \cup {s} /\ Bound(r, e, k) = B2
    <2>1. \A t \in Tasks \ {s} : r.se[t].state = v.se[t].state
      BY <1>9 DEF Local, SameTask
    <2>2. \A t \in Tasks : r.se[t].state = u.se[t].state
      BY <1>5, <1>8, <2>1
    <2>3. Timed(r) = Timed(u) /\ Born(r) = Born(u)
      BY <2>2 DEF Timed, Born
    <2> QED BY <1>6, <2>3 DEF Bound, Arrivals
  <1>11. TaskFits(r, X2, e, Bound(r, e, k), s)
    BY <1>8 DEF TaskFits
  <1>12. r.rq[c].curr = v.rq[c].curr /\ r.rq[c].pc = v.rq[c].pc
    BY <1>4, <1>8 DEF SameCurr
  <1>13. CurrFits(r, c) /\ Turn(v, r, c, s)
    <2>1. v.rq[c].curr # None => SameTask(v, r, v.rq[c].curr)
      <3>1. v.rq[c].curr \in Tasks \cup {None}
        BY <1>1, Parts DEF RqType
      <3> QED BY <1>3, <1>9, <3>1 DEF Local
    <2> QED BY <1>1, <1>12, <2>1 DEF Turn, CurrFits, SameTask
  <1>14. \A d \in Cpus \ {c} : v.rq[d].curr # s
    BY <1>3
  <1> HIDE DEF A, B, B2
  <1>15. /\ Good(r, M2, X2, e, Bound(r, e, k), Timed(r)) /\ Local(v, M, X, r, M2, X2, Timed(v), c, s)
         /\ Bound(v, e, m) <= Bound(r, e, k) /\ e <= e
    BY <1>1, <1>6, <1>8, <1>9, <1>10 DEF A, B
  <1>16. Effect(v, M, r, e, k)
    BY <1>1, <1>2, <1>11, <1>13, <1>14, <1>15, Stepped
  <1> QED BY <1>16 DEF r

\* A task wakes on another CPU: it leaves the min_vruntime of the one it slept on.
Migrated(v, s, c) == Relocated(State(Normalise(v, v.se[s].cpu, s), s, "waking"), s, c)

\* migrate_task_rq_fair: the vruntime of a sleeping task becomes relative to the CPU it slept
\* on, whose min_vruntime has moved on since.
LEMMA MigrateEffect ==
  ASSUME NEW v, NEW M, NEW X, NEW e, NEW m, Sound(v, M, X, e, m), NEW s \in Tasks, NEW c \in Cpus,
         v.se[s].state = "sleeping", v.rq[v.se[s].cpu].curr # s, m < MaxMoves
  PROVE  Effect(v, M, Migrated(v, s, c), e, m + 1)
  <1> DEFINE B == Bound(v, e, m)
             A == Timed(v)
             d == v.se[s].cpu
             x == X[s] - M[d]
             X2 == [X EXCEPT ![s] = x]
             w == Normalise(v, d, s)
             u == State(w, s, "waking")
             r == Relocated(u, s, c)
  <1>1. /\ Good(v, M, X, e, B, A) /\ v \in VType /\ M \in [Cpus -> Int] /\ X \in [Tasks -> Int]
        /\ e \in 0 .. MaxTime /\ m \in 0 .. MaxMoves /\ B \in 0 .. Reach
        /\ v.se[s] \in SeType /\ TaskFits(v, X, e, B, s)
        /\ \A k \in Cpus : CurrFits(v, k) /\ (v.rq[k].curr # None => v.se[v.rq[k].curr].cpu = k)
    BY SoundFacts
  <1>2. d \in Cpus /\ s \in A /\ ~v.se[s].on_rq
    BY <1>1 DEF TaskFits, Timed, SeType
  <1>3. \A k \in Cpus : v.rq[k].curr # s
    BY <1>1, NoneFacts
  <1>4. x \in Int /\ -thresh - B <= x /\ x <= Horizon(e)
    <2>1. TaskOk(v, M, X, e, B, A, d, s) /\ MinOk(v, M, B, d)
      BY <1>1, <1>2 DEF Good, CpuOk
    <2>2. Pend(v, d, s) = 0
      BY <1>2, <1>3 DEF Pend
    <2>3. Typed(v, M, X, e, B, A)
      BY <1>1 DEF Good
    <2>4. X[s] \in Int /\ M[d] \in Int /\ InitMin[d] \in Nat /\ B \in Nat /\ thresh \in Nat /\ Horizon(e) \in Nat
      BY <1>1, <1>2, <2>3, TypedFacts
    <2>5. X[s] >= InitMin[d] - thresh /\ X[s] + 0 <= M[d] + Horizon(e) /\ M[d] <= InitMin[d] + B
      BY <1>2, <2>1, <2>2 DEF TaskOk, MinOk
    <2> HIDE DEF A, B, d
    <2> QED BY <2>4, <2>5
  <1>5. w = Revalued(v, s, x)
    <2> HIDE DEF A, B, d
    <2>1. Good(v, M, X, e, B, A) /\ d \in Cpus
      BY <1>1, <1>2
    <2> QED BY <2>1, Relative
  <1>6. /\ Good(w, M, X2, e, B, A \ {s}) /\ w.rq = v.rq /\ ~w.se[s].on_rq
        /\ \A t \in Tasks : t # s => w.se[t] = v.se[t]
        /\ Local(v, M, X, w, M, X2, A, d, s) /\ X2 \in [Tasks -> Int] /\ X2[s] = x
    <2>1. X2 \in [Tasks -> Int] /\ X2[s] = x
      BY <1>1, <1>4
    <2> HIDE DEF A, B, w
    <2>2. Good(v, M, X, e, B, A) /\ ~v.se[s].on_rq /\ v.rq[v.se[s].cpu].curr # s
      BY <1>1, <1>2
    <2> DEFINE z == x
    <2>3. z \in Int
      BY <1>4
    <2> HIDE DEF z
    <2>4. LET q == Revalued(v, s, z)
          IN  /\ Good(q, M, [X EXCEPT ![s] = z], e, B, A \ {s})
              /\ q.rq = v.rq /\ SameTask(v, q, s) /\ \A t \in Tasks : t # s => q.se[t] = v.se[t]
              /\ \A k : Local(v, M, X, q, M, [X EXCEPT ![s] = z], A, k, s)
      BY <2>2, <2>3, SetValue
    <2> QED BY <1>2, <1>5, <2>1, <2>4 DEF SameTask, z
  <1> HIDE DEF w, X2, d
  <1>7. /\ Good(u, M, X2, e, B, A \ {s}) /\ u.rq = w.rq /\ u.se[s].state = "waking"
        /\ u.se[s].on_rq = w.se[s].on_rq /\ Local(w, M, X2, u, M, X2, A \ {s}, d, s)
    <2>1. "waking" \in States
      BY DEF States
    <2> QED BY <1>2, <1>6, <2>1, Restate
  <1> HIDE DEF u
  <1>8. /\ Good(r, M, X2, e, B, A \ {s}) /\ r.rq = u.rq /\ r.se[s].state = "waking"
        /\ r.se[s].on_rq = u.se[s].on_rq /\ Local(u, M, X2, r, M, X2, A \ {s}, d, s)
    <2>1. s \in Tasks \ (A \ {s}) /\ ~u.se[s].on_rq
      BY <1>6, <1>7
    <2>2. \A k \in Cpus : u.rq[k].curr # s
      BY <1>3, <1>6, <1>7
    <2> QED BY <1>2, <1>7, <2>1, <2>2, Relocate
  <1> HIDE DEF r
  <1>9. Local(v, M, X, r, M, X2, A, d, s)
    <2>1. Local(v, M, X, u, M, X2, A, d, s)
      BY <1>1, <1>6, <1>7, LocalTrans
    <2> QED BY <1>1, <1>8, <2>1, LocalTrans
  <1>10. Timed(r) = A \ {s} /\ Bound(r, e, m + 1) = B /\ m + 1 \in 0 .. MaxMoves
    <2>1. \A t \in Tasks \ {s} : r.se[t].state = v.se[t].state
      BY <1>9 DEF Local, SameTask
    <2> QED BY <1>1, <1>2, <1>8, <2>1, Departs
  <1>11. r.rq = v.rq
    BY <1>6, <1>7, <1>8
  <1>12. Turn(v, r, d, s) /\ CurrFits(r, d)
    <2>1. v.rq[d].curr # None => SameTask(v, r, v.rq[d].curr)
      <3>1. v.rq[d].curr \in Tasks \cup {None}
        BY <1>1, <1>2, Parts DEF RqType
      <3> QED BY <1>2, <1>3, <1>9, <3>1 DEF Local
    <2> QED BY <1>1, <1>2, <1>11, <2>1 DEF Turn, CurrFits, SameTask
  <1>13. TaskFits(r, X2, e, Bound(r, e, m + 1), s)
    BY <1>4, <1>6, <1>7, <1>8, <1>10 DEF TaskFits
  <1>14. e <= e /\ Bound(v, e, m) <= Bound(r, e, m + 1) /\ \A k \in Cpus \ {d} : v.rq[k].curr # s
    BY <1>1, <1>3, <1>10
  <1> HIDE DEF A, B
  <1>15. /\ Good(r, M, X2, e, Bound(r, e, m + 1), Timed(r)) /\ Local(v, M, X, r, M, X2, Timed(v), d, s)
         /\ s \in Tasks \cup {None} /\ d \in Cpus /\ m + 1 \in 0 .. MaxMoves /\ e \in 0 .. MaxTime
         /\ M \in [Cpus -> Int] /\ X2 \in [Tasks -> Int]
    BY <1>1, <1>2, <1>6, <1>8, <1>9, <1>10 DEF A, B
  <1>16. Effect(v, M, r, e, m + 1)
    BY <1>12, <1>13, <1>14, <1>15, Stepped
  <1> QED BY <1>16 DEF r, u, w, d, Migrated

\* A task that is nowhere gets other data.
LEMMA Renew ==
  ASSUME NEW v, NEW M, NEW X, NEW e, NEW B, NEW A, Good(v, M, X, e, B, A),
         NEW s \in Tasks \ A, ~v.se[s].on_rq, \A d \in Cpus : v.rq[d].curr # s,
         NEW q \in SeType, ~q.on_rq, NEW x \in Int, q.vruntime = x % VMod
  PROVE  LET r  == WithSe(v, s, q)
             X2 == [X EXCEPT ![s] = x]
         IN  /\ Good(r, M, X2, e, B, A) /\ r.rq = v.rq /\ r.se[s] = q
             /\ \A t \in Tasks : t # s => r.se[t] = v.se[t]
             /\ \A d \in Cpus : Local(v, M, X, r, M, X2, A, d, s)
  <1> DEFINE r  == WithSe(v, s, q)
             X2 == [X EXCEPT ![s] = x]
  <1>1. Typed(v, M, X, e, B, A) /\ v \in VType /\ M \in [Cpus -> Int] /\ v.se[s] \in SeType
    BY Parts DEF Good, Typed
  <1>2. X2 \in [Tasks -> Int] /\ X2[s] = x /\ \A t \in Tasks : t # s => X2[t] = X[t]
    BY <1>1 DEF Typed
  <1>4. r \in VType /\ r.rq = v.rq /\ r.se[s] = q /\ \A t \in Tasks : t # s => r.se[t] = v.se[t]
    BY <1>1, WithSeFacts
  <1> HIDE DEF r, X2
  <1>5. \A d \in Cpus : OnRq(r, d) = OnRq(v, d) /\ s \notin OnRq(v, d)
    BY <1>4 DEF OnRq
  <1>6. ASSUME NEW d \in Cpus PROVE CpuOk(r, M, X2, e, B, A, d)
    <2>1. CpuOk(v, M, X, e, B, A, d)
      BY DEF Good
    <2>2. MinOk(r, M, B, d) /\ Queue(r, d) /\ Buddy(r, d) /\ r.rq[d].timeline = v.rq[d].timeline
      BY <1>4, <1>5, <2>1 DEF CpuOk, MinOk, Queue, Buddy
    <2>a. Sorted(r.rq[d].timeline, X2)
      <3> DEFINE tl == v.rq[d].timeline
      <3>1. tl \in Seq(Tasks) /\ ToSet(tl) = OnRq(v, d) \ {v.rq[d].curr} /\ Sorted(tl, X)
        BY TimelineFacts
      <3> HIDE DEF tl
      <3>3. \A i \in DOMAIN tl : tl[i] \in ToSet(tl) /\ tl[i] \in Tasks
        <4>1. \A i \in DOMAIN tl : tl[i] \in Tasks
          BY <3>1, SMTT(30)
        <4>2. \A i \in DOMAIN tl : tl[i] \in ToSet(tl)
          BY ZenonT(40) DEF ToSet
        <4> QED BY <4>1, <4>2
      <3>4. \A i \in DOMAIN tl : X2[tl[i]] = X[tl[i]]
        BY <1>2, <1>5, <3>1, <3>3
      <3>5. Sorted(tl, X2)
        BY <3>1, <3>4 DEF Sorted
      <3> QED BY <2>2, <3>5 DEF tl
    <2>3. CurrOk(r, e, A, d)
      <3>1. v.rq[d].curr \in Tasks \cup {None} /\ v.rq[d].curr # s
        BY <1>1, Parts DEF RqType
      <3> QED BY <1>4, <2>1, <3>1 DEF CpuOk, CurrOk
    <2>4. ASSUME NEW t \in Tasks, r.se[t].cpu = d PROVE TaskOk(r, M, X2, e, B, A, d, t)
      <3>1. CASE t # s
        <4>1. TaskOk(v, M, X, e, B, A, d, t) /\ r.se[t] = v.se[t] /\ X2[t] = X[t]
          BY <1>2, <1>4, <2>1, <2>4, <3>1 DEF CpuOk
        <4>2. Pend(r, d, t) = Pend(v, d, t)
          BY <1>4 DEF Pend
        <4> QED BY <4>1, <4>2 DEF TaskOk
      <3>2. CASE t = s
        BY <1>2, <1>4, <3>2 DEF TaskOk
      <3> QED BY <3>1, <3>2
    <2> QED BY <2>2, <2>a, <2>3, <2>4 DEF CpuOk
  <1>7. Good(r, M, X2, e, B, A)
    BY <1>1, <1>2, <1>4, <1>6 DEF Good, Typed
  <1>8. \A d \in Cpus : M[d] <= M[d]
    BY <1>1
  <1>9. \A d \in Cpus : Local(v, M, X, r, M, X2, A, d, s)
    BY <1>2, <1>4, <1>8 DEF Local, SameTask
  <1> QED BY <1>4, <1>7, <1>9 DEF r, X2

\* A new task starts behind min_vruntime by no more than a sleeper, however late its vruntime
\* is for the moment, and not further ahead than virtual time allows.
LEMMA PlaceInitial ==
  ASSUME NEW v, NEW M, NEW X, NEW e, NEW B, NEW A, Good(v, M, X, e, B, A),
         NEW c \in Cpus, NEW s \in Tasks, v.se[s].cpu = c, ~v.se[s].on_rq,
         2 * (M[c] + MaxDebit - X[s]) < VMod, X[s] <= M[c] + Horizon(e)
  PROVE  \E z \in Int : /\ place_entity(v, c, s, TRUE) = Revalued(v, s, z)
                        /\ M[c] - thresh <= z /\ z <= M[c] + Horizon(e)
  <1> DEFINE debit == IF "START_DEBIT" \in Features
                      THEN sched_vslice(nr_running(v, c), Level(v, c, s)) ELSE 0
             p == M[c] + debit
             z == IF p > X[s] THEN p ELSE X[s]
  <1>1. Typed(v, M, X, e, B, A) /\ CpuOk(v, M, X, e, B, A, c) /\ v \in VType
    BY DEF Good, Typed
  <1>2. /\ X[s] \in Int /\ M[c] \in Int /\ thresh \in Nat /\ Reach \in Nat /\ MaxDebit \in Nat
        /\ Horizon(e) \in Nat /\ Horizon(e) <= Reach /\ MaxDebit <= Horizon(e)
        /\ VMod > 4 * (thresh + Reach) /\ VMod \in Nat
    BY <1>1, TypedFacts
  <1>3. debit \in 0 .. MaxDebit
    <2> DEFINE W == [t \in Tasks |-> v.se[t].weight]
               S == OnRq(v, c)
               w == v.se[s].weight
    <2>1. S \in SUBSET Tasks /\ W \in [Tasks -> Weights] /\ w \in Weights
      BY <1>1, Parts DEF SeType, OnRq
    <2>2. Level(v, c, s) = <<[weight |-> w, on_rq |-> FALSE, load |-> SumFunctionOnSet(W, S)]>>
      <3>1. v.se[s].on_rq = FALSE
        BY <1>1, Parts DEF SeType
      <3> QED BY <3>1 DEF Level
    <2> HIDE DEF W, S, w
    <2>3. sched_vslice(Cardinality(S), <<[weight |-> w, on_rq |-> FALSE, load |-> SumFunctionOnSet(W, S)]>>)
            \in 0 .. MaxDebit
      BY <2>1, VirtualTimeAssumption
    <2>4. sched_vslice(nr_running(v, c), Level(v, c, s)) \in 0 .. MaxDebit
      BY <2>2, <2>3 DEF nr_running, S
    <2> QED BY <1>2, <2>4
  <1> HIDE DEF debit
  <1>4. p \in Int /\ z \in Int /\ M[c] - thresh <= z /\ z <= M[c] + Horizon(e)
        /\ 2 * (X[s] - p) < VMod /\ 2 * (p - X[s]) < VMod
    BY <1>2, <1>3
  <1>5. v.se[s].vruntime = X[s] % VMod /\ v.rq[c].min_vruntime = M[c] % VMod
    BY <1>1 DEF CpuOk, TaskOk, MinOk
  <1>6. ((M[c] % VMod) + debit) % VMod = p % VMod
    <2>1. debit \in Int
      BY <1>2, <1>3
    <2> QED BY <1>2, <2>1, ModAdd
  <1> DEFINE g == max_vruntime(v.se[s].vruntime, (v.rq[c].min_vruntime + debit) % VMod)
  <1>7. g = z % VMod
    <2>1. max_vruntime(X[s] % VMod, p % VMod) = z % VMod
      BY <1>2, <1>4, MaxExact
    <2> QED BY <1>5, <1>6, <2>1
  <1>8. place_entity(v, c, s, TRUE) = [v EXCEPT !.se[s].vruntime = g]
    BY <1>1 DEF place_entity, VType, debit
  <1>9. place_entity(v, c, s, TRUE) = Revalued(v, s, z)
    BY <1>7, <1>8 DEF Revalued
  <1> HIDE DEF z
  <1> QED BY <1>4, <1>9

\* The running task gets another vruntime near min_vruntime.
LEMMA SetRunning ==
  ASSUME NEW v, NEW M, NEW X, NEW e, NEW B, NEW A, Good(v, M, X, e, B, A),
         NEW c \in Cpus, NEW k \in OnRq(v, c), v.rq[c].curr = k, v.rq[c].delta = 0,
         NEW B2 \in 0 .. Reach, B + Horizon(e) <= B2,
         NEW x \in Int, M[c] - thresh <= x, x <= M[c] + Horizon(e)
  PROVE  LET r  == Revalued(v, k, x)
             X2 == [X EXCEPT ![k] = x]
         IN  /\ Good(r, M, X2, e, B2, A) /\ r.rq = v.rq /\ Local(v, M, X, r, M, X2, A, c, None)
             /\ \A t \in Tasks : t # k => r.se[t] = v.se[t]
  <1> DEFINE q  == [v.se[k] EXCEPT !.vruntime = x % VMod]
             r  == WithSe(v, k, q)
             X2 == [X EXCEPT ![k] = x]
  <1>1. /\ Typed(v, M, X, e, B, A) /\ v \in VType /\ M \in [Cpus -> Int] /\ X \in [Tasks -> Int]
        /\ CpuOk(v, M, X, e, B, A, c) /\ A \in SUBSET Tasks
    BY DEF Good, Typed
  <1>2. k \in Tasks /\ v.se[k].cpu = c /\ v.se[k].on_rq /\ k \in A /\ v.se[k] \in SeType
    BY <1>1, TimelineFacts, Parts
  <1>3. q \in SeType /\ q.cpu = c /\ q.on_rq = v.se[k].on_rq /\ q.vruntime = x % VMod
        /\ q.state = v.se[k].state /\ q.weight = v.se[k].weight
    <2>1. x % VMod \in 0 .. VMod - 1
      BY WordTyped
    <2> QED BY <1>2, <2>1 DEF SeType
  <1>4. Revalued(v, k, x) = r
    BY <1>1, <1>2 DEF Revalued, WithSe, VType
  <1> HIDE DEF q
  <1>5. r \in VType /\ r.rq = v.rq /\ r.se[k] = q /\ \A t \in Tasks : t # k => r.se[t] = v.se[t]
    BY <1>1, <1>2, <1>3, WithSeFacts
  <1>6. X2 \in [Tasks -> Int] /\ X2[k] = x /\ \A t \in Tasks : t # k => X2[t] = X[t]
    BY <1>1, <1>2
  <1>7. k \notin ToSet(v.rq[c].timeline)
    BY TimelineFacts
  <1>8. TaskOk(r, M, X2, e, B2, A, c, k)
    <2>1. Pend(r, c, k) = 0
      <3>1. NICE_0_LOAD * 0 = 0
        BY SliceAssumption
      <3> QED BY <1>5, <3>1 DEF Pend
    <2>2. /\ M[c] \in Int /\ InitMin[c] \in Nat /\ thresh \in Nat /\ B \in Nat /\ B2 \in Nat /\ Horizon(e) \in Nat
          /\ InitMin[c] <= M[c] /\ M[c] <= InitMin[c] + B
      BY <1>1, TypedFacts DEF CpuOk, MinOk
    <2>3. X2[k] + 0 = x /\ x >= InitMin[c] - thresh /\ x <= InitMin[c] + B2 /\ x >= M[c] - thresh
      BY <1>6, <2>2
    <2> HIDE DEF r, X2
    <2> QED BY <1>2, <1>3, <1>5, <1>6, <2>1, <2>3 DEF TaskOk
  <1>9. B <= B2
    BY <1>1, TypedFacts
  <1>10. Good(r, M, X2, e, B2, A)
    <2> HIDE DEF r, X2
    <2>1. Good(WithSe(v, k, q), M, [X EXCEPT ![k] = x], e, B2, A)
      BY <1>1, <1>2, <1>3, <1>7, <1>8, <1>9, Retask DEF r, X2
    <2> QED BY <2>1 DEF r, X2
  <1> HIDE DEF r, X2
  <1>11. Local(v, M, X, r, M, X2, A, c, None)
    <2>1. \A d \in Cpus : M[d] <= M[d]
      BY <1>1
    <2>2. SameTask(v, r, k)
      BY <1>2, <1>3, <1>5 DEF SameTask
    <2>3. \A t \in Tasks : SameTask(v, r, t) /\ (t \notin A => X2[t] = X[t])
      BY <1>2, <1>5, <1>6, <2>2 DEF SameTask
    <2> QED BY <1>5, <2>1, <2>3 DEF Local
  <1> DEFINE u == Revalued(v, k, x)
  <1>12. u = r
    BY <1>4
  <1> HIDE DEF u
  <1>13. /\ Good(u, M, X2, e, B2, A) /\ u.rq = v.rq /\ Local(v, M, X, u, M, X2, A, c, None)
         /\ \A t \in Tasks : t # k => u.se[t] = v.se[t]
    BY <1>5, <1>10, <1>11, <1>12
  <1> QED BY <1>13 DEF X2, u

\* What holds with less room for min_vruntime holds with more.
LEMMA Widen ==
  ASSUME NEW v, NEW M, NEW X, NEW e, NEW B, NEW A, Good(v, M, X, e, B, A), NEW B2 \in 0 .. Reach, B <= B2
  PROVE  Good(v, M, X, e, B2, A)
  <1>1. Typed(v, M, X, e, B, A) /\ Typed(v, M, X, e, B2, A)
    BY DEF Good, Typed
  <1>2. ASSUME NEW c \in Cpus PROVE CpuOk(v, M, X, e, B2, A, c)
    <2>1. CpuOk(v, M, X, e, B, A, c)
      BY DEF Good
    <2>2. B \in Int /\ B2 \in Int /\ InitMin[c] \in Int /\ M[c] \in Int
      BY <1>1, TypedFacts
    <2>3. MinOk(v, M, B2, c)
      BY <2>1, <2>2 DEF CpuOk, MinOk
    <2>4. ASSUME NEW t \in Tasks, v.se[t].cpu = c PROVE TaskOk(v, M, X, e, B2, A, c, t)
      <3>1. TaskOk(v, M, X, e, B, A, c, t)
        BY <2>1, <2>4 DEF CpuOk
      <3>2. X[t] + Pend(v, c, t) \in Int
        <4>1. X[t] \in Int /\ Pend(v, c, t) \in Nat
          BY <1>1, TypedFacts
        <4> QED BY <4>1
      <3> DEFINE y == X[t] + Pend(v, c, t)
      <3>3. t \in A => y <= InitMin[c] + B
        BY <3>1 DEF TaskOk
      <3>4. t \in A => y <= InitMin[c] + B2
        <4> HIDE DEF y
        <4> QED BY <2>2, <3>2, <3>3 DEF y
      <3> QED BY <3>1, <3>4 DEF TaskOk
    <2> QED BY <2>1, <2>3, <2>4 DEF CpuOk
  <1> QED BY <1>1, <1>2 DEF Good

\* The child may change places with its parent.
Swapped(v, k, s) ==
  LET v4 == [v EXCEPT !.se[s].vruntime = v.se[k].vruntime]
  IN  [v4 EXCEPT !.se[k].vruntime = v.se[s].vruntime]

\* Parent and child may swap their vruntimes for the child to run first.
LEMMA FamilyGood ==
  ASSUME NEW v, NEW M, NEW X, NEW e, NEW B, NEW A, Good(v, M, X, e, B, A),
         NEW c \in Cpus, NEW s \in Tasks \ A, v.se[s].cpu = c, ~v.se[s].on_rq,
         NEW k \in OnRq(v, c), v.rq[c].curr = k, v.rq[c].delta = 0,
         M[c] - thresh <= X[s], X[s] <= M[c] + Horizon(e),
         NEW B2 \in 0 .. Reach, B + Horizon(e) <= B2,
         NEW r, r = v \/ r = resched_curr(Swapped(v, k, s), c)
  PROVE  \E X2 \in [Tasks -> Int] :
           /\ Good(r, M, X2, e, B2, A) /\ Local(v, M, X, r, M, X2, A, c, s)
           /\ SameCurr(v, r, c) /\ SameTask(v, r, s)
           /\ M[c] - thresh <= X2[s] /\ X2[s] <= M[c] + Horizon(e)
  <1>1. /\ Typed(v, M, X, e, B, A) /\ v \in VType /\ M \in [Cpus -> Int] /\ X \in [Tasks -> Int]
        /\ CpuOk(v, M, X, e, B, A, c)
    BY DEF Good, Typed
  <1>2. k \in Tasks /\ v.se[k].cpu = c /\ v.se[k].on_rq /\ k \in A /\ k # s
    BY TimelineFacts
  <1>3. /\ B \in Nat /\ B2 \in Nat /\ Horizon(e) \in Nat /\ B <= B2 /\ X[k] \in Int /\ X[s] \in Int /\ M[c] \in Int
        /\ thresh \in Nat
    BY <1>1, <1>2, TypedFacts
  <1>4. CASE r = v
    <2>1. Good(v, M, X, e, B2, A)
      BY <1>3, Widen
    <2>2. Local(v, M, X, v, M, X, A, c, s)
      BY <1>1 DEF Local, SameTask
    <2> QED BY <1>1, <1>4, <2>1, <2>2 DEF SameCurr, SameTask
  <1>5. CASE r = resched_curr(Swapped(v, k, s), c)
    <2> DEFINE x  == X[k]
               z  == X[s]
               X1 == [X EXCEPT ![s] = x]
               X2 == [X1 EXCEPT ![k] = z]
               v4 == Revalued(v, s, x)
               v5 == Revalued(v4, k, z)
    <2>1. v.se[k].vruntime = x % VMod /\ v.se[s].vruntime = z % VMod
      BY <1>1, <1>2 DEF CpuOk, TaskOk
    <2>2. Swapped(v, k, s) = v5
      BY <2>1 DEF Swapped, Revalued
    <2>x. X1 \in [Tasks -> Int] /\ X2 \in [Tasks -> Int] /\ X1[s] = x /\ X2[s] = x /\ x \in Int /\ z \in Int
      BY <1>1, <1>2, <1>3
    <2>3. /\ Good(v4, M, X1, e, B, A) /\ v4.rq = v.rq /\ SameTask(v, v4, s)
          /\ \A t \in Tasks : t # s => v4.se[t] = v.se[t]
          /\ Local(v, M, X, v4, M, X1, A, c, s)
      <3>1. v.rq[v.se[s].cpu].curr # s
        BY <1>2
      <3> HIDE DEF x, z
      <3>2. LET q == Revalued(v, s, x)
            IN  /\ Good(q, M, [X EXCEPT ![s] = x], e, B, A \ {s})
                /\ q.rq = v.rq /\ SameTask(v, q, s) /\ \A t \in Tasks : t # s => q.se[t] = v.se[t]
                /\ \A d : Local(v, M, X, q, M, [X EXCEPT ![s] = x], A, d, s)
        BY <2>x, <3>1, SetValue
      <3>3. A \ {s} = A
        OBVIOUS
      <3> HIDE DEF v4
      <3> QED BY <3>2, <3>3 DEF v4
    <2> HIDE DEF v4, X1
    <2>4. /\ Good(v5, M, X2, e, B2, A) /\ v5.rq = v4.rq /\ Local(v4, M, X1, v5, M, X2, A, c, None)
          /\ \A t \in Tasks : t # k => v5.se[t] = v4.se[t]
      <3>1. k \in OnRq(v4, c) /\ v4.rq[c].curr = k /\ v4.rq[c].delta = 0
        BY <1>2, <2>3 DEF OnRq
      <3>2. Good(v4, M, X1, e, B, A) /\ M[c] - thresh <= z /\ z <= M[c] + Horizon(e) /\ z \in Int
        BY <2>3, <2>x
      <3> HIDE DEF z, x
      <3> QED BY <3>1, <3>2, SetRunning
    <2> HIDE DEF v5, X2
    <2>5. /\ Good(r, M, X2, e, B2, A) /\ Local(v5, M, X2, r, M, X2, A, c, None) /\ r.se = v5.se
          /\ SameCurr(v5, r, c)
      BY <1>5, <2>2, <2>4, ReschedGood
    <2>6. Local(v, M, X, r, M, X2, A, c, s)
      <3>1. Local(v4, M, X1, v5, M, X2, A, c, s) /\ Local(v5, M, X2, r, M, X2, A, c, s)
        BY <1>1, <2>4, <2>5, LocalWiden
      <3>2. Local(v, M, X, v5, M, X2, A, c, s)
        BY <1>1, <2>3, <3>1, LocalTrans
      <3> QED BY <1>1, <3>1, <3>2, LocalTrans
    <2>7. SameCurr(v, r, c) /\ SameTask(v, r, s)
      BY <1>2, <2>3, <2>4, <2>5 DEF SameCurr, SameTask
    <2>8. M[c] - thresh <= X2[s] /\ X2[s] <= M[c] + Horizon(e)
      <3>1. TaskOk(v, M, X, e, B, A, c, k) /\ Pend(v, c, k) \in Nat
        BY <1>1, <1>2, TypedFacts DEF CpuOk
      <3>2. X[k] >= M[c] - thresh /\ X[k] + Pend(v, c, k) <= M[c] + Horizon(e)
        BY <1>2, <3>1 DEF TaskOk
      <3> QED BY <1>3, <2>x, <3>1, <3>2
    <2> QED BY <2>x, <2>5, <2>6, <2>7, <2>8
  <1> QED BY <1>4, <1>5

\* A task is forked, up to the normalisation of its vruntime.
Child(v, w, c, s) ==
  LET curr == v.rq[c].curr
  IN  [w EXCEPT !.se[s] = [@ EXCEPT !.state = "new", !.cpu = c,
                             !.vruntime = w.se[curr].vruntime, !.weight = v.se[curr].weight]]
Family(v, c, s) ==
  LET curr == v.rq[c].curr
      v3   == place_entity(Child(v, update_curr(v, c), c, s), c, s, TRUE)
  IN  IF child_runs_first /\ entity_before(v3, curr, s) THEN resched_curr(Swapped(v3, curr, s), c) ELSE v3

\* A child is placed from its parent's vruntime, may swap it, and is made relative.
LEMMA ForkedGood ==
  ASSUME NEW v, NEW M, NEW X, NEW e, NEW B, NEW A, Good(v, M, X, e, B, A),
         NEW c \in Cpus, v.rq[c].curr \in OnRq(v, c),
         NEW s \in Tasks \ A, ~v.se[s].on_rq, \A d \in Cpus : v.rq[d].curr # s,
         NEW B2 \in 0 .. Reach, B + Horizon(e) <= B2
  PROVE  \E M2 \in [Cpus -> Int], X2 \in [Tasks -> Int] :
           LET r == Normalise(Family(v, c, s), c, s)
           IN  /\ Good(r, M2, X2, e, B2, A) /\ Local(v, M, X, r, M2, X2, A, c, s)
               /\ r.se[s].state = "new" /\ ~r.se[s].on_rq /\ SameCurr(v, r, c)
               /\ -thresh <= X2[s] /\ X2[s] <= Horizon(e)
  <1> DEFINE k  == v.rq[c].curr
             v1 == update_curr(v, c)
             v2 == Child(v, v1, c, s)
             v3 == place_entity(v2, c, s, TRUE)
             u  == Family(v, c, s)
             r  == Normalise(u, c, s)
  <1>1. /\ v \in VType /\ M \in [Cpus -> Int] /\ X \in [Tasks -> Int] /\ e \in 0 .. MaxTime
        /\ k \in Tasks /\ v.se[k].cpu = c /\ v.se[k].on_rq /\ k # s /\ k # None /\ s \in Tasks
    BY NoneFacts DEF Good, Typed, OnRq
  <1>2. PICK M1 \in [Cpus -> Int], X1 \in [Tasks -> Int] :
          /\ Good(v1, M1, X1, e, B, A) /\ Local(v, M, X, v1, M1, X1, A, c, None)
          /\ OnlyOf(X, X1, v.rq[c].curr)
    BY UpdateCurrGood
  <1>3. /\ v1 \in VType /\ SameCurr(v, v1, c) /\ SameTask(v, v1, s) /\ SameTask(v, v1, k)
        /\ v1.rq[c].delta = 0 /\ \A d \in Cpus : d # c => v1.rq[d] = v.rq[d]
    BY <1>1, UpdateCurrFacts DEF Keeps, SameQueue, SameCurr
  <1> HIDE DEF v1
  <1>4. /\ k \in A /\ X1[k] \in Int /\ v1.se[k].vruntime = X1[k] % VMod
        /\ M1[c] - thresh <= X1[k] /\ X1[k] <= M1[c] + Horizon(e)
        /\ M1[c] \in Int /\ Horizon(e) \in Nat /\ thresh \in Nat
    <2>1. v1.se[k].cpu = c /\ v1.se[k].on_rq /\ Typed(v1, M1, X1, e, B, A) /\ CpuOk(v1, M1, X1, e, B, A, c)
      BY <1>1, <1>2, <1>3 DEF Good, SameTask
    <2>2. TaskOk(v1, M1, X1, e, B, A, c, k) /\ Pend(v1, c, k) \in Nat /\ X1[k] \in Int /\ M1[c] \in Int
          /\ Horizon(e) \in Nat /\ thresh \in Nat
      BY <1>1, <2>1, TypedFacts DEF CpuOk
    <2>3. k \in A /\ X1[k] >= M1[c] - thresh /\ X1[k] + Pend(v1, c, k) <= M1[c] + Horizon(e)
      BY <2>1, <2>2 DEF TaskOk
    <2> QED BY <2>2, <2>3 DEF TaskOk
  <1> DEFINE q  == [v1.se[s] EXCEPT !.state = "new", !.cpu = c,
                      !.vruntime = v1.se[k].vruntime, !.weight = v.se[k].weight]
             x  == X1[k]
             X2 == [X1 EXCEPT ![s] = x]
  <1>5. /\ q \in SeType /\ q.state = "new" /\ q.cpu = c /\ ~q.on_rq /\ q.vruntime = x % VMod
        /\ v2 = WithSe(v1, s, q)
    <2>1. v1.se[s] \in SeType /\ v1.se[k] \in SeType /\ v.se[k] \in SeType /\ "new" \in States
      BY <1>1, <1>3, Parts DEF States
    <2>2. v2 = WithSe(v1, s, q)
      BY <1>1, <1>3 DEF Child, WithSe, VType
    <2>3. ~v1.se[s].on_rq
      BY <1>3 DEF SameTask
    <2> QED BY <1>1, <1>4, <2>1, <2>2, <2>3 DEF SeType
  <1> HIDE DEF q, v2
  <1>6. \A d \in Cpus : v1.rq[d].curr # s
    BY <1>1, <1>3 DEF SameCurr
  <1>7. /\ Good(v2, M1, X2, e, B, A) /\ v2.rq = v1.rq /\ v2.se[s] = q
        /\ \A t \in Tasks : t # s => v2.se[t] = v1.se[t]
        /\ Local(v1, M1, X1, v2, M1, X2, A, c, s) /\ X2 \in [Tasks -> Int] /\ X2[s] = x
    <2>1. Good(v1, M1, X1, e, B, A) /\ ~v1.se[s].on_rq /\ x \in Int
      BY <1>2, <1>3, <1>4 DEF SameTask
    <2>2. X2 \in [Tasks -> Int] /\ X2[s] = x
      BY <1>1, <1>4
    <2> HIDE DEF x, X2
    <2>3. LET w  == WithSe(v1, s, q)
              Y == [X1 EXCEPT ![s] = x]
          IN  /\ Good(w, M1, Y, e, B, A) /\ w.rq = v1.rq /\ w.se[s] = q
              /\ \A t \in Tasks : t # s => w.se[t] = v1.se[t]
              /\ \A d \in Cpus : Local(v1, M1, X1, w, M1, Y, A, d, s)
      BY <1>5, <1>6, <2>1, Renew
    <2> QED BY <1>5, <2>2, <2>3 DEF X2
  <1> HIDE DEF x, X2
  <1>8. PICK z \in Int : v3 = Revalued(v2, s, z) /\ M1[c] - thresh <= z /\ z <= M1[c] + Horizon(e)
    <2>1. Good(v2, M1, X2, e, B, A) /\ v2.se[s].cpu = c /\ ~v2.se[s].on_rq
          /\ M1[c] - thresh <= X2[s] /\ X2[s] <= M1[c] + Horizon(e) /\ s \in Tasks
      BY <1>1, <1>4, <1>5, <1>7 DEF x
    <2>2. 2 * (M1[c] + MaxDebit - X2[s]) < VMod
      <3>1. Typed(v2, M1, X2, e, B, A)
        BY <2>1 DEF Good
      <3>2. /\ M1[c] \in Int /\ X2[s] \in Int /\ MaxDebit \in Nat /\ Horizon(e) \in Nat /\ Reach \in Nat
            /\ thresh \in Nat /\ VMod \in Nat /\ MaxDebit <= Horizon(e) /\ Horizon(e) <= Reach
            /\ VMod > 4 * (thresh + Reach)
        BY <2>1, <3>1, TypedFacts
      <3> QED BY <2>1, <3>2
    <2> QED BY <2>1, <2>2, PlaceInitial
  <1> HIDE DEF v3
  <1> DEFINE X3 == [X2 EXCEPT ![s] = z]
  <1>9. /\ Good(v3, M1, X3, e, B, A) /\ v3.rq = v2.rq /\ SameTask(v2, v3, s)
        /\ \A t \in Tasks : t # s => v3.se[t] = v2.se[t]
        /\ Local(v2, M1, X2, v3, M1, X3, A, c, s) /\ X3 \in [Tasks -> Int] /\ X3[s] = z
    <2>1. Good(v2, M1, X2, e, B, A) /\ ~v2.se[s].on_rq /\ v2.rq[v2.se[s].cpu].curr # s /\ s \in Tasks
      BY <1>1, <1>5, <1>6, <1>7
    <2>2. X3 \in [Tasks -> Int] /\ X3[s] = z
      BY <1>1, <1>7
    <2> HIDE DEF X3
    <2>3. LET w == Revalued(v2, s, z)
          IN  /\ Good(w, M1, [X2 EXCEPT ![s] = z], e, B, A \ {s})
              /\ w.rq = v2.rq /\ SameTask(v2, w, s) /\ \A t \in Tasks : t # s => w.se[t] = v2.se[t]
              /\ \A d : Local(v2, M1, X2, w, M1, [X2 EXCEPT ![s] = z], A, d, s)
      BY <2>1, SetValue
    <2>4. A \ {s} = A
      OBVIOUS
    <2> QED BY <1>8, <2>2, <2>3, <2>4 DEF X3
  <1> HIDE DEF X3
  <1>10. /\ v3.se[s].cpu = c /\ ~v3.se[s].on_rq /\ v3.se[s].state = "new" /\ v3.rq = v1.rq
         /\ k \in OnRq(v3, c) /\ v3.rq[c].curr = k /\ v3.rq[c].delta = 0
    <2>1. v3.se[s].cpu = c /\ ~v3.se[s].on_rq /\ v3.se[s].state = "new" /\ v3.rq = v1.rq
      BY <1>5, <1>7, <1>9 DEF SameTask
    <2>2. v3.se[k].cpu = c /\ v3.se[k].on_rq
      BY <1>1, <1>3, <1>7, <1>9, ZenonT(40) DEF SameTask
    <2>3. k \in OnRq(v3, c)
      BY <1>1, <2>2 DEF OnRq
    <2>4. v1.rq[c].curr = k /\ v1.rq[c].delta = 0
      BY <1>3 DEF SameCurr
    <2> QED BY <2>1, <2>3, <2>4
  <1>11. u = v3 \/ u = resched_curr(Swapped(v3, k, s), c)
    BY DEF Family, v3, v2, v1
  <1> HIDE DEF u
  <1>12. PICK X4 \in [Tasks -> Int] :
           /\ Good(u, M1, X4, e, B2, A) /\ Local(v3, M1, X3, u, M1, X4, A, c, s)
           /\ SameCurr(v3, u, c) /\ SameTask(v3, u, s)
           /\ M1[c] - thresh <= X4[s] /\ X4[s] <= M1[c] + Horizon(e)
    <2>1. /\ Good(v3, M1, X3, e, B, A) /\ M1[c] - thresh <= X3[s] /\ X3[s] <= M1[c] + Horizon(e)
          /\ s \in Tasks \ A
      BY <1>8, <1>9
    <2> HIDE DEF k
    <2> QED BY <1>10, <1>11, <2>1, FamilyGood
  <1> DEFINE y  == X4[s] - M1[c]
             X5 == [X4 EXCEPT ![s] = y]
  <1>13. r = Revalued(u, s, y) /\ y \in Int
    <2>1. Good(u, M1, X4, e, B2, A) /\ c \in Cpus /\ s \in Tasks
      BY <1>12
    <2> QED BY <2>1, Relative
  <1> HIDE DEF r
  <1>14. /\ Good(r, M1, X5, e, B2, A) /\ r.rq = u.rq /\ SameTask(u, r, s)
         /\ Local(u, M1, X4, r, M1, X5, A, c, s) /\ X5 \in [Tasks -> Int] /\ X5[s] = y
    <2>1. Good(u, M1, X4, e, B2, A) /\ ~u.se[s].on_rq /\ u.rq[u.se[s].cpu].curr # s /\ s \in Tasks
      BY <1>1, <1>10, <1>12 DEF SameCurr, SameTask
    <2>2. X5 \in [Tasks -> Int] /\ X5[s] = y
      BY <1>1, <1>13
    <2> HIDE DEF X5, y
    <2>3. LET w == Revalued(u, s, y)
          IN  /\ Good(w, M1, [X4 EXCEPT ![s] = y], e, B2, A \ {s})
              /\ w.rq = u.rq /\ SameTask(u, w, s) /\ \A t \in Tasks : t # s => w.se[t] = u.se[t]
              /\ \A d : Local(u, M1, X4, w, M1, [X4 EXCEPT ![s] = y], A, d, s)
      BY <1>13, <2>1, SetValue
    <2>4. A \ {s} = A
      OBVIOUS
    <2> QED BY <1>13, <2>2, <2>3, <2>4 DEF X5
  <1>15. -thresh <= X5[s] /\ X5[s] <= Horizon(e)
    <2>1. X4[s] \in Int
      BY <1>1
    <2> QED BY <1>4, <1>12, <1>14, <2>1
  <1> HIDE DEF X5, y
  <1>16. Local(v, M, X, r, M1, X5, A, c, s)
    <2>1. Local(v, M, X, v1, M1, X1, A, c, s)
      BY <1>1, <1>2, LocalWiden
    <2>2. Local(v, M, X, v2, M1, X2, A, c, s)
      BY <1>1, <1>2, <1>7, <2>1, LocalTrans
    <2>3. Local(v, M, X, v3, M1, X3, A, c, s)
      BY <1>1, <1>2, <1>9, <2>2, LocalTrans
    <2>4. Local(v, M, X, u, M1, X4, A, c, s)
      BY <1>1, <1>2, <1>12, <2>3, LocalTrans
    <2> QED BY <1>1, <1>2, <1>14, <2>4, LocalTrans
  <1>17. r.se[s].state = "new" /\ ~r.se[s].on_rq /\ SameCurr(v, r, c)
    BY <1>3, <1>10, <1>12, <1>14 DEF SameCurr, SameTask
  <1> QED BY <1>14, <1>15, <1>16, <1>17 DEF r, u

\* task_fork_fair.
LEMMA ForkEffect ==
  ASSUME NEW v, NEW M, NEW X, NEW e, NEW m, Sound(v, M, X, e, m), NEW s \in Tasks, NEW c \in Cpus,
         v.se[s].state = "unborn", v.rq[c].curr # None, v.rq[c].pc = "run"
  PROVE  Effect(v, M, Normalise(Family(v, c, s), c, s), e, m)
  <1> DEFINE B == Bound(v, e, m)
             A == Timed(v)
             u == State(v, s, "new")
             B2 == Bound(u, e, m)
             r == Normalise(Family(v, c, s), c, s)
  <1>1. /\ Good(v, M, X, e, B, A) /\ v \in VType /\ M \in [Cpus -> Int] /\ X \in [Tasks -> Int]
        /\ e \in 0 .. MaxTime /\ m \in 0 .. MaxMoves /\ B \in 0 .. Reach
        /\ v.se[s] \in SeType /\ TaskFits(v, X, e, B, s)
        /\ \A d \in Cpus : CurrFits(v, d) /\ (v.rq[d].curr # None => v.se[v.rq[d].curr].cpu = d
                                                /\ v.rq[d].curr \in A /\ v.rq[d].curr \in Tasks)
    BY SoundFacts
  <1>2. ~v.se[s].on_rq /\ s \notin A /\ s \in Tasks \cup {None}
    BY <1>1 DEF TaskFits, Timed
  <1>3. \A d \in Cpus : v.rq[d].curr # s
    BY <1>1, <1>2, NoneFacts
  <1>4. v.rq[c].curr \in OnRq(v, c)
    BY <1>1 DEF CurrFits, OnRq
  <1>5. u.se[s].state = "new" /\ \A t \in Tasks \ {s} : u.se[t].state = v.se[t].state
    <2>1. "new" \in States
      BY DEF States
    <2>2. u.se[s].state = "new" /\ \A t \in Tasks : t # s => u.se[t] = v.se[t]
      BY <1>1, <2>1, Restate
    <2> QED BY <2>2
  <1> HIDE DEF u
  <1>6. /\ Timed(u) = A /\ B2 \in 0 .. Reach /\ B <= B2 /\ B + Horizon(e) <= B2
    <2>1. u.se[s].state # "runnable" /\ m <= m
      BY <1>1, <1>5
    <2> QED BY <1>1, <1>5, <2>1, Arrives
  <1>7. PICK M2 \in [Cpus -> Int], X2 \in [Tasks -> Int] :
          /\ Good(r, M2, X2, e, B2, A) /\ Local(v, M, X, r, M2, X2, A, c, s)
          /\ r.se[s].state = "new" /\ ~r.se[s].on_rq /\ SameCurr(v, r, c)
          /\ -thresh <= X2[s] /\ X2[s] <= Horizon(e)
    <2> HIDE DEF B, B2, A
    <2>1. Good(v, M, X, e, B, A) /\ s \in Tasks \ A
      BY <1>1, <1>2
    <2> QED BY <1>2, <1>3, <1>4, <1>6, <2>1, ForkedGood
  <1> HIDE DEF r
  <1>10. Timed(r) = A /\ Bound(r, e, m) = B2
    <2>1. \A t \in Tasks \ {s} : r.se[t].state = v.se[t].state
      BY <1>7 DEF Local, SameTask
    <2>2. \A t \in Tasks : r.se[t].state = u.se[t].state
      BY <1>5, <1>7, <2>1
    <2>3. Timed(r) = Timed(u) /\ Born(r) = Born(u)
      BY <2>2 DEF Timed, Born
    <2> QED BY <1>6, <2>3 DEF Bound, Arrivals
  <1>11. TaskFits(r, X2, e, Bound(r, e, m), s)
    BY <1>7 DEF TaskFits
  <1>13. CurrFits(r, c) /\ Turn(v, r, c, s)
    <2>1. v.rq[c].curr # None => SameTask(v, r, v.rq[c].curr)
      <3>1. v.rq[c].curr \in Tasks \cup {None}
        BY <1>1, Parts DEF RqType
      <3> QED BY <1>3, <1>7, <3>1 DEF Local
    <2>2. r.rq[c].curr = v.rq[c].curr /\ r.rq[c].pc = v.rq[c].pc
      BY <1>7 DEF SameCurr
    <2> QED BY <1>1, <2>1, <2>2 DEF Turn, CurrFits, SameTask
  <1>14. \A d \in Cpus \ {c} : v.rq[d].curr # s
    BY <1>3
  <1>15. /\ Good(r, M2, X2, e, Bound(r, e, m), Timed(r)) /\ Local(v, M, X, r, M2, X2, Timed(v), c, s)
         /\ Bound(v, e, m) <= Bound(r, e, m) /\ e <= e
    BY <1>1, <1>6, <1>7, <1>10
  <1> HIDE DEF A, B, B2
  <1>16. Effect(v, M, r, e, m)
    BY <1>1, <1>2, <1>11, <1>13, <1>14, <1>15, Stepped
  <1> QED BY <1>16 DEF r

\* The vruntime of 0 as a number: not ahead of a new task's place, nor so far behind it that
\* the sign of the difference tells the wrong thing.
LEMMA ZeroFacts ==
  ASSUME NEW v, NEW M, NEW X, NEW e, NEW B, NEW A, Good(v, M, X, e, B, A),
         NEW c \in Cpus, B + Horizon(e) <= Reach
  PROVE  \E x \in Int : /\ x % VMod = 0 /\ x <= M[c] + Horizon(e)
                        /\ 2 * (M[c] + MaxDebit - x) < VMod
  <1> DEFINE d == (-InitMin[c]) % VMod
             g == Diff(0, InitMin[c])
             x == InitMin[c] + g
  <1>1. /\ M[c] \in Int /\ InitMin[c] \in Nat /\ B \in Nat /\ Horizon(e) \in Nat /\ Reach \in Nat
        /\ MaxDebit \in Nat /\ MaxDebit <= Horizon(e) /\ thresh \in Nat /\ VMod \in Nat
        /\ VMod > 4 * (thresh + Reach)
        /\ InitMin[c] <= M[c] /\ M[c] <= InitMin[c] + B
    <2>1. Typed(v, M, X, e, B, A) /\ MinOk(v, M, B, c)
      BY DEF Good, CpuOk
    <2> QED BY <2>1, TypedFacts DEF MinOk
  <1>2. d \in 0 .. VMod - 1 /\ (d + InitMin[c]) % VMod = 0
    <2> DEFINE n == -InitMin[c]
               i == InitMin[c]
    <2>1. n \in Int /\ i \in Int
      BY <1>1
    <2>2. d \in 0 .. VMod - 1
      BY <2>1, WordTyped
    <2>3. ((n % VMod) + i) % VMod = (n + i) % VMod
      <3> HIDE DEF n, i
      <3> QED BY <2>1, ModAdd
    <2>4. -InitMin[c] + InitMin[c] = 0
      BY <1>1
    <2>5. 0 % VMod = 0
      <3>1. VMod \in Nat \ {0}
        BY CfsRqAssumption
      <3> QED BY <3>1
    <2> QED BY <2>2, <2>3, <2>4, <2>5
  <1>3. g = IF 2 * d >= VMod THEN d - VMod ELSE d
    <2>1. 0 - InitMin[c] = -InitMin[c]
      BY <1>1
    <2> QED BY <2>1 DEF Diff
  <1> HIDE DEF d
  <1>4. g \in Int /\ x \in Int /\ x % VMod = 0
    <2>1. g = d \/ g = d - VMod
      BY <1>3
    <2>2. d \in Int /\ g \in Int
      BY <1>1, <1>2, <2>1
    <2> HIDE DEF g
    <2>3. CASE g = d
      <3>1. x = d + InitMin[c]
        BY <1>1, <2>2, <2>3
      <3> QED BY <1>1, <1>2, <2>2, <3>1
    <2>4. CASE g = d - VMod
      <3>1. x = (d + InitMin[c]) + VMod * (-1) /\ d + InitMin[c] \in Int
        BY <1>1, <2>2, <2>4
      <3>2. x % VMod = (d + InitMin[c]) % VMod
        BY <3>1, ModShift
      <3> QED BY <1>1, <1>2, <2>2, <3>2
    <2> QED BY <2>1, <2>3, <2>4
  <1>5. g <= MaxDebit /\ 4 * g >= -VMod
    BY StartAssumption
  <1> HIDE DEF g
  <1>6. x <= M[c] + Horizon(e) /\ 2 * (M[c] + MaxDebit - x) < VMod
    BY <1>1, <1>4, <1>5
  <1> HIDE DEF x
  <1> QED BY <1>4, <1>6

\* A task is forked by one of another class.
Newborn(v, c, s) == [v EXCEPT !.se[s] = [@ EXCEPT !.state = "new", !.cpu = c,
                                           !.vruntime = 0, !.weight = NICE_0_LOAD]]
Orphan(v, c, s)  == Normalise(place_entity(Newborn(v, c, s), c, s, TRUE), c, s)

\* A child of no fair parent is placed from the vruntime of 0 and is made relative.
LEMMA OrphanGood ==
  ASSUME NEW v, NEW M, NEW X, NEW e, NEW B, NEW A, Good(v, M, X, e, B, A),
         NEW c \in Cpus, NEW s \in Tasks \ A, ~v.se[s].on_rq, \A d \in Cpus : v.rq[d].curr # s,
         NEW B2 \in 0 .. Reach, B + Horizon(e) <= B2
  PROVE  \E X2 \in [Tasks -> Int] :
           LET r == Orphan(v, c, s)
           IN  /\ Good(r, M, X2, e, B2, A) /\ Local(v, M, X, r, M, X2, A, c, s)
               /\ r.se[s].state = "new" /\ ~r.se[s].on_rq /\ SameCurr(v, r, c)
               /\ -thresh <= X2[s] /\ X2[s] <= Horizon(e)
  <1> DEFINE v1 == Newborn(v, c, s)
             v2 == place_entity(v1, c, s, TRUE)
             r  == Orphan(v, c, s)
             q  == [v.se[s] EXCEPT !.state = "new", !.cpu = c, !.vruntime = 0, !.weight = NICE_0_LOAD]
  <1>1. /\ v \in VType /\ M \in [Cpus -> Int] /\ X \in [Tasks -> Int] /\ s \in Tasks
        /\ M[c] \in Int /\ B \in Nat /\ B2 \in Nat /\ Horizon(e) \in Nat /\ thresh \in Nat /\ Reach \in Nat
    <2>1. Typed(v, M, X, e, B, A)
      BY DEF Good
    <2> QED BY <2>1, TypedFacts
  <1>2. PICK x \in Int : x % VMod = 0 /\ x <= M[c] + Horizon(e) /\ 2 * (M[c] + MaxDebit - x) < VMod
    <2>1. B + Horizon(e) <= Reach
      BY <1>1
    <2> QED BY <2>1, ZeroFacts
  <1>3. /\ q \in SeType /\ q.state = "new" /\ q.cpu = c /\ ~q.on_rq /\ q.vruntime = 0
        /\ v1 = WithSe(v, s, q)
    <2>1. v.se[s] \in SeType /\ "new" \in States /\ NICE_0_LOAD \in Weights /\ 0 \in 0 .. VMod - 1
      BY <1>1, Parts, CfsRqAssumption DEF States
    <2>2. v1 = WithSe(v, s, q)
      BY <1>1 DEF Newborn, WithSe, VType
    <2> QED BY <2>1, <2>2 DEF SeType
  <1> HIDE DEF q, v1
  <1> DEFINE X1 == [X EXCEPT ![s] = x]
  <1>4. /\ Good(v1, M, X1, e, B, A) /\ v1.rq = v.rq /\ v1.se[s] = q
        /\ Local(v, M, X, v1, M, X1, A, c, s) /\ X1 \in [Tasks -> Int] /\ X1[s] = x
    <2>1. X1 \in [Tasks -> Int] /\ X1[s] = x
      BY <1>1
    <2>3. Good(v, M, X, e, B, A) /\ ~q.on_rq /\ q \in SeType /\ q.vruntime = x % VMod
      BY <1>2, <1>3
    <2> HIDE DEF X1
    <2>2. LET w == WithSe(v, s, q)
              Y == [X EXCEPT ![s] = x]
          IN  /\ Good(w, M, Y, e, B, A) /\ w.rq = v.rq /\ w.se[s] = q
              /\ \A t \in Tasks : t # s => w.se[t] = v.se[t]
              /\ \A d \in Cpus : Local(v, M, X, w, M, Y, A, d, s)
      BY <2>3, Renew
    <2> QED BY <1>3, <2>1, <2>2 DEF X1
  <1> HIDE DEF X1
  <1>5. PICK z \in Int : v2 = Revalued(v1, s, z) /\ M[c] - thresh <= z /\ z <= M[c] + Horizon(e)
    <2>1. /\ Good(v1, M, X1, e, B, A) /\ v1.se[s].cpu = c /\ ~v1.se[s].on_rq /\ s \in Tasks
          /\ 2 * (M[c] + MaxDebit - X1[s]) < VMod /\ X1[s] <= M[c] + Horizon(e)
      BY <1>1, <1>2, <1>3, <1>4
    <2> QED BY <2>1, PlaceInitial
  <1> HIDE DEF v2
  <1> DEFINE X2 == [X1 EXCEPT ![s] = z]
  <1>6. /\ Good(v2, M, X2, e, B, A) /\ v2.rq = v1.rq /\ SameTask(v1, v2, s)
        /\ Local(v1, M, X1, v2, M, X2, A, c, s) /\ X2 \in [Tasks -> Int] /\ X2[s] = z
    <2>1. Good(v1, M, X1, e, B, A) /\ ~v1.se[s].on_rq /\ v1.rq[v1.se[s].cpu].curr # s /\ s \in Tasks
      BY <1>1, <1>3, <1>4
    <2>2. X2 \in [Tasks -> Int] /\ X2[s] = z
      BY <1>1, <1>4
    <2> HIDE DEF X2
    <2>3. LET w == Revalued(v1, s, z)
          IN  /\ Good(w, M, [X1 EXCEPT ![s] = z], e, B, A \ {s})
              /\ w.rq = v1.rq /\ SameTask(v1, w, s) /\ \A t \in Tasks : t # s => w.se[t] = v1.se[t]
              /\ \A d : Local(v1, M, X1, w, M, [X1 EXCEPT ![s] = z], A, d, s)
      BY <2>1, SetValue
    <2>4. A \ {s} = A
      OBVIOUS
    <2> QED BY <1>5, <2>2, <2>3, <2>4 DEF X2
  <1> HIDE DEF X2
  <1> DEFINE y  == X2[s] - M[c]
             X3 == [X2 EXCEPT ![s] = y]
  <1>7. r = Revalued(v2, s, y) /\ y \in Int
    <2>1. Good(v2, M, X2, e, B, A) /\ c \in Cpus /\ s \in Tasks
      BY <1>1, <1>6
    <2>2. r = Normalise(v2, c, s)
      BY DEF Orphan, v2, v1
    <2> QED BY <2>1, <2>2, Relative
  <1> HIDE DEF r
  <1>8. /\ Good(r, M, X3, e, B, A) /\ r.rq = v2.rq /\ SameTask(v2, r, s)
        /\ Local(v2, M, X2, r, M, X3, A, c, s) /\ X3 \in [Tasks -> Int] /\ X3[s] = y
    <2>1. Good(v2, M, X2, e, B, A) /\ ~v2.se[s].on_rq /\ v2.rq[v2.se[s].cpu].curr # s /\ s \in Tasks
      BY <1>1, <1>3, <1>4, <1>6 DEF SameTask
    <2>2. X3 \in [Tasks -> Int] /\ X3[s] = y
      BY <1>1, <1>6, <1>7
    <2> HIDE DEF X3, y
    <2>3. LET w == Revalued(v2, s, y)
          IN  /\ Good(w, M, [X2 EXCEPT ![s] = y], e, B, A \ {s})
              /\ w.rq = v2.rq /\ SameTask(v2, w, s) /\ \A t \in Tasks : t # s => w.se[t] = v2.se[t]
              /\ \A d : Local(v2, M, X2, w, M, [X2 EXCEPT ![s] = y], A, d, s)
      BY <1>7, <2>1, SetValue
    <2>4. A \ {s} = A
      OBVIOUS
    <2> QED BY <1>7, <2>2, <2>3, <2>4 DEF X3
  <1>9. -thresh <= X3[s] /\ X3[s] <= Horizon(e)
    BY <1>1, <1>5, <1>6, <1>8
  <1> HIDE DEF X3, y
  <1>10. Good(r, M, X3, e, B2, A)
    <2>1. B <= B2
      BY <1>1
    <2> QED BY <1>8, <2>1, Widen
  <1>11. Local(v, M, X, r, M, X3, A, c, s)
    <2>1. Local(v, M, X, v2, M, X2, A, c, s)
      BY <1>1, <1>4, <1>6, LocalTrans
    <2> QED BY <1>1, <1>8, <2>1, LocalTrans
  <1>12. r.se[s].state = "new" /\ ~r.se[s].on_rq /\ SameCurr(v, r, c)
    BY <1>3, <1>4, <1>6, <1>8 DEF SameCurr, SameTask
  <1> QED BY <1>8, <1>9, <1>10, <1>11, <1>12 DEF r

\* task_fork_fair without a fair current task.
LEMMA OrphanEffect ==
  ASSUME NEW v, NEW M, NEW X, NEW e, NEW m, Sound(v, M, X, e, m), NEW s \in Tasks, NEW c \in Cpus,
         v.se[s].state = "unborn", v.rq[c].curr = None, m < MaxMoves
  PROVE  Effect(v, M, Orphan(v, c, s), e, m + 1)
  <1> DEFINE B == Bound(v, e, m)
             A == Timed(v)
             u == State(v, s, "new")
             B2 == Bound(u, e, m + 1)
             r == Orphan(v, c, s)
  <1>1. /\ Good(v, M, X, e, B, A) /\ v \in VType /\ M \in [Cpus -> Int] /\ X \in [Tasks -> Int]
        /\ e \in 0 .. MaxTime /\ m \in 0 .. MaxMoves /\ B \in 0 .. Reach
        /\ v.se[s] \in SeType /\ TaskFits(v, X, e, B, s)
        /\ \A d \in Cpus : CurrFits(v, d) /\ (v.rq[d].curr # None => v.se[v.rq[d].curr].cpu = d
                                                /\ v.rq[d].curr \in A /\ v.rq[d].curr \in Tasks)
    BY SoundFacts
  <1>2. ~v.se[s].on_rq /\ s \notin A /\ s \in Tasks \cup {None} /\ m + 1 \in 0 .. MaxMoves /\ m <= m + 1
    BY <1>1, CfsRqAssumption DEF TaskFits, Timed
  <1>3. \A d \in Cpus : v.rq[d].curr # s
    BY <1>1, <1>2, NoneFacts
  <1>4. u.se[s].state = "new" /\ \A t \in Tasks \ {s} : u.se[t].state = v.se[t].state
    <2>1. "new" \in States
      BY DEF States
    <2>2. u.se[s].state = "new" /\ \A t \in Tasks : t # s => u.se[t] = v.se[t]
      BY <1>1, <2>1, Restate
    <2> QED BY <2>2
  <1> HIDE DEF u
  <1>5. /\ Timed(u) = A /\ B2 \in 0 .. Reach /\ B <= B2 /\ B + Horizon(e) <= B2
    <2>1. u.se[s].state # "runnable"
      BY <1>4
    <2> QED BY <1>1, <1>2, <1>4, <2>1, Arrives
  <1>6. PICK X2 \in [Tasks -> Int] :
          /\ Good(r, M, X2, e, B2, A) /\ Local(v, M, X, r, M, X2, A, c, s)
          /\ r.se[s].state = "new" /\ ~r.se[s].on_rq /\ SameCurr(v, r, c)
          /\ -thresh <= X2[s] /\ X2[s] <= Horizon(e)
    <2> HIDE DEF B, B2, A
    <2>1. Good(v, M, X, e, B, A) /\ s \in Tasks \ A
      BY <1>1, <1>2
    <2> QED BY <1>2, <1>3, <1>5, <2>1, OrphanGood
  <1> HIDE DEF r
  <1>7. Timed(r) = A /\ Bound(r, e, m + 1) = B2
    <2>1. \A t \in Tasks \ {s} : r.se[t].state = v.se[t].state
      BY <1>6 DEF Local, SameTask
    <2>2. \A t \in Tasks : r.se[t].state = u.se[t].state
      BY <1>4, <1>6, <2>1
    <2>3. Timed(r) = Timed(u) /\ Born(r) = Born(u)
      BY <2>2 DEF Timed, Born
    <2> QED BY <1>5, <2>3 DEF Bound, Arrivals
  <1>8. TaskFits(r, X2, e, Bound(r, e, m + 1), s)
    BY <1>6 DEF TaskFits
  <1>9. CurrFits(r, c) /\ Turn(v, r, c, s)
    <2>1. r.rq[c].curr = None /\ v.rq[c].curr = None /\ r.rq[c].pc = v.rq[c].pc /\ s # None
      BY <1>6, NoneFacts DEF SameCurr
    <2> QED BY <1>1, <2>1 DEF Turn, CurrFits
  <1>10. \A d \in Cpus \ {c} : v.rq[d].curr # s
    BY <1>3
  <1>11. /\ Good(r, M, X2, e, Bound(r, e, m + 1), Timed(r)) /\ Local(v, M, X, r, M, X2, Timed(v), c, s)
         /\ Bound(v, e, m) <= Bound(r, e, m + 1) /\ e <= e
    BY <1>1, <1>5, <1>6, <1>7
  <1> HIDE DEF A, B, B2
  <1>12. Effect(v, M, r, e, m + 1)
    BY <1>1, <1>2, <1>8, <1>9, <1>10, <1>11, Stepped
  <1> QED BY <1>12 DEF r

-----------------------------------------------------------------------------
(***************************************************************************)
(* A change of priority.                                                   *)
(***************************************************************************)

\* A queued task is taken off, gets another weight and is put back.
Replaced(v, s, weight) ==
  LET c  == v.se[s].cpu
      v1 == dequeue_entity(v, c, s, {"save"})
      v2 == IF v.rq[c].curr = s THEN put_prev_entity(v1, c, s) ELSE v1
      v3 == enqueue_entity(Reweighed(v2, s, weight), c, s, FALSE, FALSE)
  IN  IF v.rq[c].curr = s THEN set_next_entity(v3, c, s) ELSE v3

\* A task whose priority changes is dequeued and put back with another weight, also when it is
\* the current one.
LEMMA ReplaceGood ==
  ASSUME NEW v, NEW M, NEW X, NEW e, NEW B, NEW A, Good(v, M, X, e, B, A),
         NEW c \in Cpus, NEW s \in OnRq(v, c), NEW weight \in Weights,
         NEW B2 \in 0 .. Reach, B + Horizon(e) <= B2
  PROVE  \E M2 \in [Cpus -> Int], X2 \in [Tasks -> Int] :
           LET r == Replaced(v, s, weight)
           IN  /\ Good(r, M2, X2, e, B2, A) /\ Local(v, M, X, r, M2, X2, A, c, s)
               /\ s \in OnRq(r, c) /\ r.se[s].state = v.se[s].state /\ SameCurr(v, r, c)
  <1> DEFINE v1 == dequeue_entity(v, c, s, {"save"})
             v2 == IF v.rq[c].curr = s THEN put_prev_entity(v1, c, s) ELSE v1
             w  == Reweighed(v2, s, weight)
             v3 == enqueue_entity(w, c, s, FALSE, FALSE)
             r  == IF v.rq[c].curr = s THEN set_next_entity(v3, c, s) ELSE v3
             A1 == A \ {s}
             A2 == A1 \cup {s}
  <1>0. /\ v \in VType /\ M \in [Cpus -> Int] /\ X \in [Tasks -> Int]
        /\ s \in Tasks /\ v.se[s].cpu = c /\ v.se[s].on_rq /\ s \in A /\ A2 = A /\ s # None
    <2>1. v \in VType /\ M \in [Cpus -> Int] /\ X \in [Tasks -> Int]
      BY DEF Good, Typed
    <2>2. s \in Tasks /\ v.se[s].cpu = c /\ v.se[s].on_rq /\ s \in A
      BY TimelineFacts
    <2>3. s # None
      BY <2>2, NoneFacts
    <2> QED BY <2>1, <2>2, <2>3
  <1>r. r = Replaced(v, s, weight)
    BY <1>0 DEF Replaced
  <1>b. B <= B2
    <2>1. Typed(v, M, X, e, B, A)
      BY DEF Good
    <2>2. B \in 0 .. Reach /\ Horizon(e) \in Nat /\ Reach \in Nat
      BY <2>1, TypedFacts
    <2> QED BY <2>2
  <1>1. PICK M1 \in [Cpus -> Int], X1 \in [Tasks -> Int] :
          /\ Good(v1, M1, X1, e, B, A1) /\ Local(v, M, X, v1, M1, X1, A, c, s)
          /\ SameSelf(v, v1, s) /\ ~v1.se[s].on_rq /\ SameCurr(v, v1, c)
          /\ -thresh <= X1[s] /\ X1[s] <= Horizon(e)
    <2> DEFINE flags == {"save"}
    <2>1. "sleep" \notin flags
      OBVIOUS
    <2> HIDE DEF flags
    <2>2. "sleep" \notin flags =>
           \E M2 \in [Cpus -> Int], X2 \in [Tasks -> Int] :
             LET q == dequeue_entity(v, c, s, flags)
             IN  /\ Good(q, M2, X2, e, B, A \ {s}) /\ Local(v, M, X, q, M2, X2, A, c, s)
                 /\ SameSelf(v, q, s) /\ ~q.se[s].on_rq /\ SameCurr(v, q, c)
                 /\ -thresh <= X2[s] /\ X2[s] <= Horizon(e)
      BY DequeueRelative
    <2> QED BY <2>1, <2>2 DEF flags
  <1> HIDE DEF v1, A1
  <1>2. /\ Good(v2, M1, X1, e, B, A1) /\ v2.se = v1.se /\ \A d \in Cpus : d # c => v2.rq[d] = v1.rq[d]
        /\ v2.rq[c].curr = (IF v.rq[c].curr = s THEN None ELSE v.rq[c].curr)
        /\ v2.rq[c].pc = v1.rq[c].pc
    <2>1. CASE v.rq[c].curr = s
      <3>1. v2 = Unset(v1, c) /\ v1.rq[c].curr = s
        BY <1>1, <2>1 DEF put_prev_entity, Unset, SameCurr
      <3>2. LET q  == Unset(v1, c)
            IN  /\ Good(q, M1, X1, e, B, A1) /\ q.se = v1.se /\ \A d \in Cpus : d # c => q.rq[d] = v1.rq[d]
                /\ q.rq[c].curr = None /\ q.rq[c].pc = v1.rq[c].pc /\ q.rq[c].timeline = v1.rq[c].timeline
        BY <1>0, <1>1, <3>1, PutSlept
      <3> HIDE DEF v2
      <3> QED BY <2>1, <3>1, <3>2
    <2>2. CASE v.rq[c].curr # s
      BY <1>1, <2>2 DEF SameCurr
    <2> QED BY <2>1, <2>2
  <1> HIDE DEF v2
  <1>3. /\ Good(w, M1, X1, e, B, A1) /\ w.rq = v2.rq
        /\ w.se[s].state = v2.se[s].state /\ w.se[s].cpu = v2.se[s].cpu /\ w.se[s].on_rq = v2.se[s].on_rq
        /\ Local(v2, M1, X1, w, M1, X1, A1, c, s)
    <2>1. Good(v2, M1, X1, e, B, A1) /\ s \in Tasks
      BY <1>0, <1>2
    <2> QED BY <2>1, Reweigh
  <1> HIDE DEF w
  <1>4. PICK M2 \in [Cpus -> Int], X2 \in [Tasks -> Int] :
          /\ Good(v3, M2, X2, e, B2, A2) /\ Local(w, M1, X1, v3, M2, X2, A1, c, s)
          /\ SameSelf(w, v3, s) /\ v3.se[s].on_rq /\ SameCurr(w, v3, c)
    <2>1. w.se[s].cpu = c /\ w.rq[c].curr # s /\ ~w.se[s].on_rq
      BY <1>0, <1>1, <1>2, <1>3 DEF SameSelf
    <2>2. MayEnqueue(M1, X1, e, B, A1, B2, c, s, FALSE, FALSE)
      BY <1>1 DEF MayEnqueue
    <2>3. Enqueueable(w, M1, X1, e, B, A1, B2, c, s, FALSE, FALSE)
      BY <1>0, <1>3, <1>b, <2>1, <2>2 DEF Enqueueable
    <2> QED BY <2>3, EnqueueGood
  <1> HIDE DEF v3
  <1>5. Local(v, M, X, v3, M2, X2, A, c, s)
    <2>1. Local(v1, M1, X1, v2, M1, X1, A1, c, s)
      <3>1. \A d \in Cpus : M1[d] <= M1[d]
        BY <1>1
      <3> QED BY <1>2, <3>1 DEF Local, SameTask
    <2>2. A1 \ {s} = A \ {s}
      BY DEF A1
    <2>3. Local(v, M, X, v2, M1, X1, A, c, s)
      BY <1>0, <1>1, <2>1, <2>2, LocalTrans
    <2>4. Local(v, M, X, w, M1, X1, A, c, s)
      BY <1>0, <1>1, <1>3, <2>2, <2>3, LocalTrans
    <2> QED BY <1>0, <1>1, <1>4, <2>2, <2>4, LocalTrans
  <1>6. /\ s \in OnRq(v3, c) /\ v3.se[s].state = v.se[s].state
        /\ v3.rq[c].curr = (IF v.rq[c].curr = s THEN None ELSE v.rq[c].curr)
        /\ v3.rq[c].pc = v.rq[c].pc
    BY <1>0, <1>1, <1>2, <1>3, <1>4 DEF SameSelf, SameCurr, OnRq
  <1>7. /\ Good(r, M2, X2, e, B2, A2) /\ Local(v3, M2, X2, r, M2, X2, A2, c, None)
        /\ SameTask(v3, r, s) /\ SameCurr(v, r, c)
    <2>1. CASE v.rq[c].curr = s
      <3>1. r = set_next_entity(v3, c, s)
        BY <2>1
      <3> HIDE DEF r
      <3>2. LET q  == set_next_entity(v3, c, s)
                tl == v3.rq[c].timeline
            IN  /\ Good(q, M2, X2, e, B2, A2) /\ SameTimes(v3, q) /\ Local(v3, M2, X2, q, M2, X2, A2, c, None)
                /\ q.rq[c].curr = s /\ q.rq[c].pc = v3.rq[c].pc
                /\ s # Head(tl) => q.rq[c].timeline # <<>> /\ Head(q.rq[c].timeline) = Head(tl)
        <4>1. v3.rq[c].curr = None
          BY <1>6, <2>1
        <4>2. Good(v3, M2, X2, e, B2, A2) /\ s \in OnRq(v3, c)
          BY <1>4, <1>6
        <4> HIDE DEF A2
        <4> QED BY <4>1, <4>2, SetNextGood
      <3> QED BY <1>0, <1>6, <2>1, <3>1, <3>2 DEF SameTimes, SameCurr
    <2>2. CASE v.rq[c].curr # s
      <3>1. Local(v3, M2, X2, v3, M2, X2, A2, c, None)
        BY <1>4, SameGood
      <3> QED BY <1>4, <1>6, <2>2, <3>1 DEF SameTask, SameCurr
    <2> QED BY <2>1, <2>2
  <1> HIDE DEF r
  <1>8. Local(v, M, X, r, M2, X2, A, c, s)
    <2>1. Local(v3, M2, X2, r, M2, X2, A2, c, s)
      BY <1>0, <1>4, <1>7, LocalWiden
    <2> HIDE DEF A2
    <2> QED BY <1>0, <1>4, <1>5, <2>1, LocalTrans
  <1>9. s \in OnRq(r, c) /\ r.se[s].state = v.se[s].state
    BY <1>6, <1>7 DEF SameTask, OnRq
  <1>10. Good(r, M2, X2, e, B2, A)
    BY <1>0, <1>7
  <1> QED BY <1>7, <1>8, <1>9, <1>10, <1>r

\* Then schedule may be due, by the new priority.
LEMMA PrioGood ==
  ASSUME NEW v, NEW M, NEW X, NEW e, NEW B, NEW A, Good(v, M, X, e, B, A),
         NEW c \in Cpus, NEW s \in OnRq(v, c), NEW lower
  PROVE  \E M2 \in [Cpus -> Int], X2 \in [Tasks -> Int] :
           LET r == prio_changed_fair(v, c, s, lower)
           IN  /\ Good(r, M2, X2, e, B, A) /\ Local(v, M, X, r, M2, X2, A, c, None)
               /\ SameCurr(v, r, c)
  <1> DEFINE r == prio_changed_fair(v, c, s, lower)
  <1>0. M \in [Cpus -> Int] /\ X \in [Tasks -> Int]
    BY DEF Good, Typed
  <1>1. CASE v.rq[c].curr # s
    <2>1. r = check_preempt_curr(v, c, s, FALSE)
      BY <1>1 DEF prio_changed_fair
    <2> HIDE DEF r
    <2>2. \E M2 \in [Cpus -> Int], X2 \in [Tasks -> Int] :
            LET q == check_preempt_curr(v, c, s, FALSE)
            IN  /\ Good(q, M2, X2, e, B, A) /\ Local(v, M, X, q, M2, X2, A, c, None)
                /\ SameCurr(v, q, c)
      BY PreemptGood
    <2> QED BY <2>1, <2>2 DEF r
  <1>2. CASE v.rq[c].curr = s
    <2>1. r = resched_curr(v, c) \/ r = v
      BY <1>2 DEF prio_changed_fair
    <2> HIDE DEF r
    <2>2. Good(r, M, X, e, B, A) /\ Local(v, M, X, r, M, X, A, c, None) /\ SameCurr(v, r, c)
      <3>1. CASE r = resched_curr(v, c)
        BY <3>1, ReschedGood
      <3>2. CASE r = v
        <4>1. Local(v, M, X, v, M, X, A, c, None)
          BY SameGood
        <4> QED BY <3>2, <4>1 DEF SameCurr
      <3> QED BY <2>1, <3>1, <3>2
    <2> QED BY <1>0, <2>2 DEF r
  <1> QED BY <1>1, <1>2

\* A change of priority, with the preemption it may cause.
LEMMA SetschedulerEffect ==
  ASSUME NEW v, NEW M, NEW X, NEW e, NEW m, Sound(v, M, X, e, m), NEW s \in Tasks, NEW weight \in Weights,
         NEW lower, v.se[s].state = "runnable", m < MaxMoves
  PROVE  Effect(v, M, prio_changed_fair(Replaced(v, s, weight), v.se[s].cpu, s, lower), e, m + 1)
  <1> DEFINE B == Bound(v, e, m)
             A == Timed(v)
             c == v.se[s].cpu
             B2 == Bound(v, e, m + 1)
             w == Replaced(v, s, weight)
             r == prio_changed_fair(w, c, s, lower)
  <1>1. /\ Good(v, M, X, e, B, A) /\ v \in VType /\ M \in [Cpus -> Int] /\ X \in [Tasks -> Int]
        /\ e \in 0 .. MaxTime /\ m \in 0 .. MaxMoves /\ B \in 0 .. Reach
        /\ v.se[s] \in SeType /\ TaskFits(v, X, e, B, s)
        /\ \A d \in Cpus : CurrFits(v, d) /\ (v.rq[d].curr # None => v.se[v.rq[d].curr].cpu = d)
    BY SoundFacts
  <1>2. c \in Cpus /\ s \in OnRq(v, c) /\ v.se[s].on_rq /\ s \in Tasks \cup {None} /\ s # None
    BY <1>1, NoneFacts DEF TaskFits, OnRq, SeType
  <1>3. /\ m + 1 \in 0 .. MaxMoves /\ m <= m + 1
    BY <1>1, CfsRqAssumption
  <1>4. B2 \in 0 .. Reach /\ B <= B2 /\ B + Horizon(e) <= B2
    BY <1>1, <1>3, Arrives
  <1>5. PICK M1 \in [Cpus -> Int], X1 \in [Tasks -> Int] :
          /\ Good(w, M1, X1, e, B2, A) /\ Local(v, M, X, w, M1, X1, A, c, s)
          /\ s \in OnRq(w, c) /\ w.se[s].state = v.se[s].state /\ SameCurr(v, w, c)
    <2> HIDE DEF B, B2, A, c
    <2>1. Good(v, M, X, e, B, A)
      BY <1>1
    <2> QED BY <1>2, <1>4, <2>1, ReplaceGood
  <1> HIDE DEF w
  <1>6. PICK M2 \in [Cpus -> Int], X2 \in [Tasks -> Int] :
          /\ Good(r, M2, X2, e, B2, A) /\ Local(w, M1, X1, r, M2, X2, A, c, None)
          /\ SameCurr(w, r, c)
    <2> HIDE DEF A, B2, c
    <2>1. Good(w, M1, X1, e, B2, A) /\ s \in OnRq(w, c)
      BY <1>5
    <2> QED BY <1>2, <2>1, PrioGood
  <1> HIDE DEF r
  <1>7. SameTask(w, r, s)
    BY <1>2, <1>6 DEF Local
  <1>8. r.se[s].state = "runnable" /\ r.se[s].on_rq
    BY <1>5, <1>7 DEF SameTask, OnRq
  <1>9. Local(v, M, X, r, M2, X2, A, c, s)
    <2>1. Local(w, M1, X1, r, M2, X2, A, c, s)
      BY <1>1, <1>5, <1>6, LocalWiden
    <2> HIDE DEF A, c
    <2> QED BY <1>1, <1>5, <2>1, LocalTrans
  <1>10. Timed(r) = A /\ Bound(r, e, m + 1) = B2
    <2>1. \A t \in Tasks : r.se[t].state = v.se[t].state
      BY <1>8, <1>9 DEF Local, SameTask
    <2>2. Timed(r) = Timed(v) /\ Born(r) = Born(v)
      BY <2>1 DEF Timed, Born
    <2> QED BY <2>2 DEF Bound, Arrivals
  <1>11. TaskFits(r, X2, e, Bound(r, e, m + 1), s)
    BY <1>8 DEF TaskFits
  <1>12. r.rq[c].curr = v.rq[c].curr /\ r.rq[c].pc = v.rq[c].pc
    BY <1>5, <1>6 DEF SameCurr
  <1>13. CurrFits(r, c) /\ Turn(v, r, c, s)
    <2>1. CASE v.rq[c].curr = s
      BY <1>2, <1>8, <1>12, <2>1 DEF Turn, CurrFits
    <2>2. CASE v.rq[c].curr # s
      <3>1. v.rq[c].curr # None => SameTask(v, r, v.rq[c].curr)
        <4>1. v.rq[c].curr \in Tasks \cup {None}
          BY <1>1, <1>2, Parts DEF RqType
        <4> QED BY <1>9, <2>2, <4>1 DEF Local
      <3> QED BY <1>1, <1>2, <1>12, <3>1 DEF Turn, CurrFits, SameTask
    <2> QED BY <2>1, <2>2
  <1>14. \A d \in Cpus \ {c} : v.rq[d].curr # s
    BY <1>1, <1>2
  <1>15. /\ Good(r, M2, X2, e, Bound(r, e, m + 1), Timed(r)) /\ Local(v, M, X, r, M2, X2, Timed(v), c, s)
         /\ Bound(v, e, m) <= Bound(r, e, m + 1) /\ e <= e
    BY <1>1, <1>4, <1>6, <1>9, <1>10
  <1> HIDE DEF A, B, B2, c
  <1>16. Effect(v, M, r, e, m + 1)
    BY <1>1, <1>2, <1>3, <1>11, <1>13, <1>14, <1>15, Stepped
  <1> QED BY <1>16 DEF r, w, c

-----------------------------------------------------------------------------
(***************************************************************************)
(* The invariant is inductive.                                             *)
(***************************************************************************)

\* Nothing is queued at first, and the vruntimes are relative.
LEMMA InitSound == Init => IInv
  <1> SUFFICES ASSUME Init PROVE IInv
    OBVIOUS
  <1> DEFINE M == [c \in Cpus |-> InitMin[c]]
             X == [s \in Tasks |-> 0]
             B == Bound(Now, 0, 0)
             A == Timed(Now)
  <1>1. PICK unborn \in {None} \cup Tasks, k \in InitCpus :
          se = [s \in Tasks |->
                  [vruntime |-> 0, on_rq |-> FALSE, cpu |-> k, weight |-> NICE_0_LOAD, ran |-> 0,
                   state |-> IF s = unborn THEN "unborn" ELSE "new"]]
    BY DEF Init
  <1>2. /\ Now.rq = rq /\ Now.se = se /\ elapsed = 0 /\ moves = 0 /\ k \in Cpus
        /\ VMod \in Nat \ {0} /\ thresh \in Nat /\ NICE_0_LOAD \in Weights
        /\ 0 \in 0 .. MaxTime /\ 0 \in 0 .. MaxMoves
    BY CfsRqAssumption, NoneFacts DEF Now, Init
  <1>3. /\ \A c \in Cpus : rq[c] = [min_vruntime |-> InitMin[c], curr |-> None, timeline |-> <<>>, last |-> None,
                                    next |-> None, skip |-> None, delta |-> 0, resched |-> FALSE, pc |-> "run"]
        /\ \A c \in Cpus : InitMin[c] \in 0 .. VMod - 1
    BY CfsRqAssumption DEF Init
  <1>q. ASSUME NEW c \in Cpus
        PROVE  /\ Now.rq[c].min_vruntime = InitMin[c] /\ Now.rq[c].curr = None /\ Now.rq[c].timeline = <<>>
               /\ Now.rq[c].last = None /\ Now.rq[c].next = None /\ Now.rq[c].skip = None
               /\ Now.rq[c].delta = 0 /\ InitMin[c] \in 0 .. VMod - 1
    <2>1. rq[c] = [min_vruntime |-> InitMin[c], curr |-> None, timeline |-> <<>>, last |-> None,
                   next |-> None, skip |-> None, delta |-> 0, resched |-> FALSE, pc |-> "run"]
      BY <1>3
    <2>2. Now.rq[c] = rq[c] /\ InitMin[c] \in 0 .. VMod - 1
      BY <1>2, <1>3
    <2>3. /\ rq[c].min_vruntime = InitMin[c] /\ rq[c].curr = None /\ rq[c].timeline = <<>>
          /\ rq[c].last = None /\ rq[c].next = None /\ rq[c].skip = None /\ rq[c].delta = 0
      BY <2>1
    <2> QED BY <2>2, <2>3
  <1>4. \A s \in Tasks : /\ se[s].vruntime = 0 /\ se[s].on_rq = FALSE /\ se[s].cpu = k
                         /\ se[s].state \in {"unborn", "new"}
    BY <1>1
  <1>5. A = {}
    BY <1>2, <1>4 DEF Timed
  <1>6. B \in 0 .. Reach /\ Horizon(0) \in Nat /\ Reach \in Nat
    BY <1>2, BoundFacts, HorizonFacts
  <1>7. M \in [Cpus -> Int] /\ X \in [Tasks -> Int] /\ \A c \in Cpus : M[c] = InitMin[c]
    BY <1>2, <1>3
  <1>8. Now \in VType
    <2>1. 0 \in 0 .. VMod - 1 /\ 0 \in Nat
      BY <1>2
    <2>2. rq \in [Cpus -> RqType]
      <3>1. \A c \in Cpus : [min_vruntime |-> InitMin[c], curr |-> None, timeline |-> <<>>, last |-> None,
                             next |-> None, skip |-> None, delta |-> 0, resched |-> FALSE, pc |-> "run"] \in RqType
        BY <1>2, <1>3 DEF RqType
      <3> QED BY <3>1 DEF Init
    <2>3. se \in [Tasks -> SeType]
      <3>1. \A s \in Tasks :
              [vruntime |-> 0, on_rq |-> FALSE, cpu |-> k, weight |-> NICE_0_LOAD, ran |-> 0,
               state |-> IF s = unborn THEN "unborn" ELSE "new"] \in SeType
        BY <1>2, <2>1 DEF SeType, States
      <3> QED BY <1>1, <3>1
    <2> QED BY <2>2, <2>3 DEF Now, VType
  <1> HIDE DEF B, A
  <1>9. Typed(Now, M, X, 0, B, A)
    BY <1>2, <1>5, <1>6, <1>7, <1>8 DEF Typed
  <1>10. ASSUME NEW c \in Cpus PROVE CpuOk(Now, M, X, 0, B, A, c)
    <2>1. MinOk(Now, M, B, c)
      <3>1. InitMin[c] % VMod = InitMin[c] /\ InitMin[c] \in Nat
        BY <1>2, <1>q
      <3> QED BY <1>6, <1>7, <1>q, <3>1 DEF MinOk
    <2>2. CurrOk(Now, 0, A, c)
      BY <1>q DEF CurrOk
    <2>3. OnRq(Now, c) = {}
      BY <1>2, <1>4 DEF OnRq
    <2>4. Queue(Now, c) /\ Buddy(Now, c) /\ Sorted(Now.rq[c].timeline, X)
      <3>1. Now.rq[c].timeline = <<>>
        BY <1>q
      <3>2. Injective(<<>>) /\ ToSet(<<>>) = {}
        BY DEF Injective, ToSet
      <3>3. Queue(Now, c)
        BY <2>3, <3>1, <3>2 DEF Queue
      <3>4. Sorted(<<>>, X)
        BY DEF Sorted
      <3> QED BY <1>q, <3>1, <3>3, <3>4 DEF Buddy
    <2>5. \A t \in Tasks : TaskOk(Now, M, X, 0, B, A, c, t)
      <3>1. 0 % VMod = 0
        BY <1>2
      <3> QED BY <1>2, <1>4, <1>5, <3>1 DEF TaskOk
    <2> QED BY <2>1, <2>2, <2>4, <2>5 DEF CpuOk
  <1>11. Good(Now, M, X, 0, B, A)
    BY <1>9, <1>10 DEF Good
  <1>12. \A s \in Tasks : TaskFits(Now, X, 0, B, s)
    <2>1. -thresh <= 0 /\ 0 <= Horizon(0) /\ \A s \in Tasks : X[s] = 0
      BY <1>2, <1>6
    <2> HIDE DEF X
    <2> QED BY <1>2, <1>4, <2>1 DEF TaskFits
  <1>13. \A c \in Cpus : CurrFits(Now, c)
    BY <1>q DEF CurrFits
  <1>14. Sound(Now, M, X, elapsed, moves)
    BY <1>2, <1>11, <1>12, <1>13 DEF Sound, A, B
  <1> QED BY <1>7, <1>14 DEF IInv

\* What an action makes of the state is the state after it.
LEMMA NowBecomes ==
  ASSUME NEW M, NEW r, NEW e, NEW m, Effect(Now, M, r, e, m), Becomes(r), elapsed' = e, moves' = m
  PROVE  Effect(Now, M, Now', elapsed', moves')
  <1>1. r \in VType
    BY DEF Effect, Sound, Good, Typed
  <1>2. r = [rq |-> r.rq, se |-> r.se]
    BY <1>1 DEF VType
  <1>3. Now' = r
    BY <1>2 DEF Becomes, Now
  <1> QED BY <1>3

\* The state as a record.
LEMMA NowFacts == Now.rq = rq /\ Now.se = se
  BY DEF Now

\* Every action of the run queues, from a sound state, has the effect of a step: the new state
\* is sound, no min_vruntime is back, and one CPU at most turns to another task.
LEMMA NextEffect ==
  ASSUME NEW M, NEW X, Sound(Now, M, X, elapsed, moves), Next
  PROVE  Effect(Now, M, Now', elapsed', moves')
  <1>1. /\ Now.rq = rq /\ Now.se = se /\ elapsed \in 0 .. MaxTime /\ moves \in 0 .. MaxMoves
        /\ \A c \in Cpus : rq[c].curr # None => rq[c].curr \in Timed(Now)
    BY SoundFacts, NowFacts
  <1>2. MaxMoves \in Nat /\ MaxTime \in Nat
    BY CfsRqAssumption
  <1>n. ASSUME NEW r, Effect(Now, M, r, elapsed', moves'), Becomes(r) PROVE Effect(Now, M, Now', elapsed', moves')
    BY <1>n, NowBecomes
  <1>3. ASSUME NEW c \in Cpus, Elapse(c) PROVE Effect(Now, M, Now', elapsed', moves')
    <2>1. elapsed < MaxTime /\ Now.rq[c].curr # None /\ elapsed' = elapsed + 1 /\ moves' = moves
      BY <1>1, <1>3 DEF Elapse
    <2>2. Becomes(Elapsed(Now, c))
      BY <1>3 DEF Elapse, Elapsed, Becomes, Now
    <2>3. Effect(Now, M, Elapsed(Now, c), elapsed', moves')
      BY <2>1, ElapseEffect
    <2> QED BY <1>n, <2>2, <2>3
  <1>4. ASSUME NEW c \in Cpus, Tick(c) PROVE Effect(Now, M, Now', elapsed', moves')
    <2>1. Now.rq[c].curr # None /\ elapsed' = elapsed /\ moves' = moves
      BY <1>1, <1>4 DEF Tick, Still
    <2>2. Becomes(TickedOver(Now, c))
      BY <1>1, <1>4 DEF Tick, TickedOver
    <2>3. Effect(Now, M, TickedOver(Now, c), elapsed', moves')
      BY <2>1, TickEffect
    <2> QED BY <1>n, <2>2, <2>3
  <1>5. ASSUME NEW c \in Cpus, idle_balance_ends(c) PROVE Effect(Now, M, Now', elapsed', moves')
    <2>1. elapsed' = elapsed /\ moves' = moves
      BY <1>5 DEF idle_balance_ends, Still
    <2>2. Becomes(IdleEnds(Now, c))
      BY <1>1, <1>5 DEF idle_balance_ends, IdleEnds, Decided
    <2>3. Effect(Now, M, IdleEnds(Now, c), elapsed', moves')
      BY <2>1, IdleEffect
    <2> QED BY <1>n, <2>2, <2>3
  <1>6. ASSUME NEW c \in Cpus, put_prev_task_fair(c) PROVE Effect(Now, M, Now', elapsed', moves')
    <2>1. Now.rq[c].curr # None /\ elapsed' = elapsed /\ moves' = moves
      BY <1>1, <1>6 DEF put_prev_task_fair, Still
    <2> DEFINE r == Preempted(put_prev_entity(Now, c, Now.rq[c].curr), c)
    <2>2. Becomes(r)
      BY <1>1, <1>6 DEF put_prev_task_fair, Preempted
    <2>3. Effect(Now, M, r, elapsed', moves')
      BY <2>1, PutEffect
    <2> QED BY <1>n, <2>2, <2>3
  <1>7. ASSUME NEW c \in Cpus, sched_yield(c) PROVE Effect(Now, M, Now', elapsed', moves')
    <2>1. Now.rq[c].curr # None /\ Now.rq[c].pc = "run" /\ elapsed' = elapsed /\ moves' = moves
      BY <1>1, <1>7 DEF sched_yield, Still
    <2>2. Becomes(yield_task_fair(Now, c))
      BY <1>7 DEF sched_yield
    <2>3. Effect(Now, M, yield_task_fair(Now, c), elapsed', moves')
      BY <2>1, YieldEffect
    <2> QED BY <1>n, <2>2, <2>3
  <1>8. ASSUME NEW c \in Cpus, NEW p \in Tasks, yield_to_task_fair(c, p)
        PROVE  Effect(Now, M, Now', elapsed', moves')
    <2>1. /\ Now.rq[c].curr # None /\ Now.rq[c].pc = "run" /\ elapsed' = elapsed /\ moves' = moves
          /\ p \in OnRq(Now, c)
      BY <1>1, <1>8 DEF yield_to_task_fair, Still, OnRq
    <2> DEFINE w == [Now EXCEPT !.rq[c].next = p]
    <2>2. Becomes(yield_task_fair(w, c))
      BY <1>8 DEF yield_to_task_fair
    <2>3. w = Now \/ \E t \in OnRq(Now, c) : w = [Now EXCEPT !.rq[c].next = t]
      BY <2>1
    <2> HIDE DEF w
    <2>4. Effect(Now, M, yield_task_fair(w, c), elapsed', moves')
      BY <2>1, <2>3, YieldEffect
    <2> QED BY <1>n, <2>2, <2>4
  <1>9. ASSUME NEW c \in Cpus, NEW sleeps \in BOOLEAN, schedule(c, sleeps)
        PROVE  Effect(Now, M, Now', elapsed', moves')
    <2>1. elapsed' = elapsed /\ moves' = moves
      BY <1>9 DEF schedule, Still
    <2>2. CASE sleeps
      <3>1. Now.rq[c].curr # None /\ Now.rq[c].pc = "run"
        BY <1>1, <1>9, <2>2 DEF schedule
      <3>2. Becomes(Reschedule(Slept(Now, c), c))
        BY <1>1, <1>9, <2>2 DEF schedule, Reschedule, Slept, AtPc
      <3>3. Effect(Now, M, Reschedule(Slept(Now, c), c), elapsed', moves')
        BY <2>1, <3>1, SleepEffect
      <3> QED BY <1>n, <3>2, <3>3
    <2>3. CASE ~sleeps
      <3>2. Becomes(Reschedule(Now, c))
        BY <1>9, <2>3 DEF schedule, Reschedule, AtPc
      <3>3. Effect(Now, M, Reschedule(Now, c), elapsed', moves')
        BY <2>1, PreemptionEffect
      <3> QED BY <1>n, <3>2, <3>3
    <2> QED BY <2>2, <2>3
  <1>10. ASSUME NEW c \in Cpus, NEW s \in Tasks, migrate_task_rq_fair(s, c)
         PROVE  Effect(Now, M, Now', elapsed', moves')
    <2>1. /\ Now.se[s].state = "sleeping" /\ Now.rq[Now.se[s].cpu].curr # s /\ moves < MaxMoves
          /\ elapsed' = elapsed /\ moves' = moves + 1
      BY <1>1, <1>10 DEF migrate_task_rq_fair, Moved
    <2>2. Becomes(Migrated(Now, s, c))
      BY <1>1, <1>10 DEF migrate_task_rq_fair, Migrated, Relocated
    <2>3. Effect(Now, M, Migrated(Now, s, c), elapsed', moves')
      BY <2>1, MigrateEffect
    <2> QED BY <1>n, <2>2, <2>3
  <1>11. ASSUME NEW c \in Cpus, NEW s \in Tasks, task_fork_fair(c, s)
         PROVE  Effect(Now, M, Now', elapsed', moves')
    <2>1. Now.se[s].state = "unborn" /\ Now.rq[c].pc = "run" /\ elapsed' = elapsed
      BY <1>1, <1>11 DEF task_fork_fair, Still
    <2>2. CASE Now.rq[c].curr # None
      <3>1. moves' = moves
        BY <1>1, <1>11, <2>2 DEF task_fork_fair, Still
      <3>2. Becomes(Normalise(Family(Now, c, s), c, s))
        <4>1. SameTask(Now, update_curr(Now, c), rq[c].curr)
          <5>1. Now \in VType /\ rq[c].curr \in Tasks
            BY <1>1, <2>2, SoundFacts
          <5> QED BY <5>1, UpdateCurrFacts DEF Keeps
        <4>2. update_curr(Now, c).se[rq[c].curr].weight = se[rq[c].curr].weight
          BY <1>1, <4>1 DEF SameTask
        <4> QED BY <1>1, <1>11, <2>2, <4>2 DEF task_fork_fair, Family, Child, Swapped
      <3>3. Effect(Now, M, Normalise(Family(Now, c, s), c, s), elapsed', moves')
        BY <2>1, <2>2, <3>1, ForkEffect
      <3> QED BY <1>n, <3>2, <3>3
    <2>3. CASE Now.rq[c].curr = None
      <3>1. moves < MaxMoves /\ moves' = moves + 1
        BY <1>1, <1>11, <2>3 DEF task_fork_fair, Moved
      <3>2. Becomes(Orphan(Now, c, s))
        <4>1. update_curr(Now, c) = Now
          BY <2>3 DEF update_curr
        <4> QED BY <1>1, <1>11, <2>3, <4>1 DEF task_fork_fair, Orphan, Newborn
      <3>3. Effect(Now, M, Orphan(Now, c, s), elapsed', moves')
        BY <2>1, <2>3, <3>1, OrphanEffect
      <3> QED BY <1>n, <3>2, <3>3
    <2> QED BY <2>2, <2>3
  <1>12. ASSUME NEW c \in Cpus, NEW s \in Tasks, detach_task(s, c)
         PROVE  Effect(Now, M, Now', elapsed', moves')
    <2>1. /\ Now.se[s].state = "runnable" /\ Now.rq[Now.se[s].cpu].curr # s /\ moves < MaxMoves
          /\ elapsed' = elapsed /\ moves' = moves + 1
      BY <1>1, <1>12 DEF detach_task, Moved
    <2>2. Becomes(Detached(Now, s, c))
      BY <1>1, <1>12 DEF detach_task, Detached, Relocated
    <2>3. Effect(Now, M, Detached(Now, s, c), elapsed', moves')
      BY <2>1, DetachEffect
    <2> QED BY <1>n, <2>2, <2>3
  <1>13. ASSUME NEW s \in Tasks, NEW weight \in Weights, sched_setscheduler(s, weight)
         PROVE  Effect(Now, M, Now', elapsed', moves')
    <2>1. /\ Now.se[s].state = "runnable" /\ moves < MaxMoves
          /\ elapsed' = elapsed /\ moves' = moves + 1
      BY <1>1, <1>13 DEF sched_setscheduler, Moved
    <2> DEFINE lower == weight < se[s].weight
               r == prio_changed_fair(Replaced(Now, s, weight), Now.se[s].cpu, s, lower)
    <2>2. Becomes(r)
      BY <1>1, <1>13 DEF sched_setscheduler, Replaced, PutBack, Reweighed
    <2> HIDE DEF lower
    <2>3. Effect(Now, M, r, elapsed', moves')
      BY <2>1, SetschedulerEffect
    <2> QED BY <1>n, <2>2, <2>3
  \* What arrives is on no CPU yet.
  <1>a. ASSUME NEW s \in Tasks, se[s].state \in {"new", "waking", "migrating"}, NEW c \in Cpus PROVE rq[c].curr # s
    <2>1. s \notin Timed(Now)
      BY <1>1, <1>a DEF Timed
    <2> QED BY <1>1, <2>1, NoneFacts
  <1>c. \A s \in Tasks : se[s].cpu \in Cpus
    BY <1>1, SoundFacts DEF SeType
  <1>14. ASSUME NEW s \in Tasks, try_to_wake_up(s) PROVE Effect(Now, M, Now', elapsed', moves')
    <2> DEFINE c == Now.se[s].cpu
               r == Landed(Now, c, s, TRUE, FALSE, FALSE)
    <2>1. /\ Now.se[s].state = "sleeping" /\ Now.rq[Now.se[s].cpu].curr # s
          /\ elapsed' = elapsed /\ moves' = moves /\ c \in Cpus
      BY <1>1, <1>14, <1>c DEF try_to_wake_up, Still
    <2>2. Becomes(r)
      BY <1>1, <1>14 DEF try_to_wake_up, Landed
    <2>3. Effect(Now, M, r, elapsed', moves')
      <3>1. moves <= moves /\ TRUE \in BOOLEAN /\ FALSE \in BOOLEAN
        BY <1>1
      <3> QED BY <1>1, <2>1, <3>1, LandingEffect
    <2> QED BY <1>n, <2>2, <2>3
  <1>15. ASSUME NEW s \in Tasks, sched_ttwu_pending(s) PROVE Effect(Now, M, Now', elapsed', moves')
    <2> DEFINE c == Now.se[s].cpu
               r == Landed(Now, c, s, TRUE, TRUE, FALSE)
    <2>1. /\ Now.se[s].state = "waking" /\ Now.rq[Now.se[s].cpu].curr # s
          /\ elapsed' = elapsed /\ moves' = moves /\ c \in Cpus
      BY <1>1, <1>15, <1>a, <1>c DEF sched_ttwu_pending, Still
    <2>2. Becomes(r)
      BY <1>1, <1>15 DEF sched_ttwu_pending, Landed
    <2>3. Effect(Now, M, r, elapsed', moves')
      <3>1. moves <= moves /\ TRUE \in BOOLEAN
        BY <1>1
      <3> QED BY <1>1, <2>1, <3>1, LandingEffect
    <2> QED BY <1>n, <2>2, <2>3
  <1>16. ASSUME NEW s \in Tasks, attach_task(s) PROVE Effect(Now, M, Now', elapsed', moves')
    <2> DEFINE c == Now.se[s].cpu
               r == Landed(Now, c, s, FALSE, FALSE, FALSE)
    <2>1. /\ Now.se[s].state = "migrating" /\ Now.rq[Now.se[s].cpu].curr # s
          /\ elapsed' = elapsed /\ moves' = moves /\ c \in Cpus
      BY <1>1, <1>16, <1>a, <1>c DEF attach_task, Still
    <2>2. Becomes(r)
      BY <1>1, <1>16 DEF attach_task, Landed
    <2>3. Effect(Now, M, r, elapsed', moves')
      <3>1. moves <= moves /\ FALSE \in BOOLEAN
        BY <1>1
      <3> QED BY <1>1, <2>1, <3>1, LandingEffect
    <2> QED BY <1>n, <2>2, <2>3
  <1>17. ASSUME NEW c \in Cpus, NEW s \in Tasks, wake_up_new_task(s, c)
         PROVE  Effect(Now, M, Now', elapsed', moves')
    <2> DEFINE w == Relocated(Now, s, c)
               r == Landed(w, c, s, FALSE, FALSE, TRUE)
    <2>1. /\ Now.se[s].state = "new" /\ Now.rq[Now.se[s].cpu].curr # s
          /\ elapsed' = elapsed /\ moves' \in 0 .. MaxMoves /\ moves <= moves'
      BY <1>1, <1>2, <1>17, <1>a, <1>c DEF wake_up_new_task, Moved
    <2>2. Becomes(r)
      BY <1>17 DEF wake_up_new_task, Landed, Relocated
    <2> HIDE DEF w
    <2>3. Effect(Now, M, r, elapsed', moves')
      BY <1>1, <2>1, LandingEffect DEF w
    <2> QED BY <1>n, <2>2, <2>3
  <1> QED BY <1>3, <1>4, <1>5, <1>6, <1>7, <1>8, <1>9, <1>10, <1>11, <1>12, <1>13, <1>14, <1>15, <1>16, <1>17
          DEF Next

\* IInv is inductive.
LEMMA NextSound ==
  ASSUME IInv, [Next]_vars
  PROVE  IInv'
  <1>1. PICK M \in [Cpus -> Int], X \in [Tasks -> Int] : Sound(Now, M, X, elapsed, moves)
    BY DEF IInv
  <1>2. CASE Next
    <2>1. Effect(Now, M, Now', elapsed', moves')
      BY <1>1, <1>2, NextEffect
    <2>2. \E M2 \in [Cpus -> Int], X2 \in [Tasks -> Int] : Sound(Now', M2, X2, elapsed', moves')
      BY <2>1 DEF Effect
    <2> QED BY <2>2 DEF IInv
  <1>3. CASE UNCHANGED vars
    <2>1. Now' = Now /\ elapsed' = elapsed /\ moves' = moves
      BY <1>3 DEF vars, Now
    <2>2. Sound(Now', M, X, elapsed', moves')
      BY <1>1, <2>1
    <2> QED BY <2>2 DEF IInv
  <1> QED BY <1>2, <1>3

\* Every state of the run queues is sound.
THEOREM RunQueuesSound == Spec => []IInv
  BY InitSound, NextSound, PTL DEF Spec

\* In a sound state the words of the timeline compare as the times they stand for.
LEMMA SoundConsistent == IInv => TimelineConsistent
  <1> SUFFICES ASSUME IInv PROVE TimelineConsistent
    OBVIOUS
  <1> DEFINE B == Bound(Now, elapsed, moves)
             A == Timed(Now)
  <1>1. PICK M \in [Cpus -> Int], X \in [Tasks -> Int] : Sound(Now, M, X, elapsed, moves)
    BY DEF IInv
  <1>2. /\ Good(Now, M, X, elapsed, B, A) /\ Now \in VType /\ elapsed \in 0 .. MaxTime /\ moves \in 0 .. MaxMoves
        /\ Now.rq = rq /\ Now.se = se /\ \A c \in Cpus : rq[c] \in RqType
    BY <1>1, SoundFacts, NowFacts
  <1> HIDE DEF A, B
  <1>3. TypeOK
    <2>1. \A c \in Cpus :
            /\ rq[c].min_vruntime \in 0 .. VMod - 1 /\ rq[c].delta \in Nat
            /\ {rq[c].curr, rq[c].last, rq[c].next, rq[c].skip} \subseteq Tasks \cup {None}
            /\ rq[c].timeline \in Seq(Tasks) /\ rq[c].resched \in BOOLEAN
            /\ rq[c].pc \in {"run", "yield", "newidle"}
      BY <1>2 DEF RqType
    <2>2. se \in [Tasks -> [vruntime : 0 .. VMod - 1, on_rq : BOOLEAN, cpu : Cpus, weight : Weights,
                            ran : Nat, state : States]]
      BY <1>2, Parts DEF SeType
    <2> QED BY <1>2, <2>1, <2>2 DEF TypeOK
  <1>4. ASSUME NEW c \in Cpus
        PROVE  LET tl == rq[c].timeline
               IN  /\ ToSet(tl) = OnRq(Now, c) \ {rq[c].curr} /\ Len(tl) = Cardinality(ToSet(tl))
                   /\ \A i, j \in DOMAIN tl : i < j => ~entity_before(Now, tl[j], tl[i])
    <2> DEFINE tl == rq[c].timeline
    <2>1. /\ tl \in Seq(Tasks) /\ Injective(tl) /\ ToSet(tl) = OnRq(Now, c) \ {rq[c].curr} /\ Sorted(tl, X)
          /\ \A i \in DOMAIN tl : tl[i] \in A /\ Now.se[tl[i]].cpu = c
      BY <1>2, TimelineFacts
    <2> HIDE DEF tl
    <2>2. Len(tl) = Cardinality(ToSet(tl))
      BY <2>1, InjectiveCounts
    <2>3. ASSUME NEW i \in DOMAIN tl, NEW j \in DOMAIN tl, i < j PROVE ~entity_before(Now, tl[j], tl[i])
      <3>1. X[tl[i]] <= X[tl[j]] /\ tl[i] \in Tasks /\ tl[j] \in Tasks
        BY <2>1, <2>3 DEF Sorted
      <3>2. entity_before(Now, tl[j], tl[i]) <=> X[tl[j]] < X[tl[i]]
        BY <1>2, <2>1, BeforeExact
      <3> QED BY <3>1, <3>2
    <2> QED BY <2>1, <2>2, <2>3 DEF tl
  <1>5. TimelineSorted
    BY <1>4 DEF TimelineSorted
  <1>6. BuddiesQueued
    BY <1>2 DEF Good, CpuOk, Buddy, BuddiesQueued
  <1> QED BY <1>3, <1>5, <1>6 DEF TimelineConsistent

\* In every state the timeline of each CPU holds exactly what is queued there and not running,
\* each once and in the order of entity_before, and the buddies that pick_next_entity follows
\* are queued there: across the wrap-around, and whatever is enqueued, charged or put back.
THEOREM TimelineIsConsistent == Spec => []TimelineConsistent
  BY RunQueuesSound, SoundConsistent, PTL

\* In a sound state nobody who is queued is further behind than the credit.
LEMMA SoundCredit == IInv => NoExtraCredit
  <1> SUFFICES ASSUME IInv, NEW s \in Tasks, se[s].on_rq
               PROVE  Diff(se[s].vruntime, rq[se[s].cpu].min_vruntime) >= -thresh
    BY DEF NoExtraCredit
  <1> DEFINE B == Bound(Now, elapsed, moves)
             A == Timed(Now)
             c == se[s].cpu
  <1>1. PICK M \in [Cpus -> Int], X \in [Tasks -> Int] : Sound(Now, M, X, elapsed, moves)
    BY DEF IInv
  <1>2. Good(Now, M, X, elapsed, B, A) /\ Now.rq = rq /\ Now.se = se /\ c \in Cpus
    BY <1>1, SoundFacts, NowFacts DEF SeType
  <1> HIDE DEF A, B, c
  <1>3. TaskOk(Now, M, X, elapsed, B, A, c, s) /\ MinOk(Now, M, B, c) /\ Typed(Now, M, X, elapsed, B, A)
    BY <1>2 DEF Good, CpuOk, c
  <1>4. /\ X[s] \in Int /\ M[c] \in Int /\ Pend(Now, c, s) \in Nat /\ thresh \in Nat /\ Horizon(elapsed) \in Nat
        /\ Horizon(elapsed) <= Reach /\ Reach \in Nat /\ VMod > 4 * (thresh + Reach) /\ VMod \in Nat
    BY <1>2, <1>3, TypedFacts
  <1>5. /\ se[s].vruntime = X[s] % VMod /\ rq[c].min_vruntime = M[c] % VMod
        /\ X[s] >= M[c] - thresh /\ X[s] + Pend(Now, c, s) <= M[c] + Horizon(elapsed)
    BY <1>2, <1>3 DEF TaskOk, MinOk
  <1>6. X[s] - M[c] >= -thresh /\ 2 * (X[s] - M[c]) < VMod /\ 2 * (M[c] - X[s]) < VMod
    BY <1>4, <1>5
  <1>7. Diff(X[s] % VMod, M[c] % VMod) = X[s] - M[c]
    BY <1>4, <1>6, DiffExact
  <1> QED BY <1>5, <1>6, <1>7 DEF c

\* However a task got onto a run queue, by waking there, from the wake_list of another CPU, by
\* fork, migration or a change of priority, it is at most thresh behind its min_vruntime, the
\* credit that place_entity gives a sleeper.
THEOREM NoTaskGainsTime == Spec => []NoExtraCredit
  BY RunQueuesSound, SoundCredit, PTL

\* Both values of min_vruntime are within Reach of where it started, far below half the circle.
LEMMA NextMonotone ==
  ASSUME IInv, Next, NEW c \in Cpus
  PROVE  Diff(rq'[c].min_vruntime, rq[c].min_vruntime) >= 0
  <1>1. PICK M \in [Cpus -> Int], X \in [Tasks -> Int] : Sound(Now, M, X, elapsed, moves)
    BY DEF IInv
  <1>2. Effect(Now, M, Now', elapsed', moves')
    BY <1>1, NextEffect
  <1>3. PICK M2, X2 : Sound(Now', M2, X2, elapsed', moves') /\ \A d \in Cpus : M[d] <= M2[d]
    BY <1>2 DEF Effect
  <1> DEFINE B  == Bound(Now, elapsed, moves)
             B2 == Bound(Now', elapsed', moves')
             A  == Timed(Now)
             A2 == Timed(Now')
  <1>4. Good(Now, M, X, elapsed, B, A) /\ Good(Now', M2, X2, elapsed', B2, A2)
    BY <1>1, <1>3, SoundFacts
  <1> HIDE DEF B, B2, A, A2
  <1>5. /\ Typed(Now, M, X, elapsed, B, A) /\ MinOk(Now, M, B, c)
        /\ Typed(Now', M2, X2, elapsed', B2, A2) /\ MinOk(Now', M2, B2, c)
    BY <1>4 DEF Good, CpuOk
  <1>6. /\ InitMin[c] \in Nat /\ M[c] \in Int /\ B \in 0 .. Reach /\ Reach \in Nat /\ thresh \in Nat
        /\ VMod > 4 * (thresh + Reach) /\ VMod \in Nat
    BY <1>5, TypedFacts
  <1>7. M2[c] \in Int /\ B2 \in 0 .. Reach
    BY <1>5, TypedFacts
  <1>8. /\ Now.rq[c].min_vruntime = M[c] % VMod /\ InitMin[c] <= M[c] /\ M[c] <= InitMin[c] + B
        /\ (Now').rq[c].min_vruntime = M2[c] % VMod /\ M2[c] <= InitMin[c] + B2 /\ M[c] <= M2[c]
    BY <1>3, <1>5 DEF MinOk
  <1>9. 2 * (M2[c] - M[c]) < VMod /\ 2 * (M[c] - M2[c]) < VMod /\ M2[c] - M[c] >= 0
    BY <1>6, <1>7, <1>8
  <1>10. Diff(M2[c] % VMod, M[c] % VMod) = M2[c] - M[c]
    BY <1>6, <1>7, <1>9, DiffExact
  <1>11. Now.rq = rq /\ (Now').rq = rq'
    BY DEF Now
  <1> QED BY <1>8, <1>9, <1>10, <1>11

\* No step turns a min_vruntime back, neither update_min_vruntime nor a placement nor a
\* departure from the timeline, and an advance is never mistaken for a step back.
THEOREM MinVruntimeNeverBack == Spec => MinVruntimeMonotone
  <1>1. IInv /\ [Next]_vars => [\A c \in Cpus : Diff(rq'[c].min_vruntime, rq[c].min_vruntime) >= 0]_vars
    BY NextMonotone
  <1> QED BY <1>1, RunQueuesSound, PTL DEF Spec, MinVruntimeMonotone

\* Only the CPU of the step turns to another task.
LEMMA NextFair ==
  ASSUME IInv, Next, NEW c \in Cpus, rq'[c].curr \notin {rq[c].curr, None}, rq'[c].timeline # <<>>
  PROVE  wakeup_preempt_entity(Now', rq'[c].curr, Head(rq'[c].timeline)) < 1
  <1>1. PICK M \in [Cpus -> Int], X \in [Tasks -> Int] : Sound(Now, M, X, elapsed, moves)
    BY DEF IInv
  <1>2. Effect(Now, M, Now', elapsed', moves')
    BY <1>1, NextEffect
  <1>3. Now.rq = rq /\ (Now').rq = rq'
    BY DEF Now
  <1>4. PICK d \in Cpus, s \in Tasks \cup {None} : Others(Now, Now', d, s) /\ Turn(Now, Now', d, s)
    BY <1>2 DEF Effect
  <1>5. d = c
    BY <1>3, <1>4 DEF Others
  <1> QED BY <1>3, <1>4, <1>5 DEF Turn

\* Whatever step makes a CPU run another task, that task is not unfairly far ahead of the
\* leftmost entity that waits.
THEOREM PicksAreFair == Spec => PickNotUnfair
  <1>1. IInv /\ [Next]_vars =>
          [\A c \in Cpus :
             rq'[c].curr \notin {rq[c].curr, None} /\ rq'[c].timeline # <<>>
               => wakeup_preempt_entity([rq |-> rq', se |-> se'], rq'[c].curr,
                                        Head(rq'[c].timeline)) < 1]_vars
    BY NextFair DEF Now
  <1> QED BY <1>1, RunQueuesSound, PTL DEF Spec, PickNotUnfair

-----------------------------------------------------------------------------
(***************************************************************************)
(* The run queues implement Placement: every step of CfsRq, seen through   *)
(* AtNow and RunningNow, is a Move or a Switch of Placement.               *)
(***************************************************************************)
AtNow      == [s \in Tasks |-> IF se[s].on_rq THEN se[s].cpu ELSE None]
RunningNow == [c \in Cpus |-> IF rq[c].curr # None /\ se[rq[c].curr].on_rq THEN rq[c].curr ELSE None]

PlacementStep == [Abstract!Next]_<<AtNow, RunningNow>>

\* What a task's on_rq and cpu, and a CPU's curr, show of the two.
LEMMA MappedFacts ==
  /\ \A s \in Tasks : AtNow[s] = IF se[s].on_rq THEN se[s].cpu ELSE None
  /\ \A s \in Tasks : AtNow'[s] = IF se'[s].on_rq THEN se'[s].cpu ELSE None
  /\ \A c \in Cpus : RunningNow[c] = IF rq[c].curr # None /\ se[rq[c].curr].on_rq THEN rq[c].curr ELSE None
  /\ \A c \in Cpus : RunningNow'[c] = IF rq'[c].curr # None /\ se'[rq'[c].curr].on_rq THEN rq'[c].curr ELSE None
  BY DEF AtNow, RunningNow

\* A task that runs nowhere gets another place: Move of Placement.
LEMMA MoveStep ==
  ASSUME NEW s \in Tasks, NEW place \in Cpus \cup {None},
         \A c \in Cpus : RunningNow[c] # s,
         \A t \in Tasks : AtNow'[t] = IF t = s THEN place ELSE AtNow[t],
         \A c \in Cpus : RunningNow'[c] = RunningNow[c]
  PROVE  PlacementStep
  <1>1. AtNow' = [t \in Tasks |-> IF t \in {s} THEN place ELSE AtNow[t]]
    BY DEF AtNow
  <1>2. RunningNow' = RunningNow
    BY DEF RunningNow
  <1>3. Abstract!Move({s}, place)
    BY <1>1, <1>2 DEF Abstract!Move, Abstract!Runs, AtNow, RunningNow
  <1> QED BY <1>3 DEF PlacementStep, Abstract!Next

\* One CPU runs another task, and the one it ran may leave: Switch of Placement.
LEMMA SwitchStep ==
  ASSUME NEW c \in Cpus,
         \A d \in Cpus \ {c} : RunningNow'[d] = RunningNow[d],
         RunningNow'[c] = None \/ (RunningNow'[c] \in Tasks /\ AtNow'[RunningNow'[c]] = c),
         \/ \A t \in Tasks : AtNow'[t] = AtNow[t]
         \/ /\ RunningNow[c] \in Tasks
            /\ \E place \in (Cpus \cup {None}) \ {c} :
                 \A t \in Tasks : AtNow'[t] = IF t = RunningNow[c] THEN place ELSE AtNow[t]
  PROVE  PlacementStep
  <1>0. /\ RunningNow = [d \in Cpus |-> RunningNow[d]]
        /\ RunningNow' = [d \in Cpus |-> RunningNow'[d]]
    BY DEF RunningNow
  <1>1. RunningNow' = [RunningNow EXCEPT ![c] = RunningNow'[c]]
    BY <1>0
  <1>2. RunningNow'[c] \in {None} \cup {u \in Tasks : AtNow'[u] = c}
    OBVIOUS
  <1>3. \/ AtNow' = AtNow
        \/ RunningNow[c] # None /\ \E place \in (Cpus \cup {None}) \ {c} :
             AtNow' = [AtNow EXCEPT ![RunningNow[c]] = place]
    <2>1. CASE \A t \in Tasks : AtNow'[t] = AtNow[t]
      BY <2>1 DEF AtNow
    <2>2. CASE ~\A t \in Tasks : AtNow'[t] = AtNow[t]
      <3>1. PICK place \in (Cpus \cup {None}) \ {c} :
              \A t \in Tasks : AtNow'[t] = IF t = RunningNow[c] THEN place ELSE AtNow[t]
        BY <2>2
      <3>2. AtNow' = [AtNow EXCEPT ![RunningNow[c]] = place]
        BY <3>1 DEF AtNow
      <3> QED BY <2>2, <3>2, NoneFacts
    <2> QED BY <2>1, <2>2
  <1>4. Abstract!Switch(c)
    BY <1>1, <1>2, <1>3 DEF Abstract!Switch, AtNow, RunningNow
  <1> QED BY <1>4 DEF PlacementStep, Abstract!Next

\* What a sound state says of a CPU's current task.
LEMMA CurrHere ==
  ASSUME NEW v, NEW M, NEW X, NEW e, NEW m, Sound(v, M, X, e, m), NEW c \in Cpus
  PROVE  /\ v.rq[c].curr \in Tasks \cup {None}
         /\ v.rq[c].curr # None => v.se[v.rq[c].curr].cpu = c
         /\ \A s \in Tasks : v.se[s].on_rq \in BOOLEAN /\ v.se[s].cpu \in Cpus
  BY SoundFacts DEF RqType, SeType

\* A step that is not about t leaves t where it is; no CPU but c turns to another task.
LEMMA OthersStay ==
  ASSUME NEW c \in Cpus, NEW s \in Tasks \cup {None}, Others(Now, Now', c, s),
         \A d \in Cpus : rq[d].curr \in Tasks \cup {None}
  PROVE  /\ \A t \in Tasks \ {s} : AtNow'[t] = AtNow[t]
         /\ \A d \in Cpus \ {c} : RunningNow'[d] = RunningNow[d] /\ (s \in Tasks => RunningNow[d] # s)
  <1>1. Now.rq = rq /\ (Now').rq = rq' /\ Now.se = se /\ (Now').se = se'
    BY DEF Now
  <1>2. \A t \in Tasks \ {s} : se'[t].on_rq = se[t].on_rq /\ se'[t].cpu = se[t].cpu
    BY <1>1 DEF Others, SameTask
  <1>3. \A d \in Cpus \ {c} : rq'[d] = rq[d] /\ (s \in Tasks => rq[d].curr # s)
    BY <1>1 DEF Others
  <1>4. \A d \in Cpus \ {c} : rq[d].curr # None => rq[d].curr \in Tasks \ {s}
    BY <1>3, NoneFacts
  <1>5. \A t \in Tasks \ {s} : AtNow'[t] = AtNow[t]
    BY <1>2, MappedFacts
  <1>6. ASSUME NEW d \in Cpus \ {c} PROVE RunningNow'[d] = RunningNow[d] /\ (s \in Tasks => RunningNow[d] # s)
    BY <1>2, <1>3, <1>4, MappedFacts, NoneFacts
  <1> QED BY <1>5, <1>6

\* Every step of the run queues is a step of Placement or none: the task that the step is about
\* leaves with a Switch of its CPU if it runs there, and with a Move if it runs nowhere.
LEMMA NextMapped ==
  ASSUME IInv, Next
  PROVE  PlacementStep
  <1>1. PICK M \in [Cpus -> Int], X \in [Tasks -> Int] : Sound(Now, M, X, elapsed, moves)
    BY DEF IInv
  <1>2. Effect(Now, M, Now', elapsed', moves')
    BY <1>1, NextEffect
  <1>3. PICK M2, X2 : Sound(Now', M2, X2, elapsed', moves')
    BY <1>2 DEF Effect
  <1>4. PICK c \in Cpus, s \in Tasks \cup {None} : Others(Now, Now', c, s) /\ Turn(Now, Now', c, s)
    BY <1>2 DEF Effect
  <1>5. Now.rq = rq /\ (Now').rq = rq' /\ Now.se = se /\ (Now').se = se'
    BY DEF Now
  <1>6. /\ \A d \in Cpus : /\ rq[d].curr \in Tasks \cup {None}
                           /\ rq[d].curr # None => se[rq[d].curr].cpu = d
        /\ \A t \in Tasks : se[t].cpu \in Cpus
    BY <1>1, <1>5, CurrHere
  <1>7. /\ \A d \in Cpus : /\ rq'[d].curr \in Tasks \cup {None}
                           /\ rq'[d].curr # None => se'[rq'[d].curr].cpu = d
        /\ \A t \in Tasks : se'[t].cpu \in Cpus
    BY <1>3, <1>5, CurrHere
  <1>8. /\ \A t \in Tasks \ {s} : AtNow'[t] = AtNow[t]
        /\ \A d \in Cpus \ {c} : RunningNow'[d] = RunningNow[d] /\ (s \in Tasks => RunningNow[d] # s)
    BY <1>4, <1>6, OthersStay
  <1>9. RunningNow'[c] = None \/ (RunningNow'[c] \in Tasks /\ AtNow'[RunningNow'[c]] = c)
    BY <1>7, MappedFacts
  <1>10. CASE s \notin Tasks \/ AtNow'[s] = AtNow[s]
    <2>1. \A t \in Tasks : AtNow'[t] = AtNow[t]
      BY <1>8, <1>10
    <2> QED BY <1>8, <1>9, <2>1, SwitchStep
  <1>11. CASE s \in Tasks /\ AtNow'[s] # AtNow[s] /\ RunningNow[c] = s
    <2>1. AtNow[s] = c
      BY <1>6, <1>11, MappedFacts, NoneFacts
    <2>2. AtNow'[s] \in (Cpus \cup {None}) \ {c}
      BY <1>7, <1>11, <2>1, MappedFacts
    <2>3. \A t \in Tasks : AtNow'[t] = IF t = RunningNow[c] THEN AtNow'[s] ELSE AtNow[t]
      BY <1>8, <1>11
    <2> QED BY <1>8, <1>9, <1>11, <2>2, <2>3, SwitchStep
  <1>12. CASE s \in Tasks /\ AtNow'[s] # AtNow[s] /\ RunningNow[c] # s
    <2>1. ~(s = rq[c].curr /\ se[s].on_rq) /\ s # None
      BY <1>12, MappedFacts, NoneFacts
    <2>2. rq'[c].curr = rq[c].curr /\ (s = rq[c].curr /\ se'[s].on_rq => se[s].on_rq)
      BY <1>4, <1>5, <1>12, <2>1 DEF Turn
    <2>3. RunningNow'[c] = RunningNow[c]
      <3>1. CASE rq[c].curr = s
        BY <2>1, <2>2, <3>1, MappedFacts
      <3>2. CASE rq[c].curr = None
        BY <2>2, <3>2, MappedFacts
      <3>3. CASE rq[c].curr \in Tasks \ {s}
        BY <1>4, <1>5, <2>2, <3>3, MappedFacts DEF Others, SameTask
      <3> QED BY <1>6, <3>1, <3>2, <3>3
    <2>4. AtNow'[s] \in Cpus \cup {None}
      BY <1>7, <1>12, MappedFacts
    <2>5. \A d \in Cpus : RunningNow[d] # s /\ RunningNow'[d] = RunningNow[d]
      BY <1>8, <1>12, <2>3
    <2>6. \A t \in Tasks : AtNow'[t] = IF t = s THEN AtNow'[s] ELSE AtNow[t]
      BY <1>8
    <2> QED BY <1>12, <2>4, <2>5, <2>6, MoveStep
  <1> QED BY <1>10, <1>11, <1>12

\* At the beginning no task is queued and no CPU runs one.
LEMMA InitMapped == Init => Abstract!Init
  <1> SUFFICES ASSUME Init PROVE Abstract!Init
    OBVIOUS
  <1>1. \A s \in Tasks : ~se[s].on_rq
    BY DEF Init
  <1>2. \A c \in Cpus : rq[c].curr = None
    BY DEF Init
  <1>3. \A s \in Tasks : AtNow[s] = None
    BY <1>1, MappedFacts
  <1>4. AtNow \in [Tasks -> Cpus \cup {None}]
    BY <1>3 DEF AtNow
  <1>5. RunningNow = [c \in Cpus |-> None]
    BY <1>2 DEF RunningNow
  <1> QED BY <1>4, <1>5 DEF Abstract!Init, AtNow, RunningNow

\* The run queues implement Placement, as the balancer does: whatever is picked, put, set,
\* woken, detached or put back, a CPU runs only a task that is queued on it, and nothing but
\* a step of its own CPU takes a running task away.
THEOREM RunQueuesImplementPlacement == Spec => ImplementsPlacement
  <1>1. Init => Abstract!Init
    BY InitMapped
  <1>2. IInv /\ [Next]_vars =>
          [Abstract!Next]_<<[s \in Tasks |-> IF se[s].on_rq THEN se[s].cpu ELSE None],
                            [c \in Cpus |-> IF rq[c].curr # None /\ se[rq[c].curr].on_rq
                                            THEN rq[c].curr ELSE None]>>
    <2>1. CASE IInv /\ Next
      BY <2>1, NextMapped DEF PlacementStep, AtNow, RunningNow
    <2>2. CASE UNCHANGED vars
      BY <2>2 DEF vars
    <2> QED BY <2>1, <2>2
  <1> QED BY <1>1, <1>2, RunQueuesSound, PTL DEF Spec, ImplementsPlacement, Abstract!Spec
=============================================================================
