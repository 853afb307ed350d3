-------------------------- MODULE CfsBandwidthProofs --------------------------
(***************************************************************************)
(* CFS bandwidth control for every set of CPUs, every quota, period, slice *)
(* and number of tasks.                                                    *)
(***************************************************************************)
EXTENDS CfsBandwidth, ListLemmas

-----------------------------------------------------------------------------
(***************************************************************************)
(* The inductive invariant.                                                *)
(***************************************************************************)
\* The group entity is queued exactly when there is something to run.
Reachable(q) == q.on_rq <=> q.nr_running > 0 /\ ~q.throttled

\* What is known of the cfs_rq q of a CPU in the operation f (GroupReachable between the
\* operations).  Only check_enqueue_throttle has the first task counted and the group
\* entity not queued yet.
QueueInv(q, f) ==
  /\ f.op = "check" => q.nr_running > 0 /\ ~q.throttled
  /\ f.op # "check" => Reachable(q)
  /\ q.curr = "queued" => q.nr_running > 0
  /\ f.op = "dequeue" => q.nr_running > (IF q.curr = "queued" THEN 1 ELSE 0)
  /\ f.op \in {"sleep", "pick"} => q.nr_running > 0
  /\ f.op = "check" => q.curr = "none"

\* An overrun leaves traces: outside assign_cfs_rq_runtime, runtime_remaining is negative
\* only on a cfs_rq that is throttled, or is to be rescheduled, or whose task is not queued.
RuntimeInv(q, f) ==
  /\ f.assign => /\ q.runtime_enabled /\ q.runtime_remaining <= 0
                 /\ f.op \notin {"none", "schedule"} /\ (q.curr # "none" \/ f.op = "check")
  /\ ~q.runtime_enabled => q.runtime_remaining >= 0
  /\ ~f.assign /\ q.runtime_remaining < 0 /\ ~q.throttled =>
       \/ q.curr = "queued" /\ q.resched
       \/ q.curr = "sleeping"
       \/ f.op = "check"
  /\ q.nr_running > 0 => q.on_list

ListInv ==
  /\ Injective(throttled_list)
  /\ \A c \in Cpus : cfs_rq[c].throttled <=> c \in ToSet(throttled_list)

\* A CPU that is offline and has had tasks does not enforce the quota, so that the quota may be
\* raised while it is away.
OfflineInv ==
  /\ setter.todo \subseteq online
  /\ \A c \in Cpus \ online : /\ cfs_rq[c].on_list => ~cfs_rq[c].runtime_enabled
                              /\ rq[c].op # "enqueue"

TimerInv ==
  /\ throttled_list # <<>> /\ cfs_b.quota # RUNTIME_INF => cfs_b.period_active
  /\ cfs_b.period_active <=> period_timer.armed \/ walk["period"].pc # "idle"
  /\ period_timer.expires <= now + Period
  /\ \A t \in Timers : walk[t].pc = "visit" => walk[t].cur \in Cpus

IInv ==
  /\ TypeOK
  /\ \A c \in Cpus : QueueInv(cfs_rq[c], rq[c]) /\ RuntimeInv(cfs_rq[c], rq[c])
  /\ ListInv /\ OfflineInv /\ TimerInv

-----------------------------------------------------------------------------
(***************************************************************************)
(* The list and the period timer.                                          *)
(***************************************************************************)
FrameType == [op : Ops, assign : BOOLEAN]

\* list_del_rcu of a throttled cfs_rq.
LEMMA UnlinkFacts ==
  ASSUME TypeOK, ListInv, NEW c \in Cpus, cfs_rq[c].throttled, unlink(c)
  PROVE  /\ throttled_list' \in Seq(Cpus) /\ Injective(throttled_list')
         /\ ToSet(throttled_list') = ToSet(throttled_list) \ {c}
         /\ stale' \in [Cpus -> Cpus \cup {ListHead}]
  <1> DEFINE s == throttled_list
             k == Position(c)
  <1>1. s \in Seq(Cpus) /\ Injective(s) /\ stale \in [Cpus -> Cpus \cup {ListHead}]
    BY DEF TypeOK, ListInv
  <1>2. \E i \in DOMAIN s : s[i] = c
    BY DEF ListInv, ToSet
  <1>3. k \in DOMAIN s /\ s[k] = c
    BY <1>2 DEF Position
  <1>4. k \in 1 .. Len(s)
    BY <1>1, <1>3
  <1>5. throttled_list' = SubSeq(s, 1, k - 1) \o SubSeq(s, k + 1, Len(s))
    BY DEF unlink
  <1>6. Successor(c) \in Cpus \cup {ListHead}
    <2>1. Len(s) \in Nat /\ (k # Len(s) => k + 1 \in 1 .. Len(s))
      BY <1>1, <1>4
    <2> HIDE DEF k
    <2>2. k # Len(s) => s[k + 1] \in Cpus
      BY <1>1, <2>1
    <2> QED BY <1>1, <2>2 DEF Successor, k
  <1>7. stale' \in [Cpus -> Cpus \cup {ListHead}]
    BY <1>1, <1>6 DEF unlink
  <1> HIDE DEF k, s
  <1> QED BY <1>1, <1>3, <1>4, <1>5, <1>7, CutFacts DEF s

\* list_add_rcu at the head.
LEMMA LinkFacts ==
  ASSUME TypeOK, ListInv, NEW c \in Cpus, ~cfs_rq[c].throttled
  PROVE  LET s == <<c>> \o throttled_list
         IN  s \in Seq(Cpus) /\ Injective(s) /\ ToSet(s) = ToSet(throttled_list) \cup {c} /\ s # <<>>
  <1> DEFINE s == <<c>> \o throttled_list
  <1>1. throttled_list \in Seq(Cpus) /\ Injective(throttled_list) /\ c \notin ToSet(throttled_list)
    BY DEF TypeOK, ListInv
  <1>2. s \in Seq(Cpus) /\ ToSet(s) = {c} \cup ToSet(throttled_list) /\ Injective(s)
    BY <1>1, PrependFacts
  <1>3. ToSet(<<>>) = {}
    BY DEF ToSet
  <1> HIDE DEF s
  <1>4. s # <<>>
    BY <1>2, <1>3
  <1> QED BY <1>2, <1>4 DEF s

\* A product of naturals and what integer division makes of it.
LEMMA DivFacts ==
  ASSUME NEW a \in Nat, NEW p \in Nat \ {0}
  PROVE  /\ a \div p \in Nat /\ (a \div p + 1) * p \in Nat
         /\ (a \div p) * p <= a /\ a < (a \div p + 1) * p
         /\ (a \div p + 1) * p = (a \div p) * p + p
  <1> DEFINE d == a \div p
  <1>1. a = (p * d) + (a % p) /\ d \in Int /\ a % p \in 0 .. p - 1
    OBVIOUS
  <1>2. d \in Nat
    OBVIOUS
  <1> HIDE DEF d
  <1>3. p * d \in Int /\ p * d = d * p /\ (d + 1) * p = d * p + p
    BY <1>2
  <1>4. d * p <= a /\ a < d * p + p
    BY <1>1, <1>3
  <1>5. (d + 1) * p \in Nat
    BY <1>3, <1>4
  <1> QED BY <1>2, <1>3, <1>4, <1>5 DEF d

\* hrtimer_forward_now leaves the timer in the future, and within a period from now.
LEMMA ForwardFacts ==
  ASSUME now \in Nat, NEW e \in Nat, e <= now + Period
  PROVE  LET f == hrtimer_forward_now(e)
         IN  f \in Nat /\ now < f /\ e <= f /\ f <= now + Period
  <1>1. CASE now < e
    BY <1>1, TimeAssumption DEF hrtimer_forward_now
  <1>2. CASE e <= now
    <2> DEFINE a == now - e
               m == (a \div Period + 1) * Period
    <2>1. a \in Nat
      BY <1>2
    <2> HIDE DEF a
    <2>2. m \in Nat /\ a < m /\ m <= a + Period
      BY <2>1, TimeAssumption, DivFacts
    <2> HIDE DEF m
    <2>3. hrtimer_forward_now(e) = e + m
      BY <1>2 DEF hrtimer_forward_now, m, a
    <2> QED BY <1>2, <2>2, <2>3, TimeAssumption DEF a
  <1> QED BY <1>1, <1>2

-----------------------------------------------------------------------------
(***************************************************************************)
(* What every step of one CPU has in common.                               *)
(***************************************************************************)
\* start_cfs_bandwidth leaves the period timer running.
LEMMA StartFacts ==
  ASSUME IInv, NEW b \in CfsBType, b.period_active = cfs_b.period_active,
         start_cfs_bandwidth(b), UNCHANGED <<walk, now>>
  PROVE  cfs_b' \in CfsBType /\ period_timer' \in TimerType /\ TimerInv'
  <1>1. /\ period_timer \in TimerType /\ period_timer.expires \in Nat
        /\ now \in Nat /\ period_timer.expires <= now + Period
    BY DEF IInv, TypeOK, TimerType, TimerInv
  <1>2. cfs_b' \in CfsBType /\ cfs_b'.period_active
    BY DEF start_cfs_bandwidth, CfsBType
  <1>3. /\ period_timer' \in TimerType /\ period_timer'.expires <= now + Period
        /\ period_timer'.armed \/ walk["period"].pc # "idle"
    <2> DEFINE e == hrtimer_forward_now(period_timer.expires)
    <2>1. e \in Nat /\ e <= now + Period
      BY <1>1, ForwardFacts
    <2> HIDE DEF e
    <2>2. period_timer' = IF b.period_active THEN period_timer ELSE [armed |-> TRUE, expires |-> e]
      BY DEF start_cfs_bandwidth, e
    <2>3. CASE b.period_active
      BY <1>1, <2>2, <2>3 DEF IInv, TimerInv
    <2>4. CASE ~b.period_active
      <3>1. period_timer' = [armed |-> TRUE, expires |-> e]
        BY <2>2, <2>4
      <3> QED BY <2>1, <3>1 DEF TimerType
    <2> QED BY <2>3, <2>4
  <1> QED BY <1>2, <1>3 DEF IInv, TimerInv

\* A step that leaves the period timer alone.
LEMMA TimerKept ==
  ASSUME IInv, UNCHANGED <<period_timer, walk, now>>,
         cfs_b'.period_active = cfs_b.period_active, cfs_b'.quota = cfs_b.quota,
         throttled_list = <<>> => throttled_list' = <<>>
  PROVE  TimerInv'
  BY DEF IInv, TimerInv

\* What the history does when runtime leaves the pool, comes back, or the pool is refilled.
LEMMA HandedFacts ==
  ASSUME IInv, NEW a \in Int
  PROVE  /\ handed \in HandedType /\ handed.out \in Int /\ handed.back \in Nat /\ handed.slack \in Nat
         /\ handing(a) \in HandedType /\ handing(a).out = handed.out + a
         /\ handing(a).back = handed.back /\ handing(a).slack = handed.slack
         /\ returning(a) \in HandedType /\ returning(a).out = handed.out - a
         /\ returning(a).back >= handed.back /\ returning(a).back >= a - handed.out
         /\ returning(a).slack = handed.slack
         /\ refilling \in HandedType /\ refilling.out = 0 /\ refilling.back = 0
         /\ refilling.slack = walk["slack"].left
  <1>1. handed \in HandedType /\ handed.out \in Int /\ handed.back \in Nat /\ handed.slack \in Nat
    BY DEF IInv, TypeOK, HandedType
  <1>2. ASSUME NEW x \in Int
        PROVE  /\ handing(x) \in HandedType /\ handing(x).out = handed.out + x
               /\ handing(x).back = handed.back /\ handing(x).slack = handed.slack
    <2>1. PICK o \in Int : o = handed.out + x
      BY <1>1
    <2>2. handing(x) = [handed EXCEPT !.out = o]
      BY <2>1 DEF handing
    <2> QED BY <1>1, <2>1, <2>2 DEF HandedType
  <1>3. /\ returning(a) \in HandedType /\ returning(a).out = handed.out - a
        /\ returning(a).back >= handed.back /\ returning(a).back >= a - handed.out
        /\ returning(a).slack = handed.slack
    <2>1. PICK h \in HandedType : h = handing(-a)
      BY <1>2
    <2>2. h.out = handed.out - a /\ h.back = handed.back /\ h.slack = handed.slack
      BY <1>1, <1>2, <2>1
    <2>3. PICK k \in Nat : /\ k = IF a - handed.out > h.back THEN a - handed.out ELSE h.back
                           /\ k >= handed.back /\ k >= a - handed.out
      BY <1>1, <2>2
    <2>4. returning(a) = [h EXCEPT !.back = k]
      BY <2>1, <2>3 DEF returning
    <2> QED BY <2>2, <2>3, <2>4 DEF HandedType
  <1>4. /\ refilling \in HandedType /\ refilling.out = 0 /\ refilling.back = 0
        /\ refilling.slack = walk["slack"].left
    <2>1. walk["slack"].left \in Nat
      BY DEF IInv, TypeOK, WalkType, Timers
    <2> QED BY <2>1 DEF refilling, HandedType
  <1> QED BY <1>1, <1>2, <1>3, <1>4

\* The cfs_rq of c becomes q, and f is the operation that holds its rq->lock.
LEMMA RqStep ==
  ASSUME IInv, NEW c \in Cpus, NEW q \in CfsRqType, NEW f \in FrameType,
         Leave(c, q, f), QueueInv(q, f), RuntimeInv(q, f),
         cfs_b' \in CfsBType /\ period_timer' \in TimerType /\ slack_timer' \in TimerType /\ handed' \in HandedType,
         walk' \in [Timers -> WalkType], setter' \in [todo : SUBSET Cpus, left : Nat],
         online' \subseteq Cpus, hotplugs' \in Nat, now' \in Nat, TimerInv', OfflineInv',
         throttled_list' \in Seq(Cpus), Injective(throttled_list'), stale' \in [Cpus -> Cpus \cup {ListHead}],
         ToSet(throttled_list') = (ToSet(throttled_list) \ {c}) \cup (IF q.throttled THEN {c} ELSE {})
  PROVE  IInv'
  <1>1. /\ cfs_rq' = [cfs_rq EXCEPT ![c] = q] /\ rq' = [rq EXCEPT ![c] = f]
        /\ cfs_rq \in [Cpus -> CfsRqType] /\ rq \in [Cpus -> FrameType]
    BY DEF Leave, IInv, TypeOK, FrameType
  <1>2. /\ cfs_rq' \in [Cpus -> CfsRqType] /\ rq' \in [Cpus -> FrameType]
        /\ cfs_rq'[c] = q /\ rq'[c] = f
        /\ \A d \in Cpus \ {c} : cfs_rq'[d] = cfs_rq[d] /\ rq'[d] = rq[d]
    BY <1>1
  <1>3. TypeOK'
    BY <1>2 DEF TypeOK, FrameType
  <1>4. \A d \in Cpus : QueueInv(cfs_rq'[d], rq'[d]) /\ RuntimeInv(cfs_rq'[d], rq'[d])
    BY <1>2 DEF IInv
  <1>5. ListInv'
    BY <1>2 DEF IInv, ListInv
  <1> QED BY <1>3, <1>4, <1>5 DEF IInv

\* The same, in a step of the scheduler.
LEMMA QueueStep ==
  ASSUME IInv, NEW c \in Cpus, NEW q \in CfsRqType, NEW f \in FrameType,
         Leave(c, q, f), QueueInv(q, f), RuntimeInv(q, f),
         c \notin online => (q.on_list => ~q.runtime_enabled) /\ f.op # "enqueue",
         cfs_b' \in CfsBType /\ period_timer' \in TimerType /\ slack_timer' \in TimerType /\ handed' \in HandedType,
         TimerInv', UNCHANGED <<walk, envVars>>,
         throttled_list' \in Seq(Cpus), Injective(throttled_list'), stale' \in [Cpus -> Cpus \cup {ListHead}],
         ToSet(throttled_list') = (ToSet(throttled_list) \ {c}) \cup (IF q.throttled THEN {c} ELSE {})
  PROVE  IInv'
  <1>1. UNCHANGED <<walk, setter, online, hotplugs, now>>
    BY DEF envVars
  <1>2. /\ walk' \in [Timers -> WalkType] /\ setter' \in [todo : SUBSET Cpus, left : Nat]
        /\ online' \subseteq Cpus /\ hotplugs' \in Nat /\ now' \in Nat
    BY <1>1 DEF IInv, TypeOK
  <1>3. /\ cfs_rq' = [cfs_rq EXCEPT ![c] = q] /\ rq' = [rq EXCEPT ![c] = f]
        /\ cfs_rq \in [Cpus -> CfsRqType] /\ rq \in [Cpus -> FrameType]
    BY DEF Leave, IInv, TypeOK, FrameType
  <1>4. /\ cfs_rq'[c] = q /\ rq'[c] = f
        /\ \A d \in Cpus \ {c} : cfs_rq'[d] = cfs_rq[d] /\ rq'[d] = rq[d]
    BY <1>3
  <1>5. OfflineInv'
    BY <1>1, <1>4 DEF IInv, OfflineInv
  <1> QED BY <1>2, <1>5, RqStep

\* A step that leaves the cfs_rqs and their list alone.
LEMMA PoolStep ==
  ASSUME IInv, UNCHANGED <<throttled_list, stale, cfs_rq, rq, online, hotplugs>>,
         cfs_b' \in CfsBType, period_timer' \in TimerType, slack_timer' \in TimerType,
         walk' \in [Timers -> WalkType], handed' \in HandedType, now' \in Nat, TimerInv',
         setter' \in [todo : SUBSET Cpus, left : Nat], setter'.todo \subseteq online
  PROVE  IInv'
  BY DEF IInv, TypeOK, ListInv, OfflineInv

\* The same, where nothing is throttled or unthrottled and the pool is left alone.
LEMMA LeaveIInv ==
  ASSUME IInv, NEW c \in Cpus, NEW q \in CfsRqType, NEW f \in FrameType,
         Leave(c, q, f), UNCHANGED unchangedPool, QueueInv(q, f), RuntimeInv(q, f),
         c \notin online => (q.on_list => ~q.runtime_enabled) /\ f.op # "enqueue",
         q.throttled = cfs_rq[c].throttled
  PROVE  IInv'
  <1>1. UNCHANGED <<cfs_b, throttled_list, stale, period_timer, slack_timer, walk, envVars, handed>>
    BY DEF unchangedPool, timerVars
  <1>2. /\ cfs_b' \in CfsBType /\ period_timer' \in TimerType /\ slack_timer' \in TimerType /\ handed' \in HandedType
        /\ throttled_list' \in Seq(Cpus) /\ stale' \in [Cpus -> Cpus \cup {ListHead}]
    BY <1>1 DEF IInv, TypeOK
  <1>3. Injective(throttled_list')
    BY <1>1 DEF IInv, ListInv
  <1>4. ToSet(throttled_list') = (ToSet(throttled_list) \ {c}) \cup (IF q.throttled THEN {c} ELSE {})
    BY <1>1 DEF IInv, ListInv
  <1>5. TimerInv'
    BY <1>1, TimerKept DEF envVars
  <1> QED BY <1>1, <1>2, <1>3, <1>4, <1>5, QueueStep

\* check_cfs_rq_runtime and check_enqueue_throttle: a cfs_rq that has nothing left is throttled.
LEMMA ThrottleIInv ==
  ASSUME IInv, NEW c \in Cpus, NEW q \in CfsRqType, LeaveOrThrottle(c, q),
         Reachable(q), q.curr = "queued" => q.nr_running > 0,
         ~q.runtime_enabled => q.runtime_remaining >= 0, q.nr_running > 0 => q.on_list,
         c \notin online => (q.on_list => ~q.runtime_enabled),
         q.throttled = cfs_rq[c].throttled
  PROVE  IInv'
  <1>1. Unlocked \in FrameType /\ Unlocked.op = "none" /\ ~Unlocked.assign
    BY DEF Unlocked, FrameType, Ops
  <1>2. UNCHANGED <<stale, slack_timer, walk, envVars, handed>>
    BY DEF LeaveOrThrottle
  <1>3. CASE ~Overrun(q)
    <2>1. Leave(c, q, Unlocked) /\ UNCHANGED unchangedPool
      BY <1>2, <1>3 DEF LeaveOrThrottle, unchangedPool, timerVars
    <2>2. QueueInv(q, Unlocked)
      BY <1>1 DEF QueueInv
    <2>3. q.runtime_remaining \in Int /\ (q.runtime_remaining < 0 => q.throttled)
      BY <1>3 DEF Overrun, CfsRqType
    <2>4. RuntimeInv(q, Unlocked)
      BY <1>1, <2>3 DEF RuntimeInv
    <2> QED BY <1>1, <2>1, <2>2, <2>4, LeaveIInv
  <1>4. CASE Overrun(q)
    <2> DEFINE r == throttled(q)
    <2>1. Leave(c, r, Unlocked) /\ throttle_cfs_rq(c)
      BY <1>4 DEF LeaveOrThrottle
    <2>2. /\ r \in CfsRqType /\ r.throttled /\ ~r.on_rq /\ r.nr_running = q.nr_running /\ r.curr = q.curr
          /\ r.runtime_enabled = q.runtime_enabled /\ r.runtime_remaining = q.runtime_remaining
          /\ r.on_list = q.on_list
      BY DEF throttled, CfsRqType
    <2> HIDE DEF r
    <2>3. QueueInv(r, Unlocked) /\ RuntimeInv(r, Unlocked)
      BY <1>1, <2>2 DEF QueueInv, RuntimeInv, Reachable
    <2>4. ~q.throttled /\ ~cfs_rq[c].throttled
      BY <1>4 DEF Overrun
    <2>5. /\ throttled_list' \in Seq(Cpus) /\ Injective(throttled_list')
          /\ ToSet(throttled_list') = ToSet(throttled_list) \cup {c}
      BY <2>1, <2>4, LinkFacts DEF IInv, throttle_cfs_rq
    <2>6. cfs_b' \in CfsBType /\ period_timer' \in TimerType /\ TimerInv'
      <3>1. CASE throttled_list = <<>>
        <4>1. start_cfs_bandwidth(cfs_b)
          BY <2>1, <3>1 DEF throttle_cfs_rq
        <4>2. cfs_b \in CfsBType
          BY DEF IInv, TypeOK
        <4> QED BY <1>2, <4>1, <4>2, StartFacts DEF envVars
      <3>2. CASE throttled_list # <<>>
        <4>1. UNCHANGED <<cfs_b, period_timer>>
          BY <2>1, <3>2 DEF throttle_cfs_rq
        <4>2. TimerInv'
          BY <1>2, <3>2, <4>1, TimerKept DEF envVars
        <4> QED BY <4>1, <4>2 DEF IInv, TypeOK
      <3> QED BY <3>1, <3>2
    <2>7. /\ ToSet(throttled_list') = (ToSet(throttled_list) \ {c}) \cup (IF r.throttled THEN {c} ELSE {})
          /\ stale' \in [Cpus -> Cpus \cup {ListHead}] /\ slack_timer' \in TimerType /\ handed' \in HandedType
      BY <1>2, <2>2, <2>5 DEF IInv, TypeOK
    <2> QED BY <1>1, <1>2, <2>1, <2>2, <2>3, <2>5, <2>6, <2>7, QueueStep
  <1> QED BY <1>3, <1>4

-----------------------------------------------------------------------------
(***************************************************************************)
(* What an operation does after update_curr.                               *)
(***************************************************************************)
\* The cfs_rq q that operation op has got so far.
Mid(c, op, q) ==
  /\ q \in CfsRqType /\ op \in Ops \ {"none", "schedule"}
  /\ QueueInv(q, Frame(op, FALSE)) /\ RuntimeInv(q, Frame(op, FALSE))
  /\ q.throttled = cfs_rq[c].throttled
  /\ c \notin online => (q.on_list => ~q.runtime_enabled) /\ op # "enqueue"

\* What the activation records are.
LEMMA FrameFacts ==
  /\ Unlocked \in FrameType /\ Unlocked.op = "none" /\ ~Unlocked.assign
  /\ \A op \in Ops, a \in BOOLEAN : /\ Frame(op, a) \in FrameType
                                    /\ Frame(op, a).op = op /\ Frame(op, a).assign = a
  BY DEF Unlocked, FrameType, Ops, Frame

\* Everything but what is left and when it expires.
Kept(q, r) ==
  /\ r.runtime_enabled = q.runtime_enabled /\ r.throttled = q.throttled /\ r.nr_running = q.nr_running
  /\ r.curr = q.curr /\ r.exec_start = q.exec_start /\ r.on_rq = q.on_rq /\ r.on_list = q.on_list
  /\ r.resched = q.resched /\ r.balancing = q.balancing /\ r.woken = q.woken

\* Accounting changes what is left and when it expires, on a cfs_rq that enforces the quota.
LEMMA AccountFacts ==
  ASSUME NEW q0 \in CfsRqType, NEW delta \in Nat
  PROVE  LET q == account_cfs_rq_runtime(q0, delta)
         IN  /\ q \in CfsRqType /\ Kept(q0, q)
             /\ ~q0.runtime_enabled => q = q0
             /\ ~NeedsRuntime(q) /\ q0.runtime_enabled => q.runtime_remaining > 0
  <1> DEFINE q1 == [q0 EXCEPT !.runtime_remaining = q0.runtime_remaining - delta]
             q2 == [q1 EXCEPT !.runtime_expires = q1.runtime_expires + TickNsec]
             q3 == [q1 EXCEPT !.runtime_remaining = 0]
             q  == account_cfs_rq_runtime(q0, delta)
  <1>1. q1 \in CfsRqType /\ Kept(q0, q1)
    BY DEF CfsRqType, Kept
  <1>2. q0 \in CfsRqType /\ Kept(q0, q0)
    BY DEF Kept
  <1>3. q2 \in CfsRqType /\ Kept(q1, q2)
    <2>1. q1.runtime_expires + TickNsec \in Nat
      BY <1>1, TimeAssumption DEF CfsRqType
    <2> HIDE DEF q1
    <2> QED BY <1>1, <2>1 DEF CfsRqType, Kept
  <1>4. q3 \in CfsRqType /\ Kept(q1, q3)
    <2> HIDE DEF q1
    <2> QED BY <1>1 DEF CfsRqType, Kept
  <1>5. q = q0 \/ q = q1 \/ q = q2 \/ q = q3
    BY Zenon DEF account_cfs_rq_runtime, expire_cfs_rq_runtime
  <1>6. ~q0.runtime_enabled => q = q0
    BY DEF account_cfs_rq_runtime
  <1> HIDE DEF q, q1, q2, q3
  <1>7. Kept(q0, q2) /\ Kept(q0, q3)
    BY <1>1, <1>3, <1>4 DEF Kept
  <1>8. q \in CfsRqType /\ Kept(q0, q)
    BY <1>1, <1>2, <1>3, <1>4, <1>5, <1>7
  <1>9. ~NeedsRuntime(q) /\ q0.runtime_enabled => q.runtime_remaining > 0
    <2>1. q.runtime_enabled = q0.runtime_enabled /\ q.runtime_remaining \in Int
      BY <1>8 DEF CfsRqType, Kept
    <2> QED BY <2>1 DEF NeedsRuntime
  <1> QED BY <1>6, <1>8, <1>9 DEF q

\* enqueue_entity.
LEMMA EnqueueIInv ==
  ASSUME IInv, NEW c \in Cpus, NEW q, Mid(c, "enqueue", q), enqueue_entity(c, q)
  PROVE  IInv'
  <1> DEFINE checks == q.nr_running = 0 /\ q.runtime_enabled /\ q.curr = "none" /\ ~q.throttled
             added  == [q EXCEPT !.nr_running = @ + 1, !.on_list = TRUE, !.woken = @ + 1]
             qc     == IF checks THEN account_cfs_rq_runtime(added, 0) ELSE added
             r      == [qc EXCEPT !.on_rq = qc.on_rq \/ ~qc.throttled]
  <1>1. /\ q \in CfsRqType /\ Reachable(q) /\ c \in online /\ q.throttled = cfs_rq[c].throttled
        /\ ~q.runtime_enabled => q.runtime_remaining >= 0
        /\ q.runtime_remaining < 0 /\ ~q.throttled => (q.curr = "queued" /\ q.resched) \/ q.curr = "sleeping"
    BY FrameFacts DEF Mid, QueueInv, RuntimeInv, Ops
  <1>2. q.nr_running \in Nat /\ q.woken \in Nat /\ q.runtime_remaining \in Int
    BY <1>1 DEF CfsRqType
  <1>3. /\ added \in CfsRqType /\ added.nr_running = q.nr_running + 1 /\ added.on_list
        /\ added.throttled = q.throttled /\ added.on_rq = q.on_rq /\ added.curr = q.curr
        /\ added.resched = q.resched /\ added.runtime_enabled = q.runtime_enabled
        /\ added.runtime_remaining = q.runtime_remaining
    <2>1. PICK n \in Nat, w \in Nat : n = q.nr_running + 1 /\ w = q.woken + 1
      BY <1>2
    <2>2. added = [q EXCEPT !.nr_running = n, !.on_list = TRUE, !.woken = w]
      BY <2>1
    <2>3. added \in CfsRqType
      BY <1>1, <2>2 DEF CfsRqType
    <2>4. added.nr_running = n
      BY <1>1, <2>2 DEF CfsRqType
    <2> QED BY <1>1, <2>1, <2>2, <2>3, <2>4 DEF CfsRqType
  <1>4. /\ (checks /\ NeedsRuntime(qc) /\ Leave(c, qc, Frame("check", TRUE)))
           \/ (~(checks /\ NeedsRuntime(qc)) /\ Leave(c, r, Unlocked))
        /\ UNCHANGED unchangedPool
    BY DEF enqueue_entity
  <1> HIDE DEF added
  <1>5. /\ qc \in CfsRqType /\ qc.nr_running = q.nr_running + 1 /\ qc.on_list
        /\ qc.throttled = q.throttled /\ qc.on_rq = q.on_rq /\ qc.curr = q.curr
        /\ qc.resched = q.resched /\ qc.runtime_enabled = q.runtime_enabled
        /\ ~checks => qc.runtime_remaining = q.runtime_remaining
        /\ checks /\ ~NeedsRuntime(qc) => qc.runtime_remaining > 0
    <2>1. CASE checks
      <3>1. qc = account_cfs_rq_runtime(added, 0) /\ added.runtime_enabled
        BY <2>1, <1>3
      <3> HIDE DEF qc
      <3>2. 0 \in Nat
        OBVIOUS
      <3>3. qc \in CfsRqType /\ Kept(added, qc) /\ (~NeedsRuntime(qc) => qc.runtime_remaining > 0)
        BY <3>1, <3>2, <1>3, AccountFacts
      <3> QED BY <2>1, <3>3, <1>3 DEF Kept
    <2>2. CASE ~checks
      BY <2>2, <1>3
    <2> QED BY <2>1, <2>2
  <1> HIDE DEF qc
  <1>6. CASE checks /\ NeedsRuntime(qc)
    <2> DEFINE f == Frame("check", TRUE)
    <2>1. f \in FrameType /\ f.op = "check" /\ f.assign
      BY FrameFacts DEF Ops
    <2> HIDE DEF f
    <2>2. QueueInv(qc, f)
      BY <2>1, <1>2, <1>5, <1>6 DEF QueueInv
    <2>3. RuntimeInv(qc, f)
      BY <2>1, <1>5, <1>6 DEF RuntimeInv, NeedsRuntime
    <2>4. Leave(c, qc, f)
      BY <1>4, <1>6 DEF f
    <2> QED BY <1>1, <1>4, <1>5, <2>1, <2>2, <2>3, <2>4, LeaveIInv
  <1>7. CASE ~(checks /\ NeedsRuntime(qc))
    <2>1. /\ r \in CfsRqType /\ r.nr_running = q.nr_running + 1 /\ r.on_list
          /\ r.throttled = q.throttled /\ r.curr = q.curr
          /\ r.resched = q.resched /\ r.runtime_enabled = q.runtime_enabled
          /\ r.runtime_remaining = qc.runtime_remaining
          /\ r.on_rq <=> q.on_rq \/ ~q.throttled
      BY <1>5 DEF CfsRqType
    <2>2. Leave(c, r, Unlocked)
      BY <1>4, <1>7
    <2> HIDE DEF r
    <2>3. QueueInv(r, Unlocked)
      BY <1>1, <1>2, <2>1, FrameFacts DEF QueueInv, Reachable
    <2>4. ~r.runtime_enabled => r.runtime_remaining >= 0
      BY <1>1, <1>5, <2>1
    <2>5. r.runtime_remaining < 0 => qc.runtime_remaining = q.runtime_remaining
      <3>1. qc.runtime_remaining \in Int /\ r.runtime_remaining = qc.runtime_remaining
        BY <1>5, <2>1 DEF CfsRqType
      <3>2. r.runtime_remaining < 0 => ~(qc.runtime_remaining > 0)
        BY <3>1
      <3> QED BY <1>5, <1>7, <3>2
    <2>6. RuntimeInv(r, Unlocked)
      BY <1>1, <2>1, <2>4, <2>5, FrameFacts DEF RuntimeInv
    <2> QED BY <1>1, <1>4, <2>1, <2>2, <2>3, <2>6, FrameFacts, LeaveIInv
  <1> QED BY <1>6, <1>7

\* put_prev_entity.
LEMMA PutIInv ==
  ASSUME IInv, NEW c \in Cpus, NEW op \in {"put", "pick"}, NEW q, Mid(c, op, q), put_prev_entity(c, q)
  PROVE  IInv'
  <1> DEFINE r == [q EXCEPT !.curr = "none", !.exec_start = 0, !.resched = FALSE]
  <1>1. /\ q \in CfsRqType /\ Reachable(q) /\ q.throttled = cfs_rq[c].throttled
        /\ ~q.runtime_enabled => q.runtime_remaining >= 0
        /\ q.nr_running > 0 => q.on_list
        /\ c \notin online => (q.on_list => ~q.runtime_enabled)
    BY FrameFacts DEF Mid, QueueInv, RuntimeInv, Ops
  <1>2. /\ r \in CfsRqType /\ r.curr = "none" /\ r.nr_running = q.nr_running /\ r.throttled = q.throttled
        /\ r.on_rq = q.on_rq /\ r.runtime_enabled = q.runtime_enabled
        /\ r.runtime_remaining = q.runtime_remaining /\ r.on_list = q.on_list
    BY <1>1 DEF CfsRqType
  <1>3. LeaveOrThrottle(c, r)
    BY DEF put_prev_entity
  <1> HIDE DEF r
  <1>4. Reachable(r)
    BY <1>1, <1>2 DEF Reachable
  <1> QED BY <1>1, <1>2, <1>3, <1>4, ThrottleIInv

\* check_enqueue_throttle.
LEMMA CheckIInv ==
  ASSUME IInv, NEW c \in Cpus, NEW q, Mid(c, "check", q), check_enqueue_throttle(c, q)
  PROVE  IInv'
  <1> DEFINE r == [q EXCEPT !.on_rq = TRUE]
  <1>1. /\ q \in CfsRqType /\ q.throttled = cfs_rq[c].throttled
        /\ q.nr_running > 0 /\ ~q.throttled /\ q.curr = "none" /\ q.on_list
        /\ ~q.runtime_enabled => q.runtime_remaining >= 0
        /\ c \notin online => (q.on_list => ~q.runtime_enabled)
    BY FrameFacts DEF Mid, QueueInv, RuntimeInv, Ops
  <1>2. /\ r \in CfsRqType /\ r.curr = q.curr /\ r.nr_running = q.nr_running /\ r.throttled = q.throttled
        /\ r.on_rq /\ r.runtime_enabled = q.runtime_enabled
        /\ r.runtime_remaining = q.runtime_remaining /\ r.on_list = q.on_list
    BY <1>1 DEF CfsRqType
  <1>3. LeaveOrThrottle(c, r)
    BY DEF check_enqueue_throttle
  <1> HIDE DEF r
  <1>4. Reachable(r)
    BY <1>1, <1>2 DEF Reachable
  <1> QED BY <1>1, <1>2, <1>3, <1>4, ThrottleIInv

\* dequeue_entity, which may give back what the last task leaves.
LEMMA DequeueIInv ==
  ASSUME IInv, NEW c \in Cpus, NEW sleeps \in BOOLEAN, NEW op \in {"dequeue", "sleep"},
         sleeps <=> op = "sleep", NEW q, Mid(c, op, q), dequeue_entity(c, q, sleeps)
  PROVE  IInv'
  <1> DEFINE last == q.nr_running = 1
             r == [q EXCEPT !.nr_running = @ - 1,
                            !.curr = IF sleeps THEN "sleeping" ELSE @,
                            !.runtime_remaining = IF last /\ GivesBack(q) THEN MinRuntime ELSE @,
                            !.on_rq = @ /\ ~last]
             f == IF sleeps THEN Frame("schedule", FALSE) ELSE Unlocked
  <1>1. /\ q \in CfsRqType /\ Reachable(q) /\ q.throttled = cfs_rq[c].throttled
        /\ q.nr_running > 0 /\ (~sleeps /\ q.curr = "queued" => q.nr_running > 1)
        /\ ~q.runtime_enabled => q.runtime_remaining >= 0
        /\ q.runtime_remaining < 0 /\ ~q.throttled => (q.curr = "queued" /\ q.resched) \/ q.curr = "sleeping"
        /\ q.on_list
        /\ c \notin online => (q.on_list => ~q.runtime_enabled)
    <2>1. Frame(op, FALSE).op = op /\ ~Frame(op, FALSE).assign /\ op # "check"
      BY FrameFacts DEF Ops
    <2>2. q.nr_running > 0 /\ (~sleeps /\ q.curr = "queued" => q.nr_running > 1)
      <3>1. q.nr_running \in Nat
        BY DEF Mid, CfsRqType
      <3>2. op = "sleep" => q.nr_running > 0
        BY <2>1 DEF Mid, QueueInv
      <3>3. op = "dequeue" => q.nr_running > (IF q.curr = "queued" THEN 1 ELSE 0)
        BY <2>1 DEF Mid, QueueInv
      <3> QED BY <3>1, <3>2, <3>3
    <2> QED BY <2>1, <2>2 DEF Mid, QueueInv, RuntimeInv
  <1>2. q.nr_running \in Nat \ {0} /\ q.runtime_remaining \in Int /\ MinRuntime \in Nat
    BY <1>1, TimeAssumption DEF CfsRqType
  <1>3. f \in FrameType /\ f.op \in {"none", "schedule"} /\ ~f.assign
    BY FrameFacts DEF Ops
  <1>4. /\ Leave(c, r, f)
        /\ IF last THEN return_cfs_rq_runtime(q) ELSE UNCHANGED <<cfs_b, slack_timer, handed>>
        /\ UNCHANGED <<throttled_list, stale, period_timer, walk, envVars>>
    BY DEF dequeue_entity
  <1>5. /\ r \in CfsRqType /\ r.nr_running = q.nr_running - 1 /\ r.throttled = q.throttled
        /\ r.on_list = q.on_list /\ r.resched = q.resched /\ r.runtime_enabled = q.runtime_enabled
        /\ r.curr = (IF sleeps THEN "sleeping" ELSE q.curr)
        /\ r.runtime_remaining = (IF last /\ GivesBack(q) THEN MinRuntime ELSE q.runtime_remaining)
        /\ r.on_rq <=> q.on_rq /\ ~last
    <2>1. PICK n \in Nat, k \in {"none", "queued", "sleeping"}, m \in Int, b \in BOOLEAN :
             /\ n = q.nr_running - 1 /\ k = (IF sleeps THEN "sleeping" ELSE q.curr)
             /\ m = (IF last /\ GivesBack(q) THEN MinRuntime ELSE q.runtime_remaining)
             /\ b = (q.on_rq /\ ~last)
      <3>1. q.nr_running - 1 \in Nat
        BY <1>2
      <3>2. (IF sleeps THEN "sleeping" ELSE q.curr) \in {"none", "queued", "sleeping"}
        BY <1>1 DEF CfsRqType
      <3>3. (IF last /\ GivesBack(q) THEN MinRuntime ELSE q.runtime_remaining) \in Int
        BY <1>2
      <3> QED BY <3>1, <3>2, <3>3, Zenon
    <2>2. r = [q EXCEPT !.nr_running = n, !.curr = k, !.runtime_remaining = m, !.on_rq = b]
      BY <2>1
    <2> HIDE DEF r
    <2>3. r \in CfsRqType
      BY <1>1, <2>2 DEF CfsRqType
    <2>4. /\ r.nr_running = n /\ r.curr = k /\ r.runtime_remaining = m /\ r.on_rq = b
          /\ r.throttled = q.throttled
          /\ r.on_list = q.on_list /\ r.resched = q.resched /\ r.runtime_enabled = q.runtime_enabled
      BY <1>1, <2>2 DEF CfsRqType
    <2> QED BY <2>1, <2>3, <2>4, Zenon
  <1> HIDE DEF r, f
  <1>6. QueueInv(r, f)
    <2>1. Reachable(r)
      BY <1>1, <1>2, <1>5 DEF Reachable
    <2>2. r.curr = "queued" => r.nr_running > 0
      BY <1>1, <1>2, <1>5
    <2> QED BY <1>3, <2>1, <2>2 DEF QueueInv
  <1>7. RuntimeInv(r, f)
    <2>1. last /\ GivesBack(q) => r.runtime_enabled /\ r.runtime_remaining >= 0 /\ ~(r.runtime_remaining < 0)
      BY <1>2, <1>5 DEF GivesBack
    <2>2. ~(last /\ GivesBack(q)) => r.runtime_remaining = q.runtime_remaining
      BY <1>5
    <2> QED BY <1>1, <1>3, <1>5, <2>1, <2>2 DEF RuntimeInv
  <1>8. /\ cfs_b' \in CfsBType /\ slack_timer' \in TimerType /\ handed' \in HandedType
        /\ cfs_b'.period_active = cfs_b.period_active /\ cfs_b'.quota = cfs_b.quota
    <2>1. cfs_b \in CfsBType /\ slack_timer \in TimerType /\ handed \in HandedType /\ now \in Nat
      BY DEF IInv, TypeOK
    <2>2. CASE UNCHANGED <<cfs_b, slack_timer, handed>>
      BY <2>1, <2>2
    <2>3. CASE GivesBack(q) /\ return_cfs_rq_runtime(q) /\ ~UNCHANGED <<cfs_b, slack_timer, handed>>
      <3> DEFINE slack == q.runtime_remaining - MinRuntime
                 b == [cfs_b EXCEPT !.runtime = @ + slack]
      <3>1. slack \in Nat
        BY <1>2, <2>3 DEF GivesBack
      <3>2. cfs_b' = b /\ slack_timer' = start_cfs_slack_bandwidth(b) /\ handed' = returning(slack)
        BY <2>3 DEF return_cfs_rq_runtime
      <3> HIDE DEF slack
      <3>3. b \in CfsBType /\ b.period_active = cfs_b.period_active /\ b.quota = cfs_b.quota
        BY <2>1, <3>1 DEF CfsBType
      <3> HIDE DEF b
      <3>4. slack_timer' \in TimerType
        BY <2>1, <3>2, TimeAssumption DEF start_cfs_slack_bandwidth, TimerType
      <3>5. handed' \in HandedType
        BY <3>1, <3>2, HandedFacts
      <3> QED BY <2>1, <3>2, <3>3, <3>4, <3>5
    <2> QED BY <1>4, <2>2, <2>3 DEF return_cfs_rq_runtime
  <1>9. TimerInv'
    BY <1>4, <1>8, TimerKept DEF envVars
  <1>10. /\ period_timer' \in TimerType /\ throttled_list' \in Seq(Cpus) /\ Injective(throttled_list')
         /\ stale' \in [Cpus -> Cpus \cup {ListHead}]
         /\ ToSet(throttled_list') = (ToSet(throttled_list) \ {c}) \cup (IF r.throttled THEN {c} ELSE {})
    BY <1>1, <1>4, <1>5 DEF IInv, TypeOK, ListInv
  <1> QED BY <1>1, <1>3, <1>4, <1>5, <1>6, <1>7, <1>8, <1>9, <1>10, QueueStep

\* The pick loop at the group's cfs_rq.
LEMMA PickIInv ==
  ASSUME IInv, NEW c \in Cpus, NEW q, Mid(c, "pick", q), pick_next_task_fair(c, q)
  PROVE  IInv'
  <1>1. /\ q \in CfsRqType /\ Reachable(q) /\ q.throttled = cfs_rq[c].throttled
        /\ q.nr_running > 0 /\ q.on_list
        /\ ~q.runtime_enabled => q.runtime_remaining >= 0
        /\ c \notin online => (q.on_list => ~q.runtime_enabled)
    BY FrameFacts DEF Mid, QueueInv, RuntimeInv, Ops
  <1>2. CASE /\ ~NeedsRuntime(q)
             /\ Leave(c, [q EXCEPT !.curr = "queued", !.exec_start = now, !.resched = FALSE], Unlocked)
             /\ UNCHANGED unchangedPool
    <2> DEFINE r == [q EXCEPT !.curr = "queued", !.exec_start = now, !.resched = FALSE]
    <2>1. now \in Nat
      BY DEF IInv, TypeOK
    <2>2. /\ r \in CfsRqType /\ r.nr_running = q.nr_running /\ r.throttled = q.throttled
          /\ r.on_rq = q.on_rq /\ r.runtime_enabled = q.runtime_enabled
          /\ r.runtime_remaining = q.runtime_remaining /\ r.on_list = q.on_list
      BY <1>1, <2>1 DEF CfsRqType
    <2>3. Leave(c, r, Unlocked)
      BY <1>2
    <2> HIDE DEF r
    <2>4. QueueInv(r, Unlocked)
      BY <1>1, <2>2, FrameFacts DEF QueueInv, Reachable
    <2>5. q.runtime_remaining \in Int /\ ~(q.runtime_remaining < 0)
      BY <1>1, <1>2 DEF NeedsRuntime, CfsRqType
    <2>6. RuntimeInv(r, Unlocked)
      BY <1>1, <2>2, <2>5, FrameFacts DEF RuntimeInv
    <2> QED BY <1>1, <1>2, <2>2, <2>3, <2>4, <2>6, FrameFacts, LeaveIInv
  <1>3. CASE LeaveOrThrottle(c, [q EXCEPT !.balancing = TRUE])
    <2> DEFINE r == [q EXCEPT !.balancing = TRUE]
    <2>1. /\ r \in CfsRqType /\ r.nr_running = q.nr_running /\ r.throttled = q.throttled
          /\ r.on_rq = q.on_rq /\ r.runtime_enabled = q.runtime_enabled
          /\ r.runtime_remaining = q.runtime_remaining /\ r.on_list = q.on_list
      BY <1>1 DEF CfsRqType
    <2>2. LeaveOrThrottle(c, r)
      BY <1>3
    <2> HIDE DEF r
    <2>3. Reachable(r)
      BY <1>1, <2>1 DEF Reachable
    <2> QED BY <1>1, <2>1, <2>2, <2>3, ThrottleIInv
  <1>4. CASE put_prev_entity(c, q)
    <2>1. "pick" \in {"put", "pick"}
      OBVIOUS
    <2> QED BY <1>4, <2>1, PutIInv
  <1> QED BY <1>2, <1>3, <1>4 DEF pick_next_task_fair

\* Every operation, once update_curr is done.
LEMMA RestIInv ==
  ASSUME IInv, NEW c \in Cpus, NEW op, NEW q, Mid(c, op, q), Rest(c, op, q)
  PROVE  IInv'
  <1>1. op \in {"account", "enqueue", "check", "dequeue", "sleep", "pick", "put"}
    BY DEF Mid, Ops
  <1>2. CASE op = "account"
    <2>1. Leave(c, q, Unlocked) /\ UNCHANGED unchangedPool
      BY <1>2 DEF Rest
    <2>2. /\ q \in CfsRqType /\ q.throttled = cfs_rq[c].throttled
          /\ c \notin online => (q.on_list => ~q.runtime_enabled)
      BY DEF Mid
    <2>3. QueueInv(q, Unlocked) /\ RuntimeInv(q, Unlocked)
      BY <1>2, FrameFacts DEF Mid, QueueInv, RuntimeInv, Ops
    <2> QED BY <2>1, <2>2, <2>3, FrameFacts, LeaveIInv
  <1>3. CASE op = "enqueue"
    BY <1>3, EnqueueIInv DEF Rest
  <1>4. CASE op = "check"
    BY <1>4, CheckIInv DEF Rest
  <1>5. CASE op = "dequeue"
    <2>1. dequeue_entity(c, q, FALSE)
      BY <1>5 DEF Rest
    <2>2. op \in {"dequeue", "sleep"} /\ FALSE \in BOOLEAN /\ ~(op = "sleep")
      BY <1>5
    <2> QED BY <2>1, <2>2, DequeueIInv
  <1>6. CASE op = "sleep"
    <2>1. dequeue_entity(c, q, TRUE)
      BY <1>6 DEF Rest
    <2>2. op \in {"dequeue", "sleep"} /\ TRUE \in BOOLEAN /\ op = "sleep"
      BY <1>6
    <2> QED BY <2>1, <2>2, DequeueIInv
  <1>7. CASE op = "pick"
    BY <1>7, PickIInv DEF Rest
  <1>8. CASE op = "put"
    <2>1. put_prev_entity(c, q) /\ op \in {"put", "pick"}
      BY <1>8 DEF Rest
    <2> QED BY <2>1, PutIInv
  <1> QED BY <1>1, <1>2, <1>3, <1>4, <1>5, <1>6, <1>7, <1>8

-----------------------------------------------------------------------------
(***************************************************************************)
(* The operations of one CPU.                                              *)
(***************************************************************************)
\* __account_cfs_rq_runtime on the way into operation op.
LEMMA AccountIInv ==
  ASSUME IInv, NEW c \in Cpus, NEW op \in Ops \ {"none", "check", "schedule"},
         NEW q0 \in CfsRqType, NEW delta \in Nat, AccountThen(c, op, q0, delta),
         QueueInv(q0, Frame(op, FALSE)), q0.curr # "none", q0.throttled = cfs_rq[c].throttled,
         ~q0.runtime_enabled => q0.runtime_remaining >= 0, q0.nr_running > 0 => q0.on_list,
         c \notin online => (q0.on_list => ~q0.runtime_enabled) /\ op # "enqueue"
  PROVE  IInv'
  <1> DEFINE q == account_cfs_rq_runtime(q0, delta)
  <1>1. /\ q \in CfsRqType /\ Kept(q0, q)
        /\ ~q0.runtime_enabled => q = q0
        /\ ~NeedsRuntime(q) /\ q0.runtime_enabled => q.runtime_remaining > 0
    BY AccountFacts
  <1>2. IF NeedsRuntime(q) THEN Leave(c, q, Frame(op, TRUE)) /\ UNCHANGED unchangedPool ELSE Rest(c, op, q)
    BY DEF AccountThen
  <1> HIDE DEF q
  <1>3. /\ Frame(op, FALSE).op = op /\ ~Frame(op, FALSE).assign /\ Frame(op, TRUE).op = op
        /\ Frame(op, TRUE).assign /\ Frame(op, TRUE) \in FrameType
    BY FrameFacts
  <1>4. QueueInv(q, Frame(op, FALSE)) /\ QueueInv(q, Frame(op, TRUE))
    BY <1>1, <1>3 DEF QueueInv, Reachable, Kept
  <1>5. q.throttled = cfs_rq[c].throttled /\ (c \notin online => (q.on_list => ~q.runtime_enabled))
    BY <1>1 DEF Kept
  <1>6. CASE NeedsRuntime(q)
    <2>1. RuntimeInv(q, Frame(op, TRUE))
      BY <1>1, <1>3, <1>6 DEF RuntimeInv, NeedsRuntime, Kept
    <2>2. Leave(c, q, Frame(op, TRUE)) /\ UNCHANGED unchangedPool
      BY <1>2, <1>6
    <2> QED BY <1>1, <1>3, <1>4, <1>5, <2>1, <2>2, LeaveIInv
  <1>7. CASE ~NeedsRuntime(q)
    <2>1. q.runtime_remaining \in Int /\ q.runtime_remaining >= 0 /\ ~(q.runtime_remaining < 0)
      BY <1>1, <1>7 DEF CfsRqType
    <2>2. RuntimeInv(q, Frame(op, FALSE))
      BY <1>1, <1>3, <2>1 DEF RuntimeInv, Kept
    <2>3. Mid(c, op, q)
      BY <1>1, <1>4, <1>5, <2>2 DEF Mid
    <2> QED BY <1>2, <1>7, <2>3, RestIInv
  <1> QED BY <1>6, <1>7

\* What the invariant says of one cfs_rq.
LEMMA CpuFacts ==
  ASSUME IInv, NEW c \in Cpus
  PROVE  /\ cfs_rq[c] \in CfsRqType /\ rq[c] \in FrameType
         /\ QueueInv(cfs_rq[c], rq[c]) /\ RuntimeInv(cfs_rq[c], rq[c])
         /\ c \notin online => (cfs_rq[c].on_list => ~cfs_rq[c].runtime_enabled) /\ rq[c].op # "enqueue"
         /\ now \in Nat /\ cfs_rq[c].exec_start \in Nat
  <1>1. cfs_rq[c] \in CfsRqType /\ rq[c] \in FrameType /\ now \in Nat
    BY DEF IInv, TypeOK, FrameType
  <1>2. cfs_rq[c].exec_start \in Nat
    BY <1>1 DEF CfsRqType
  <1> QED BY <1>1, <1>2 DEF IInv, OfflineInv

\* The cfs_rq of a CPU in none of the operations, or in schedule(), as operation op finds it.
LEMMA EntryFacts ==
  ASSUME IInv, NEW c \in Cpus, rq[c].op \in {"none", "schedule"}, NEW op \in Ops \ {"none", "check", "schedule"},
         op = "enqueue" => c \in online,
         op \in {"sleep", "pick"} => cfs_rq[c].nr_running > 0,
         op = "dequeue" => cfs_rq[c].nr_running > (IF cfs_rq[c].curr = "queued" THEN 1 ELSE 0)
  PROVE  Mid(c, op, cfs_rq[c])
  <1>1. Frame(op, FALSE).op = op /\ ~Frame(op, FALSE).assign
    BY FrameFacts
  <1> DEFINE q == cfs_rq[c]
  <1>2. /\ q \in CfsRqType /\ QueueInv(q, rq[c]) /\ RuntimeInv(q, rq[c])
        /\ c \notin online => (q.on_list => ~q.runtime_enabled)
    BY CpuFacts
  <1> HIDE DEF q
  <1>3. QueueInv(q, Frame(op, FALSE))
    <2>1. Reachable(q) /\ (q.curr = "queued" => q.nr_running > 0)
      BY <1>2 DEF QueueInv
    <2>2. op \in {"sleep", "pick"} => q.nr_running > 0
      BY DEF q
    <2>3. op = "dequeue" => q.nr_running > (IF q.curr = "queued" THEN 1 ELSE 0)
      BY DEF q
    <2> QED BY <1>1, <2>1, <2>2, <2>3 DEF QueueInv
  <1>4. RuntimeInv(q, Frame(op, FALSE))
    <2>1. q.runtime_remaining \in Int
      BY <1>2 DEF CfsRqType
    <2>2. ~rq[c].assign
      BY <1>2 DEF RuntimeInv
    <2>3. q.runtime_remaining < 0 /\ ~q.throttled => (q.curr = "queued" /\ q.resched) \/ q.curr = "sleeping"
      BY <1>2, <2>2 DEF RuntimeInv
    <2> QED BY <1>1, <1>2, <2>3 DEF RuntimeInv
  <1> QED BY <1>2, <1>3, <1>4 DEF Mid, q

\* update_curr and the operation it starts.
LEMMA UpdateIInv ==
  ASSUME IInv, NEW c \in Cpus, NEW op \in Ops \ {"none", "check", "schedule"},
         Mid(c, op, cfs_rq[c]), update_curr(c, op)
  PROVE  IInv'
  <1> DEFINE q  == cfs_rq[c]
             q0 == [q EXCEPT !.exec_start = now]
             delta == now - q.exec_start
  <1>1. now \in Nat /\ q.exec_start \in Nat /\ q \in CfsRqType
    BY CpuFacts
  <1>2. CASE q.curr # "none" /\ now > q.exec_start
    <2>1. AccountThen(c, op, q0, delta)
      BY <1>2 DEF update_curr
    <2>2. delta \in Nat
      BY <1>1, <1>2
    <2>3. /\ q0 \in CfsRqType /\ q0.runtime_enabled = q.runtime_enabled /\ q0.throttled = q.throttled
          /\ q0.nr_running = q.nr_running /\ q0.curr = q.curr /\ q0.on_rq = q.on_rq
          /\ q0.on_list = q.on_list /\ q0.runtime_remaining = q.runtime_remaining
      BY <1>1 DEF CfsRqType
    <2>4. /\ QueueInv(q, Frame(op, FALSE)) /\ q.throttled = cfs_rq[c].throttled
          /\ ~q.runtime_enabled => q.runtime_remaining >= 0
          /\ q.nr_running > 0 => q.on_list
          /\ c \notin online => (q.on_list => ~q.runtime_enabled) /\ op # "enqueue"
      BY DEF Mid, RuntimeInv
    <2> HIDE DEF q0, q, delta
    <2>5. QueueInv(q0, Frame(op, FALSE))
      BY <2>3, <2>4 DEF QueueInv, Reachable
    <2> QED BY <1>2, <2>1, <2>2, <2>3, <2>4, <2>5, AccountIInv
  <1>3. CASE ~(q.curr # "none" /\ now > q.exec_start)
    <2>1. Rest(c, op, q)
      BY <1>3 DEF update_curr
    <2> QED BY <2>1, RestIInv
  <1> QED BY <1>2, <1>3

\* A CPU takes runtime from the pool: what the cfs_rq still lacks is noticed.
LEMMA AssignIInv ==
  ASSUME IInv, NEW c \in Cpus, assign_cfs_rq_runtime(c)
  PROVE  IInv'
  <1> DEFINE q0  == cfs_rq[c]
             min == Slice - q0.runtime_remaining
             amount  == IF cfs_b.quota = RUNTIME_INF THEN min ELSE assigned(min)
             expires == cfs_b.runtime_expires
             q == [q0 EXCEPT !.runtime_remaining = @ + amount,
                             !.runtime_expires = IF expires > @ THEN expires ELSE @]
             r == [q EXCEPT !.resched = q.resched \/ MustResched(q)]
             f == Frame(rq[c].op, FALSE)
  <1>1. /\ q0 \in CfsRqType /\ rq[c] \in FrameType /\ QueueInv(q0, rq[c]) /\ RuntimeInv(q0, rq[c])
        /\ c \notin online => (q0.on_list => ~q0.runtime_enabled) /\ rq[c].op # "enqueue"
    BY CpuFacts
  <1>2. cfs_b \in CfsBType /\ cfs_b.runtime \in Nat /\ expires \in Nat /\ handed \in HandedType
    BY DEF IInv, TypeOK, CfsBType
  <1>3. /\ q0.runtime_enabled /\ q0.runtime_remaining \in Int /\ q0.runtime_remaining <= 0
        /\ (q0.curr # "none" \/ rq[c].op = "check") /\ (q0.nr_running > 0 => q0.on_list)
    BY <1>1 DEF assign_cfs_rq_runtime, RuntimeInv, CfsRqType
  <1>4. f \in FrameType /\ f.op = rq[c].op /\ ~f.assign
    BY <1>1, FrameFacts DEF FrameType
  <1>5. amount \in Nat /\ (cfs_b.quota # RUNTIME_INF => cfs_b.runtime - amount \in Nat)
    <2>1. min \in Nat
      BY <1>3, TimeAssumption
    <2> HIDE DEF min
    <2> QED BY <1>2, <2>1 DEF assigned, Least
  <1>6. /\ IF cfs_b.quota = RUNTIME_INF
             THEN UNCHANGED <<cfs_b, period_timer, handed>>
             ELSE /\ start_cfs_bandwidth([cfs_b EXCEPT !.runtime = cfs_b.runtime - amount,
                                          !.idle = cfs_b.idle /\ cfs_b.runtime = 0])
                  /\ handed' = handing(amount)
        /\ Leave(c, r, f)
        /\ UNCHANGED <<throttled_list, stale, slack_timer, walk, envVars>>
    BY Zenon DEF assign_cfs_rq_runtime, Leave
  <1> HIDE DEF amount, f
  <1>7. /\ q \in CfsRqType /\ q.runtime_enabled /\ q.throttled = q0.throttled /\ q.nr_running = q0.nr_running
        /\ q.curr = q0.curr /\ q.on_rq = q0.on_rq /\ q.on_list = q0.on_list
    <2>1. PICK m \in Int, e \in Nat : /\ m = q0.runtime_remaining + amount
                                      /\ e = IF expires > q0.runtime_expires THEN expires ELSE q0.runtime_expires
      <3>1. q0.runtime_remaining + amount \in Int
        BY <1>3, <1>5
      <3>2. (IF expires > q0.runtime_expires THEN expires ELSE q0.runtime_expires) \in Nat
        BY <1>1, <1>2 DEF CfsRqType
      <3> QED BY <3>1, <3>2, Zenon
    <2>2. q = [q0 EXCEPT !.runtime_remaining = m, !.runtime_expires = e]
      BY <2>1
    <2> HIDE DEF q, q0
    <2> QED BY <1>1, <1>3, <2>2 DEF CfsRqType
  <1> HIDE DEF q
  <1>8. /\ r \in CfsRqType /\ r.runtime_enabled /\ r.throttled = q0.throttled /\ r.nr_running = q0.nr_running
        /\ r.curr = q0.curr /\ r.on_rq = q0.on_rq /\ r.on_list = q0.on_list
        /\ r.runtime_remaining = q.runtime_remaining /\ (r.resched <=> q.resched \/ MustResched(q))
    BY <1>7 DEF CfsRqType, MustResched
  <1> HIDE DEF r
  <1>9. QueueInv(r, f)
    BY <1>1, <1>4, <1>8 DEF QueueInv, Reachable
  <1>10. RuntimeInv(r, f)
    <2>1. r.runtime_remaining \in Int
      BY <1>8 DEF CfsRqType
    <2>2. r.runtime_remaining < 0 /\ r.curr # "none" => r.resched
      BY <1>7, <1>8, <2>1 DEF MustResched
    <2>3. r.curr \in {"none", "queued", "sleeping"}
      BY <1>8 DEF CfsRqType
    <2> QED BY <1>3, <1>4, <1>8, <2>1, <2>2, <2>3 DEF RuntimeInv
  <1>11. cfs_b' \in CfsBType /\ period_timer' \in TimerType /\ handed' \in HandedType /\ TimerInv'
    <2>1. UNCHANGED <<walk, now>> /\ throttled_list' = throttled_list
      BY <1>6 DEF envVars
    <2>2. CASE cfs_b.quota = RUNTIME_INF
      <3>1. UNCHANGED <<cfs_b, period_timer, handed>>
        BY <1>6, <2>2
      <3>2. TimerInv'
        BY <2>1, <3>1, TimerKept
      <3> QED BY <3>1, <3>2 DEF IInv, TypeOK
    <2>3. CASE cfs_b.quota # RUNTIME_INF
      <3> DEFINE n == cfs_b.runtime - amount
                 i == cfs_b.idle /\ cfs_b.runtime = 0
                 b == [cfs_b EXCEPT !.runtime = n, !.idle = i]
      <3>1. start_cfs_bandwidth(b) /\ handed' = handing(amount)
        BY <1>6, <2>3
      <3>2. n \in Nat /\ i \in BOOLEAN
        BY <1>5, <2>3
      <3> HIDE DEF n, i
      <3>3. b \in CfsBType /\ b.period_active = cfs_b.period_active
        BY <1>2, <3>2 DEF CfsBType
      <3> HIDE DEF b
      <3>4. handed' \in HandedType
        BY <1>5, <3>1, HandedFacts
      <3> QED BY <2>1, <3>1, <3>3, <3>4, StartFacts
    <2> QED BY <2>2, <2>3
  <1>12. /\ slack_timer' \in TimerType /\ throttled_list' \in Seq(Cpus) /\ Injective(throttled_list')
         /\ stale' \in [Cpus -> Cpus \cup {ListHead}]
         /\ ToSet(throttled_list') = (ToSet(throttled_list) \ {c}) \cup (IF r.throttled THEN {c} ELSE {})
    BY <1>6, <1>8 DEF IInv, TypeOK, ListInv
  <1>13. c \notin online => (r.on_list => ~r.runtime_enabled) /\ f.op # "enqueue"
    BY <1>1, <1>4, <1>3, <1>8
  <1> QED BY <1>4, <1>6, <1>8, <1>9, <1>10, <1>11, <1>12, <1>13, QueueStep

\* An operation goes on after assign_cfs_rq_runtime.
LEMMA ResumeIInv ==
  ASSUME IInv, NEW c \in Cpus, Resume(c)
  PROVE  IInv'
  <1>1. /\ cfs_rq[c] \in CfsRqType /\ rq[c] \in FrameType
        /\ QueueInv(cfs_rq[c], rq[c]) /\ RuntimeInv(cfs_rq[c], rq[c])
        /\ c \notin online => (cfs_rq[c].on_list => ~cfs_rq[c].runtime_enabled) /\ rq[c].op # "enqueue"
    BY CpuFacts
  <1>2. rq[c].op \in Ops \ {"none", "schedule"} /\ ~rq[c].assign
    BY <1>1 DEF Resume, Free, FrameType
  <1>3. rq[c] = Frame(rq[c].op, FALSE)
    BY <1>1, <1>2 DEF Frame, FrameType
  <1>4. Mid(c, rq[c].op, cfs_rq[c])
    BY <1>1, <1>2, <1>3 DEF Mid
  <1> QED BY <1>4, RestIInv DEF Resume

\* Operations that change no more than who is current and who balances.
LEMMA QuietIInv ==
  ASSUME IInv, NEW c \in Cpus, \/ idle_balance(c) \/ idle_balance_return(c) \/ set_next_entity(c)
  PROVE  IInv'
  <1> DEFINE q == cfs_rq[c]
  <1>1. /\ q \in CfsRqType /\ QueueInv(q, rq[c]) /\ RuntimeInv(q, rq[c]) /\ now \in Nat
        /\ c \notin online => (q.on_list => ~q.runtime_enabled)
    BY CpuFacts
  <1>2. Frame("schedule", FALSE) \in FrameType /\ Frame("schedule", FALSE).op = "schedule" /\ ~Frame("schedule", FALSE).assign
    BY FrameFacts DEF Ops
  <1>3. rq[c].op \in {"none", "schedule"} /\ q.runtime_remaining \in Int
    BY <1>1 DEF idle_balance, idle_balance_return, set_next_entity, Free, InSchedule, CfsRqType
  <1>4. /\ Reachable(q) /\ (q.curr = "queued" => q.nr_running > 0) /\ (q.nr_running > 0 => q.on_list)
        /\ ~q.runtime_enabled => q.runtime_remaining >= 0
        /\ q.runtime_remaining < 0 /\ ~q.throttled => (q.curr = "queued" /\ q.resched) \/ q.curr = "sleeping"
    BY <1>1, <1>3 DEF QueueInv, RuntimeInv
  <1>5. CASE idle_balance(c) \/ idle_balance_return(c)
    <2>1. PICK b \in BOOLEAN, f \in {Unlocked, Frame("schedule", FALSE)} :
            Leave(c, [q EXCEPT !.balancing = b], f) /\ UNCHANGED unchangedPool
      BY <1>5 DEF idle_balance, idle_balance_return
    <2> DEFINE r == [q EXCEPT !.balancing = b]
    <2>2. /\ r \in CfsRqType /\ r.nr_running = q.nr_running /\ r.throttled = q.throttled /\ r.curr = q.curr
          /\ r.on_rq = q.on_rq /\ r.runtime_enabled = q.runtime_enabled /\ r.resched = q.resched
          /\ r.runtime_remaining = q.runtime_remaining /\ r.on_list = q.on_list
      BY <1>1 DEF CfsRqType
    <2>3. f \in FrameType /\ f.op \in {"none", "schedule"} /\ ~f.assign
      BY <1>2, <2>1, FrameFacts
    <2>4. Leave(c, r, f) /\ UNCHANGED unchangedPool
      BY <2>1
    <2> HIDE DEF r
    <2>5. QueueInv(r, f) /\ RuntimeInv(r, f)
      BY <1>4, <2>2, <2>3 DEF QueueInv, RuntimeInv, Reachable
    <2> QED BY <1>1, <2>2, <2>3, <2>4, <2>5, LeaveIInv
  <1>6. CASE set_next_entity(c)
    <2> DEFINE r == [q EXCEPT !.curr = "queued", !.exec_start = now]
    <2>1. q.curr = "none" /\ q.on_rq /\ Leave(c, r, Unlocked) /\ UNCHANGED unchangedPool
      BY <1>6 DEF set_next_entity
    <2>2. /\ r \in CfsRqType /\ r.nr_running = q.nr_running /\ r.throttled = q.throttled
          /\ r.on_rq = q.on_rq /\ r.runtime_enabled = q.runtime_enabled
          /\ r.runtime_remaining = q.runtime_remaining /\ r.on_list = q.on_list
      BY <1>1 DEF CfsRqType
    <2> HIDE DEF r
    <2>3. q.nr_running > 0
      BY <1>4, <2>1 DEF Reachable
    <2>4. QueueInv(r, Unlocked) /\ RuntimeInv(r, Unlocked)
      BY <1>4, <2>1, <2>2, <2>3, FrameFacts DEF QueueInv, RuntimeInv, Reachable
    <2> QED BY <1>1, <2>1, <2>2, <2>4, FrameFacts, LeaveIInv
  <1> QED BY <1>5, <1>6

\* The running task is moved into the group.
LEMMA SetCurrIInv ==
  ASSUME IInv, NEW c \in Cpus, set_curr_task_fair(c)
  PROVE  IInv'
  <1> DEFINE q == cfs_rq[c]
             r == [q EXCEPT !.curr = "queued", !.exec_start = now]
  <1>1. /\ q \in CfsRqType /\ QueueInv(q, rq[c]) /\ RuntimeInv(q, rq[c]) /\ now \in Nat
        /\ c \notin online => (q.on_list => ~q.runtime_enabled)
    BY CpuFacts
  <1>2. rq[c].op = "none" /\ q.nr_running > 0 /\ AccountThen(c, "account", r, 0)
    BY DEF set_curr_task_fair, Free
  <1>3. /\ r \in CfsRqType /\ r.nr_running = q.nr_running /\ r.throttled = q.throttled /\ r.curr = "queued"
        /\ r.on_rq = q.on_rq /\ r.runtime_enabled = q.runtime_enabled
        /\ r.runtime_remaining = q.runtime_remaining /\ r.on_list = q.on_list
    BY <1>1 DEF CfsRqType
  <1> HIDE DEF r
  <1>4. "account" \in Ops \ {"none", "check", "schedule"} /\ 0 \in Nat
    BY DEF Ops
  <1>5. QueueInv(r, Frame("account", FALSE))
    <2>1. Frame("account", FALSE).op = "account"
      BY <1>4, FrameFacts
    <2> QED BY <1>1, <1>2, <1>3, <2>1 DEF QueueInv, Reachable
  <1>6. /\ r.throttled = cfs_rq[c].throttled /\ r.curr # "none"
        /\ ~r.runtime_enabled => r.runtime_remaining >= 0
        /\ r.nr_running > 0 => r.on_list
        /\ c \notin online => (r.on_list => ~r.runtime_enabled) /\ "account" # "enqueue"
    BY <1>1, <1>3 DEF RuntimeInv
  <1> QED BY <1>2, <1>3, <1>4, <1>5, <1>6, AccountIInv

\* Every step of the scheduler of a CPU.
LEMMA CpuIInv ==
  ASSUME IInv, NEW c \in Cpus, Cpu(c)
  PROVE  IInv'
  <1> DEFINE q == cfs_rq[c]
  <1>1. q \in CfsRqType /\ QueueInv(q, rq[c]) /\ q.nr_running \in Nat
    BY CpuFacts DEF CfsRqType
  <1>2. /\ "account" \in Ops \ {"none", "check", "schedule"} /\ "enqueue" \in Ops \ {"none", "check", "schedule"}
        /\ "dequeue" \in Ops \ {"none", "check", "schedule"} /\ "sleep" \in Ops \ {"none", "check", "schedule"}
        /\ "pick" \in Ops \ {"none", "check", "schedule"} /\ "put" \in Ops \ {"none", "check", "schedule"}
    BY DEF Ops
  <1>3. CASE task_tick_fair(c)
    <2>1. rq[c].op = "none" /\ update_curr(c, "account")
      BY <1>3 DEF task_tick_fair, Free
    <2>2. Mid(c, "account", q)
      BY <1>2, <2>1, EntryFacts
    <2> QED BY <1>2, <2>1, <2>2, UpdateIInv
  <1>4. CASE enqueue_task_fair(c)
    <2>1. rq[c].op = "none" /\ c \in online /\ update_curr(c, "enqueue")
      BY <1>4 DEF enqueue_task_fair, Free
    <2>2. Mid(c, "enqueue", q)
      BY <1>2, <2>1, EntryFacts
    <2> QED BY <1>2, <2>1, <2>2, UpdateIInv
  <1>5. CASE dequeue_task_fair(c)
    <2>1. /\ rq[c].op = "none" /\ update_curr(c, "dequeue")
          /\ q.nr_running > (IF q.curr = "queued" THEN 1 ELSE 0)
      BY <1>5 DEF dequeue_task_fair, Free
    <2>2. Mid(c, "dequeue", q)
      BY <1>2, <2>1, EntryFacts
    <2> QED BY <1>2, <2>1, <2>2, UpdateIInv
  <1>6. CASE deactivate_task(c)
    <2>1. rq[c].op = "none" /\ update_curr(c, "sleep") /\ q.nr_running > 0
      BY <1>1, <1>6 DEF deactivate_task, Free, RunsOn, QueueInv
    <2>2. Mid(c, "sleep", q)
      BY <1>2, <2>1, EntryFacts
    <2> QED BY <1>2, <2>1, <2>2, UpdateIInv
  <1>7. ASSUME NEW op \in {"pick", "put"}, schedule(c, op) PROVE IInv'
    <2>1. /\ rq[c].op \in {"none", "schedule"} /\ (op = "pick" => q.on_rq)
          /\ update_curr(c, op) \/ Rest(c, op, q)
      BY <1>7 DEF schedule, InSchedule, Free
    <2>2. op = "pick" => q.nr_running > 0
      BY <1>1, <2>1 DEF QueueInv, Reachable
    <2>3. op \in Ops \ {"none", "check", "schedule"} /\ op \notin {"enqueue", "sleep", "dequeue"}
      BY <1>2
    <2>4. Mid(c, op, q)
      BY <2>1, <2>2, <2>3, EntryFacts
    <2> QED BY <2>1, <2>3, <2>4, UpdateIInv, RestIInv
  <1>8. CASE assign_cfs_rq_runtime(c)
    BY <1>8, AssignIInv
  <1>9. CASE Resume(c)
    BY <1>9, ResumeIInv
  <1>10. CASE idle_balance(c) \/ idle_balance_return(c) \/ set_next_entity(c)
    BY <1>10, QuietIInv
  <1>11. CASE set_curr_task_fair(c)
    BY <1>11, SetCurrIInv
  <1> QED BY <1>3, <1>4, <1>5, <1>6, <1>7, <1>8, <1>9, <1>10, <1>11 DEF Cpu

-----------------------------------------------------------------------------
(***************************************************************************)
(* The distribution and the timers.                                        *)
(***************************************************************************)
\* The next pointers lead to cfs_rqs of the group or back to the head.
LEMMA SuccessorType ==
  ASSUME IInv, NEW c \in Cpus
  PROVE  Successor(c) \in Cpus \cup {ListHead}
  <1> DEFINE s == throttled_list
             k == Position(c)
  <1>1. s \in Seq(Cpus) /\ stale \in [Cpus -> Cpus \cup {ListHead}]
    BY DEF IInv, TypeOK
  <1>2. CASE ~Linked(c)
    BY <1>1, <1>2 DEF Successor
  <1>3. CASE Linked(c)
    <2>1. k \in DOMAIN s /\ s[k] = c
      BY <1>3 DEF Linked, Position
    <2>2. k \in 1 .. Len(s) /\ Len(s) \in Nat
      BY <1>1, <2>1
    <2>3. Successor(c) = IF k = Len(s) THEN ListHead ELSE s[k + 1]
      BY <1>3 DEF Successor
    <2> HIDE DEF k
    <2>4. k # Len(s) => k + 1 \in 1 .. Len(s)
      BY <2>2
    <2>5. k # Len(s) => s[k + 1] \in Cpus
      BY <1>1, <2>4
    <2> QED BY <2>3, <2>5
  <1> QED BY <1>2, <1>3

\* The walk goes on to the next entry.
LEMMA AdvanceIInv ==
  ASSUME IInv, NEW t \in Timers, distribute_advance(t)
  PROVE  IInv'
  <1> DEFINE n == IF walk[t].cur # ListHead THEN Successor(walk[t].cur)
                  ELSE IF throttled_list = <<>> THEN ListHead ELSE throttled_list[1]
             p == IF n = ListHead THEN "done" ELSE "visit"
             w == [walk[t] EXCEPT !.cur = n, !.pc = p]
  <1>1. walk \in [Timers -> WalkType] /\ walk[t] \in WalkType /\ throttled_list \in Seq(Cpus)
    BY DEF IInv, TypeOK
  <1>2. n \in Cpus \cup {ListHead}
    <2>1. CASE walk[t].cur # ListHead
      <3>1. walk[t].cur \in Cpus
        BY <1>1, <2>1 DEF WalkType
      <3> QED BY <2>1, <3>1, SuccessorType
    <2>2. CASE walk[t].cur = ListHead /\ throttled_list # <<>>
      <3>1. 1 \in 1 .. Len(throttled_list)
        BY <1>1, <2>2
      <3>2. throttled_list[1] \in Cpus
        BY <1>1, <3>1
      <3> QED BY <2>2, <3>2
    <2> QED BY <2>1, <2>2
  <1>3. /\ walk[t].pc = "advance"
        /\ walk' = [walk EXCEPT ![t].cur = n, ![t].pc = p]
        /\ UNCHANGED <<cfs_b, throttled_list, stale, cfs_rq, rq, period_timer, slack_timer, envVars, handed>>
    BY Zenon DEF distribute_advance
  <1> HIDE DEF n
  <1>4. w \in WalkType /\ w.pc = p /\ w.cur = n
    BY <1>1, <1>2 DEF WalkType
  <1>5. walk' = [walk EXCEPT ![t] = w]
    BY <1>1, <1>3
  <1> HIDE DEF w
  <1>6. walk' \in [Timers -> WalkType] /\ walk'[t] = w /\ \A u \in Timers \ {t} : walk'[u] = walk[u]
    BY <1>1, <1>4, <1>5
  <1>7. TimerInv'
    <2>1. \A u \in Timers : walk'[u].pc = "visit" => walk'[u].cur \in Cpus
      BY <1>2, <1>4, <1>6 DEF IInv, TimerInv
    <2>2. walk'["period"].pc # "idle" <=> walk["period"].pc # "idle"
      BY <1>3, <1>4, <1>6 DEF Timers
    <2> QED BY <1>3, <2>1, <2>2 DEF IInv, TimerInv, envVars
  <1> QED BY <1>3, <1>6, <1>7, PoolStep DEF IInv, TypeOK, OfflineInv, envVars

\* What a walk gives out is never more than it has.
LEMMA DistributedFacts ==
  ASSUME NEW r \in Int, NEW l \in Nat
  PROVE  distributed(r, l) \in Nat /\ l - distributed(r, l) \in Nat
  BY DEF distributed, Least

\* An unthrottled cfs_rq is queued on its CPU when it has tasks.
LEMMA UnthrottledFacts ==
  ASSUME NEW q \in CfsRqType
  PROVE  LET r == unthrottled(q)
         IN  /\ r \in CfsRqType /\ ~r.throttled /\ (r.on_rq <=> q.nr_running > 0)
             /\ r.nr_running = q.nr_running /\ r.curr = q.curr /\ r.on_list = q.on_list
             /\ r.runtime_enabled = q.runtime_enabled /\ r.runtime_remaining = q.runtime_remaining
  <1>1. PICK b \in BOOLEAN : b = (q.nr_running > 0)
    <2>1. (q.nr_running > 0) \in BOOLEAN
      OBVIOUS
    <2> QED BY <2>1, Zenon
  <1>2. unthrottled(q) = [q EXCEPT !.throttled = FALSE, !.on_rq = b]
    BY <1>1 DEF unthrottled
  <1> DEFINE r == unthrottled(q)
  <1>3. r = [q EXCEPT !.throttled = FALSE, !.on_rq = b]
    BY <1>2
  <1> HIDE DEF r
  <1>4. r \in CfsRqType /\ ~r.throttled /\ r.on_rq = b
    BY <1>3 DEF CfsRqType
  <1>5. /\ r.nr_running = q.nr_running /\ r.curr = q.curr /\ r.on_list = q.on_list
        /\ r.runtime_enabled = q.runtime_enabled /\ r.runtime_remaining = q.runtime_remaining
    BY <1>3 DEF CfsRqType
  <1> QED BY <1>1, <1>4, <1>5 DEF r

\* The walk gives a cfs_rq of the list what it lacks, and unthrottles it when that is enough.
LEMMA DistributeIInv ==
  ASSUME IInv, NEW t \in Timers, distribute_cfs_runtime(t)
  PROVE  IInv'
  <1> DEFINE c  == walk[t].cur
             q0 == cfs_rq[c]
             runtime == IF q0.throttled THEN distributed(q0.runtime_remaining, walk[t].left) ELSE 0
             left == walk[t].left - runtime
             q  == [q0 EXCEPT !.runtime_remaining = @ + runtime, !.runtime_expires = walk[t].expires]
             p  == IF left = 0 THEN "done" ELSE "advance"
             w  == [walk[t] EXCEPT !.left = left, !.pc = p]
             f  == rq[c]
  <1>1. walk[t].pc = "visit" /\ f.op = "none" /\ c \in Cpus
    BY DEF distribute_cfs_runtime, Free, IInv, TimerInv
  <1>2. /\ walk \in [Timers -> WalkType] /\ walk[t] \in WalkType
        /\ walk[t].left \in Nat /\ walk[t].expires \in Nat /\ handed \in HandedType
    BY DEF IInv, TypeOK, WalkType
  <1>3. /\ q0 \in CfsRqType /\ f \in FrameType /\ QueueInv(q0, f) /\ RuntimeInv(q0, f)
        /\ c \notin online => (q0.on_list => ~q0.runtime_enabled)
    BY <1>1, CpuFacts
  <1>4. q0.runtime_remaining \in Int
    BY <1>3 DEF CfsRqType
  <1>5. runtime \in Nat /\ left \in Nat
    <2>1. CASE q0.throttled
      <3>1. runtime = distributed(q0.runtime_remaining, walk[t].left)
        BY <2>1
      <3> HIDE DEF runtime, q0
      <3> QED BY <1>2, <1>4, <3>1, DistributedFacts
    <2>2. CASE ~q0.throttled
      BY <1>2, <2>2
    <2> QED BY <2>1, <2>2
  <1>6. /\ IF q0.throttled /\ q.runtime_remaining > 0
             THEN cfs_rq' = [cfs_rq EXCEPT ![c] = unthrottled(q)] /\ unlink(c)
             ELSE /\ cfs_rq' = IF q0.throttled THEN [cfs_rq EXCEPT ![c] = q] ELSE cfs_rq
                  /\ UNCHANGED <<throttled_list, stale>>
        /\ walk' = [walk EXCEPT ![t].left = left, ![t].pc = p]
        /\ handed' = handing(runtime)
        /\ UNCHANGED <<cfs_b, rq, period_timer, slack_timer, envVars>>
    BY Zenon DEF distribute_cfs_runtime
  <1> HIDE DEF runtime, left
  <1>7. w \in WalkType /\ w.pc = p /\ p \in {"done", "advance"}
    BY <1>2, <1>5 DEF WalkType
  <1>8. walk' = [walk EXCEPT ![t] = w]
    BY <1>2, <1>6
  <1> HIDE DEF w, p
  <1>9. walk' \in [Timers -> WalkType] /\ walk'[t] = w /\ \A u \in Timers \ {t} : walk'[u] = walk[u]
    BY <1>2, <1>7, <1>8
  <1>10. UNCHANGED <<setter, online, hotplugs, now>>
    BY <1>6 DEF envVars
  <1>11. handed' \in HandedType
    BY <1>5, <1>6, HandedFacts
  <1>12. /\ q \in CfsRqType /\ q.runtime_remaining = q0.runtime_remaining + runtime
         /\ q.throttled = q0.throttled /\ q.nr_running = q0.nr_running /\ q.curr = q0.curr
         /\ q.on_rq = q0.on_rq /\ q.on_list = q0.on_list /\ q.runtime_enabled = q0.runtime_enabled
         /\ q.resched = q0.resched
    <2>1. PICK m \in Int : m = q0.runtime_remaining + runtime
      BY <1>4, <1>5
    <2>2. q = [q0 EXCEPT !.runtime_remaining = m, !.runtime_expires = walk[t].expires]
      BY <2>1
    <2> HIDE DEF q, q0
    <2>3. PICK e \in Nat : e = walk[t].expires
      BY <1>2
    <2>4. q = [q0 EXCEPT !.runtime_remaining = m, !.runtime_expires = e]
      BY <2>2, <2>3
    <2> QED BY <1>3, <2>1, <2>4 DEF CfsRqType
  <1>13. ~f.assign
    BY <1>1, <1>3 DEF RuntimeInv
  <1>14. ~q0.runtime_enabled => q.runtime_remaining >= 0
    BY <1>3, <1>4, <1>5, <1>12 DEF RuntimeInv
  <1>15. /\ Reachable(q0) /\ (q0.curr = "queued" => q0.nr_running > 0)
         /\ q0.nr_running > 0 => q0.on_list
    BY <1>1, <1>3 DEF QueueInv, RuntimeInv
  <1> HIDE DEF q
  <1>16. PICK r \in CfsRqType :
           /\ cfs_rq' = [cfs_rq EXCEPT ![c] = r] /\ QueueInv(r, f) /\ RuntimeInv(r, f)
           /\ r.on_list = q0.on_list /\ r.runtime_enabled = q0.runtime_enabled
           /\ throttled_list' \in Seq(Cpus) /\ Injective(throttled_list') /\ stale' \in [Cpus -> Cpus \cup {ListHead}]
           /\ ToSet(throttled_list') = (ToSet(throttled_list) \ {c}) \cup (IF r.throttled THEN {c} ELSE {})
    <2>1. /\ throttled_list \in Seq(Cpus) /\ Injective(throttled_list) /\ stale \in [Cpus -> Cpus \cup {ListHead}]
          /\ (q0.throttled <=> c \in ToSet(throttled_list)) /\ cfs_rq \in [Cpus -> CfsRqType]
      BY <1>1 DEF IInv, TypeOK, ListInv
    <2>2. CASE q0.throttled /\ q.runtime_remaining > 0
      <3> DEFINE r == unthrottled(q)
      <3>1. cfs_rq' = [cfs_rq EXCEPT ![c] = r] /\ unlink(c)
        BY <1>6, <2>2
      <3>2. /\ r \in CfsRqType /\ ~r.throttled /\ (r.on_rq <=> q0.nr_running > 0)
            /\ r.nr_running = q0.nr_running /\ r.curr = q0.curr /\ r.on_list = q0.on_list
            /\ r.runtime_enabled = q0.runtime_enabled /\ r.runtime_remaining = q.runtime_remaining
        <4>1. q \in CfsRqType
          BY <1>12
        <4> QED BY <1>12, <4>1, UnthrottledFacts
      <3> HIDE DEF r
      <3>3. QueueInv(r, f)
        BY <1>1, <1>15, <3>2 DEF QueueInv, Reachable
      <3>4. q.runtime_remaining >= 0 /\ ~(q.runtime_remaining < 0)
        <4>1. q.runtime_remaining \in Int
          BY <1>12 DEF CfsRqType
        <4> QED BY <2>2, <4>1
      <3>5. RuntimeInv(r, f)
        BY <1>13, <1>15, <3>2, <3>4 DEF RuntimeInv
      <3>6. /\ throttled_list' \in Seq(Cpus) /\ Injective(throttled_list') /\ stale' \in [Cpus -> Cpus \cup {ListHead}]
            /\ ToSet(throttled_list') = ToSet(throttled_list) \ {c}
        BY <1>1, <2>2, <3>1, UnlinkFacts DEF IInv
      <3> QED BY <3>1, <3>2, <3>3, <3>5, <3>6
    <2>3. CASE q0.throttled /\ ~(q.runtime_remaining > 0)
      <3>1. cfs_rq' = [cfs_rq EXCEPT ![c] = q] /\ UNCHANGED <<throttled_list, stale>>
        BY <1>6, <2>3
      <3>2. QueueInv(q, f) /\ RuntimeInv(q, f)
        BY <1>1, <1>12, <1>13, <1>14, <1>15, <2>3 DEF QueueInv, RuntimeInv, Reachable
      <3> QED BY <1>12, <2>1, <2>3, <3>1, <3>2
    <2>4. CASE ~q0.throttled
      <3>1. cfs_rq' = cfs_rq /\ UNCHANGED <<throttled_list, stale>>
        BY <1>6, <2>4
      <3>2. cfs_rq' = [cfs_rq EXCEPT ![c] = q0]
        BY <2>1, <3>1
      <3> QED BY <1>3, <2>1, <2>4, <3>1, <3>2, SMTT(30)
    <2> QED BY <2>2, <2>3, <2>4
  <1>17. Leave(c, r, f)
    <2>1. rq \in [Cpus -> FrameType]
      BY DEF IInv, TypeOK, FrameType
    <2> QED BY <1>6, <1>16, <2>1 DEF Leave
  <1>18. TimerInv'
    <2>1. \A u \in Timers : walk'[u].pc = "visit" => walk'[u].cur \in Cpus
      BY <1>7, <1>9 DEF IInv, TimerInv
    <2>2. walk'["period"].pc # "idle" <=> walk["period"].pc # "idle"
      BY <1>1, <1>7, <1>9 DEF Timers
    <2>3. throttled_list = <<>> => throttled_list' = <<>>
      <3>1. ToSet(<<>>) = {}
        BY DEF ToSet
      <3>2. throttled_list = <<>> => ~q0.throttled
        BY <1>1, <3>1 DEF IInv, ListInv
      <3> QED BY <1>6, <3>2
    <2> QED BY <1>6, <1>10, <2>1, <2>2, <2>3 DEF IInv, TimerInv
  <1>19. OfflineInv'
    <2>1. /\ cfs_rq'[c] = r /\ \A d \in Cpus \ {c} : cfs_rq'[d] = cfs_rq[d]
      BY <1>1, <1>16 DEF IInv, TypeOK
    <2> QED BY <1>3, <1>6, <1>10, <1>16, <2>1 DEF IInv, OfflineInv
  <1>20. /\ cfs_b' \in CfsBType /\ period_timer' \in TimerType /\ slack_timer' \in TimerType
         /\ setter' \in [todo : SUBSET Cpus, left : Nat] /\ online' \subseteq Cpus /\ hotplugs' \in Nat /\ now' \in Nat
    BY <1>6, <1>10 DEF IInv, TypeOK
  <1> QED BY <1>1, <1>3, <1>9, <1>11, <1>16, <1>17, <1>18, <1>19, <1>20, RqStep

\* A refilled or emptied pool is a pool.
LEMMA PoolFacts ==
  ASSUME now \in Nat, NEW b \in CfsBType
  PROVE  /\ refilled(b) \in CfsBType /\ refilled(b).period_active = b.period_active
         /\ refilled(b).quota = b.quota
         /\ \A g \in Int : /\ deducted(b, g) \in CfsBType /\ deducted(b, g).period_active = b.period_active
                           /\ deducted(b, g).quota = b.quota
  <1>1. b.runtime \in Nat /\ (b.quota # RUNTIME_INF => b.quota \in Nat)
    BY DEF CfsBType
  <1>2. refilled(b) \in CfsBType /\ refilled(b).period_active = b.period_active /\ refilled(b).quota = b.quota
    <2>1. CASE b.quota = RUNTIME_INF
      BY <2>1 DEF refilled
    <2>2. CASE b.quota # RUNTIME_INF
      <3>1. PICK e \in Nat : e = now + Period
        BY TimeAssumption
      <3>2. refilled(b) = [b EXCEPT !.runtime = b.quota, !.runtime_expires = e]
        BY <2>2, <3>1 DEF refilled
      <3> QED BY <1>1, <2>2, <3>2 DEF CfsBType
    <2> QED BY <2>1, <2>2
  <1>3. ASSUME NEW g \in Int
        PROVE  /\ deducted(b, g) \in CfsBType /\ deducted(b, g).period_active = b.period_active
               /\ deducted(b, g).quota = b.quota
    <2> DEFINE n == b.runtime - Least(g, b.runtime)
    <2>1. n \in Nat
      BY <1>1 DEF Least
    <2>2. deducted(b, g) = [b EXCEPT !.runtime = n]
      BY DEF deducted
    <2> HIDE DEF n
    <2> QED BY <2>1, <2>2 DEF CfsBType
  <1> QED BY <1>2, <1>3

\* A walk begins at the head of the list.
LEMMA WalkFacts ==
  /\ NoWalk \in WalkType /\ NoWalk.pc = "idle"
  /\ \A r, e \in Nat : StartWalk(r, e) \in WalkType /\ StartWalk(r, e).pc = "advance"
  <1>1. NoWalk \in WalkType /\ NoWalk.pc = "idle"
    BY DEF NoWalk, WalkType
  <1>2. ASSUME NEW r \in Nat, NEW e \in Nat PROVE StartWalk(r, e) \in WalkType /\ StartWalk(r, e).pc = "advance"
    BY <1>1 DEF StartWalk, WalkType
  <1> QED BY <1>1, <1>2

\* The callback of the period timer: it goes on around its loop only when it keeps the timer active.
LEMMA PeriodLoopIInv ==
  ASSUME IInv, cfs_b.period_active, NEW b \in CfsBType, b.period_active = cfs_b.period_active,
         PeriodLoop(b), UNCHANGED <<throttled_list, stale, cfs_rq, rq, slack_timer, envVars>>
  PROVE  IInv'
  <1> DEFINE expires == hrtimer_forward_now(period_timer.expires)
             refresh == refilled(b)
             StepTo(cb, pt, w) == /\ cfs_b' = cb /\ period_timer' = pt
                                  /\ walk' = [walk EXCEPT !["period"] = w]
  <1>1. /\ period_timer \in TimerType /\ period_timer.expires \in Nat /\ now \in Nat
        /\ period_timer.expires <= now + Period /\ walk \in [Timers -> WalkType] /\ handed \in HandedType
    BY DEF IInv, TypeOK, TimerType, TimerInv
  <1>2. expires \in Nat /\ expires <= now + Period
    BY <1>1, ForwardFacts
  <1>3. /\ refresh \in CfsBType /\ refresh.period_active = b.period_active /\ refresh.quota = b.quota
        /\ refresh.runtime \in Nat /\ refresh.runtime_expires \in Nat
    <2>1. refresh \in CfsBType /\ refresh.period_active = b.period_active /\ refresh.quota = b.quota
      BY <1>1, PoolFacts
    <2> HIDE DEF refresh
    <2> QED BY <2>1 DEF CfsBType
  <1>4. PICK cb \in CfsBType, pt \in TimerType, w \in WalkType :
          /\ StepTo(cb, pt, w) /\ pt.expires <= now + Period /\ w.pc # "visit"
          /\ cb.period_active <=> pt.armed \/ w.pc # "idle"
          /\ throttled_list # <<>> /\ cb.quota # RUNTIME_INF => cb.period_active
    <2> HIDE DEF expires, refresh
    <2>1. CASE now < period_timer.expires
      <3> DEFINE pt == [period_timer EXCEPT !.armed = TRUE]
      <3>1. StepTo(b, pt, NoWalk)
        BY <2>1 DEF PeriodLoop
      <3>2. pt \in TimerType /\ pt.armed /\ pt.expires = period_timer.expires
        BY <1>1 DEF TimerType
      <3> HIDE DEF pt, StepTo
      <3> QED BY <1>1, <3>1, <3>2, WalkFacts
    <2>2. CASE ~(now < period_timer.expires) /\ Deactivates(b)
      <3> DEFINE pt == [armed |-> FALSE, expires |-> expires]
                 cb == deactivated(b)
      <3>1. StepTo(cb, pt, NoWalk)
        BY <2>2 DEF PeriodLoop, expires
      <3>2. pt \in TimerType /\ ~pt.armed /\ pt.expires = expires
        BY <1>2 DEF TimerType
      <3>3. cb \in CfsBType /\ ~cb.period_active /\ cb.quota = b.quota
        BY DEF deactivated, CfsBType
      <3> HIDE DEF pt, cb, StepTo
      <3> QED BY <1>2, <2>2, <3>1, <3>2, <3>3, WalkFacts DEF Deactivates
    <2>3. CASE ~(now < period_timer.expires) /\ ~Deactivates(b) /\ throttled_list = <<>>
      <3> DEFINE pt == [armed |-> TRUE, expires |-> expires]
                 cb == [refresh EXCEPT !.idle = TRUE]
      <3>1. StepTo(cb, pt, NoWalk)
        BY <2>3 DEF PeriodLoop, expires, refresh
      <3>2. pt \in TimerType /\ pt.armed /\ pt.expires = expires
        BY <1>2 DEF TimerType
      <3>3. cb \in CfsBType /\ cb.period_active = b.period_active
        BY <1>3 DEF CfsBType
      <3> HIDE DEF pt, cb, StepTo
      <3> QED BY <1>2, <2>3, <3>1, <3>2, <3>3, WalkFacts
    <2>4. CASE ~(now < period_timer.expires) /\ ~Deactivates(b) /\ throttled_list # <<>>
      <3> DEFINE pt == [armed |-> FALSE, expires |-> expires]
                 w  == StartWalk(refresh.runtime, refresh.runtime_expires)
      <3>1. StepTo(refresh, pt, w)
        BY <2>4 DEF PeriodLoop, expires, refresh
      <3>2. pt \in TimerType /\ pt.expires = expires
        BY <1>2 DEF TimerType
      <3>3. w \in WalkType /\ w.pc = "advance"
        BY <1>3, WalkFacts
      <3> HIDE DEF pt, w, StepTo
      <3> QED BY <1>2, <1>3, <3>1, <3>2, <3>3
    <2> QED BY <2>1, <2>2, <2>3, <2>4
  <1>5. /\ walk' \in [Timers -> WalkType] /\ walk'["period"] = w
        /\ \A u \in Timers \ {"period"} : walk'[u] = walk[u]
    BY <1>1, <1>4 DEF Timers
  <1>6. handed' \in HandedType
    <2>1. handed' = handed \/ handed' = refilling
      BY DEF PeriodLoop
    <2> QED BY <1>1, <2>1, HandedFacts
  <1>7. UNCHANGED <<setter, online, hotplugs, now>>
    BY DEF envVars
  <1>8. TimerInv'
    <2>1. \A u \in Timers : walk'[u].pc = "visit" => walk'[u].cur \in Cpus
      BY <1>4, <1>5 DEF IInv, TimerInv
    <2> QED BY <1>4, <1>5, <1>7, <2>1 DEF TimerInv
  <1> QED BY <1>4, <1>5, <1>6, <1>7, <1>8, PoolStep DEF IInv, TypeOK, OfflineInv

\* Both entries of the period timer's callback.
LEMMA PeriodIInv ==
  ASSUME IInv, sched_cfs_period_timer \/ do_sched_cfs_period_timer
  PROVE  IInv'
  <1>1. /\ cfs_b \in CfsBType /\ walk \in [Timers -> WalkType] /\ now \in Nat
        /\ cfs_b.period_active <=> period_timer.armed \/ walk["period"].pc # "idle"
    BY DEF IInv, TypeOK, TimerInv
  <1>2. CASE sched_cfs_period_timer
    <2>1. /\ cfs_b.period_active /\ PeriodLoop(cfs_b)
          /\ UNCHANGED <<throttled_list, stale, cfs_rq, rq, slack_timer, envVars>>
      BY <1>1, <1>2 DEF sched_cfs_period_timer
    <2> QED BY <1>1, <2>1, PeriodLoopIInv
  <1>3. CASE do_sched_cfs_period_timer
    <2> DEFINE g == Given("period")
               b == deducted(cfs_b, g)
               b1 == [b EXCEPT !.idle = FALSE]
    <2>1. walk["period"] \in WalkType /\ walk["period"].expires \in Nat /\ g \in Int
      BY <1>1 DEF Timers, WalkType, Given
    <2>2. cfs_b.period_active
      BY <1>1, <1>3 DEF do_sched_cfs_period_timer
    <2> HIDE DEF g
    <2>3. b \in CfsBType /\ b.period_active = cfs_b.period_active /\ b.quota = cfs_b.quota
      BY <1>1, <2>1, PoolFacts
    <2>4. UNCHANGED <<throttled_list, stale, cfs_rq, rq, slack_timer, envVars>>
      BY <1>3 DEF do_sched_cfs_period_timer
    <2>5. CASE throttled_list # <<>> /\ b.runtime > 0
      <3> DEFINE w == StartWalk(b.runtime, walk["period"].expires)
      <3>1. /\ cfs_b' = b /\ walk' = [walk EXCEPT !["period"] = w]
            /\ UNCHANGED <<period_timer, handed>>
        BY <1>3, <2>5 DEF do_sched_cfs_period_timer, g
      <3>2. w \in WalkType /\ w.pc = "advance"
        <4>1. b.runtime \in Nat
          BY <2>3 DEF CfsBType
        <4> QED BY <2>1, <4>1, WalkFacts
      <3> HIDE DEF w, b
      <3>3. /\ walk' \in [Timers -> WalkType] /\ walk'["period"] = w
            /\ \A u \in Timers \ {"period"} : walk'[u] = walk[u]
        BY <1>1, <3>1, <3>2 DEF Timers
      <3>4. UNCHANGED <<setter, online, hotplugs, now>>
        BY <2>4 DEF envVars
      <3>5. TimerInv'
        <4>1. \A u \in Timers : walk'[u].pc = "visit" => walk'[u].cur \in Cpus
          BY <3>2, <3>3 DEF IInv, TimerInv
        <4> QED BY <2>2, <2>3, <2>4, <3>1, <3>2, <3>3, <3>4, <4>1 DEF IInv, TimerInv
      <3> QED BY <2>3, <2>4, <3>1, <3>3, <3>4, <3>5, PoolStep DEF IInv, TypeOK, OfflineInv
    <2>6. CASE ~(throttled_list # <<>> /\ b.runtime > 0)
      <3>1. PeriodLoop(b1)
        BY <1>3, <2>6 DEF do_sched_cfs_period_timer, g
      <3> HIDE DEF b
      <3>2. b1 \in CfsBType /\ b1.period_active = cfs_b.period_active
        BY <2>3 DEF CfsBType
      <3> HIDE DEF b1
      <3> QED BY <2>2, <2>4, <3>1, <3>2, PeriodLoopIInv
    <2> QED BY <2>5, <2>6
  <1> QED BY <1>2, <1>3

\* The slack timer's callback.
LEMMA SlackIInv ==
  ASSUME IInv, sched_cfs_slack_timer \/ do_sched_cfs_slack_timer
  PROVE  IInv'
  <1>1. /\ cfs_b \in CfsBType /\ walk \in [Timers -> WalkType] /\ slack_timer \in TimerType
        /\ now \in Nat /\ cfs_b.runtime \in Nat /\ cfs_b.runtime_expires \in Nat
        /\ walk["slack"] \in WalkType
    BY DEF IInv, TypeOK, CfsBType, Timers
  <1>2. /\ UNCHANGED <<throttled_list, stale, cfs_rq, rq, period_timer, setter, online, hotplugs, now>>
        /\ handed' \in HandedType
    <2>1. handed' = handed \/ handed' = [handed EXCEPT !.slack = @ + cfs_b.runtime]
      BY DEF sched_cfs_slack_timer, do_sched_cfs_slack_timer
    <2>2. PICK k \in Nat : k = handed.slack + cfs_b.runtime
      BY <1>1, HandedFacts
    <2>3. handed' \in HandedType
      BY <2>1, <2>2, HandedFacts DEF HandedType
    <2> QED BY <2>3 DEF sched_cfs_slack_timer, do_sched_cfs_slack_timer, envVars
  <1>3. /\ walk' \in [Timers -> WalkType] /\ walk'["period"] = walk["period"]
        /\ walk'["slack"].pc = "visit" => walk'["slack"].cur \in Cpus
    <2>1. \/ walk' = walk
          \/ walk' = [walk EXCEPT !["slack"] = NoWalk]
          \/ walk' = [walk EXCEPT !["slack"] = StartWalk(cfs_b.runtime, cfs_b.runtime_expires)]
      BY DEF sched_cfs_slack_timer, do_sched_cfs_slack_timer
    <2>2. CASE walk' = walk
      BY <1>1, <2>2 DEF IInv, TimerInv, Timers
    <2>3. ASSUME NEW w \in WalkType, w.pc # "visit", walk' = [walk EXCEPT !["slack"] = w]
          PROVE  /\ walk' \in [Timers -> WalkType] /\ walk'["period"] = walk["period"]
                 /\ walk'["slack"].pc = "visit" => walk'["slack"].cur \in Cpus
      BY <1>1, <2>3 DEF Timers
    <2> QED BY <1>1, <2>1, <2>2, <2>3, WalkFacts
  <1>4. /\ cfs_b' \in CfsBType /\ cfs_b'.quota = cfs_b.quota
        /\ cfs_b'.period_active = cfs_b.period_active
    <2>1. Given("slack") \in Int
      BY <1>1 DEF Given, WalkType
    <2>2. cfs_b' = cfs_b \/ cfs_b' = deducted(cfs_b, Given("slack"))
      BY DEF sched_cfs_slack_timer, do_sched_cfs_slack_timer
    <2> QED BY <1>1, <2>1, <2>2, PoolFacts
  <1>5. slack_timer' \in TimerType
    <2>1. slack_timer' = slack_timer \/ slack_timer' = [slack_timer EXCEPT !.armed = FALSE]
      BY DEF sched_cfs_slack_timer, do_sched_cfs_slack_timer
    <2> QED BY <1>1, <2>1 DEF TimerType
  <1>6. TimerInv'
    BY <1>2, <1>3, <1>4 DEF IInv, TimerInv, Timers
  <1> QED BY <1>2, <1>3, <1>4, <1>5, <1>6, PoolStep DEF IInv, TypeOK, OfflineInv

\* The quota is set, under cfs_b->lock.
LEMMA SetIInv ==
  ASSUME IInv, NEW quota \in Quotas, tg_set_cfs_bandwidth(quota)
  PROVE  IInv'
  <1> DEFINE b0 == [cfs_b EXCEPT !.quota = quota]
             b  == refilled(b0)
  <1>1. /\ cfs_b \in CfsBType /\ now \in Nat /\ setter \in [todo : SUBSET Cpus, left : Nat]
        /\ online \subseteq Cpus /\ setter.left \in Nat /\ handed \in HandedType
    BY DEF IInv, TypeOK
  <1>2. quota \in Nat \cup {RUNTIME_INF}
    BY QuotaAssumption
  <1>3. b0 \in CfsBType /\ b0.period_active = cfs_b.period_active /\ b0.quota = quota
    BY <1>1, <1>2 DEF CfsBType
  <1>4. /\ IF quota = RUNTIME_INF THEN cfs_b' = b /\ UNCHANGED <<period_timer, handed>>
           ELSE start_cfs_bandwidth(b) /\ handed' = refilling
        /\ setter.left > 0 /\ setter' = [todo |-> online, left |-> setter.left - 1]
        /\ UNCHANGED <<throttled_list, stale, cfs_rq, rq, slack_timer, walk, online, hotplugs, now>>
    BY DEF tg_set_cfs_bandwidth
  <1> HIDE DEF b0
  <1>5. b \in CfsBType /\ b.period_active = cfs_b.period_active /\ b.quota = quota
    BY <1>1, <1>3, PoolFacts
  <1> HIDE DEF b
  <1>6. cfs_b' \in CfsBType /\ period_timer' \in TimerType /\ handed' \in HandedType /\ TimerInv'
    <2>1. CASE quota = RUNTIME_INF
      <3>1. cfs_b' = b /\ UNCHANGED <<period_timer, handed>>
        BY <1>4, <2>1
      <3> QED BY <1>1, <1>4, <1>5, <2>1, <3>1 DEF IInv, TypeOK, TimerInv
    <2>2. CASE quota # RUNTIME_INF
      <3>1. start_cfs_bandwidth(b) /\ handed' = refilling /\ UNCHANGED <<walk, now>>
        BY <1>4, <2>2
      <3>2. handed' \in HandedType
        BY <3>1, HandedFacts
      <3> QED BY <1>5, <3>1, <3>2, StartFacts
    <2> QED BY <2>1, <2>2
  <1>7. setter' \in [todo : SUBSET Cpus, left : Nat] /\ setter'.todo \subseteq online
    BY <1>1, <1>4
  <1> QED BY <1>4, <1>6, <1>7, PoolStep DEF IInv, TypeOK

\* Everything the queues depend on.
SameQueue(q, r) ==
  /\ r.throttled = q.throttled /\ r.nr_running = q.nr_running /\ r.curr = q.curr
  /\ r.on_rq = q.on_rq /\ r.on_list = q.on_list

\* The enforcement of the quota is switched.
Switched(q, e, m) == [q EXCEPT !.runtime_enabled = e, !.runtime_remaining = m]

\* A reset keeps the queue and sets the two fields that a change of the quota sets.
LEMMA SwitchFacts ==
  ASSUME NEW q0 \in CfsRqType, NEW e \in BOOLEAN, NEW m \in Int
  PROVE  LET q == Switched(q0, e, m)
         IN  /\ q \in CfsRqType /\ q.runtime_enabled = e /\ q.runtime_remaining = m /\ SameQueue(q0, q)
  <1> DEFINE q == [q0 EXCEPT !.runtime_enabled = e, !.runtime_remaining = m]
  <1>1. q \in CfsRqType
    BY DEF CfsRqType
  <1>2. q.runtime_enabled = e /\ q.runtime_remaining = m /\ SameQueue(q0, q)
    BY <1>1 DEF CfsRqType, SameQueue
  <1>3. q = Switched(q0, e, m)
    BY DEF Switched
  <1> HIDE DEF q
  <1> QED BY <1>1, <1>2, <1>3

\* A cfs_rq that becomes q and, if it was throttled, is unthrottled, outside the scheduler.
LEMMA ResetIInv ==
  ASSUME IInv, NEW c \in Cpus, Free(c), NEW q \in CfsRqType, SameQueue(cfs_rq[c], q),
         q.runtime_remaining >= 0,
         IF q.throttled
           THEN cfs_rq' = [cfs_rq EXCEPT ![c] = unthrottled(q)] /\ unlink(c)
           ELSE cfs_rq' = [cfs_rq EXCEPT ![c] = q] /\ UNCHANGED <<throttled_list, stale>>,
         UNCHANGED <<cfs_b, rq, timerVars, now, handed>>,
         setter' \in [todo : SUBSET Cpus, left : Nat], setter'.todo \subseteq online', online' \subseteq Cpus,
         hotplugs' \in Nat, online \ {c} \subseteq online',
         c \notin online' => (q.on_list => ~q.runtime_enabled)
  PROVE  IInv'
  <1> DEFINE q0 == cfs_rq[c]
             f  == rq[c]
  <1>1. /\ q0 \in CfsRqType /\ f \in FrameType /\ QueueInv(q0, f) /\ RuntimeInv(q0, f) /\ f.op = "none"
    BY CpuFacts DEF Free
  <1>2. /\ q.throttled = q0.throttled /\ q.nr_running = q0.nr_running /\ q.curr = q0.curr
        /\ q.on_rq = q0.on_rq /\ q.on_list = q0.on_list
    BY DEF SameQueue
  <1>3. /\ ~f.assign /\ Reachable(q) /\ (q.curr = "queued" => q.nr_running > 0)
        /\ q.nr_running > 0 => q.on_list
    BY <1>1, <1>2 DEF QueueInv, RuntimeInv, Reachable
  <1>4. q.runtime_remaining \in Int /\ ~(q.runtime_remaining < 0)
    BY DEF CfsRqType
  <1>5. /\ throttled_list \in Seq(Cpus) /\ Injective(throttled_list) /\ stale \in [Cpus -> Cpus \cup {ListHead}]
        /\ (q0.throttled <=> c \in ToSet(throttled_list)) /\ cfs_rq \in [Cpus -> CfsRqType]
        /\ rq \in [Cpus -> FrameType]
    BY DEF IInv, TypeOK, ListInv, FrameType
  <1>6. PICK r \in CfsRqType :
          /\ cfs_rq' = [cfs_rq EXCEPT ![c] = r] /\ QueueInv(r, f) /\ RuntimeInv(r, f)
          /\ r.on_list = q.on_list /\ r.runtime_enabled = q.runtime_enabled
          /\ throttled_list' \in Seq(Cpus) /\ Injective(throttled_list') /\ stale' \in [Cpus -> Cpus \cup {ListHead}]
          /\ ToSet(throttled_list') = (ToSet(throttled_list) \ {c}) \cup (IF r.throttled THEN {c} ELSE {})
    <2>1. CASE q.throttled
      <3> DEFINE r == unthrottled(q)
      <3>1. cfs_rq' = [cfs_rq EXCEPT ![c] = r] /\ unlink(c)
        BY <2>1
      <3>2. /\ r \in CfsRqType /\ ~r.throttled /\ (r.on_rq <=> q.nr_running > 0)
            /\ r.nr_running = q.nr_running /\ r.curr = q.curr /\ r.on_list = q.on_list
            /\ r.runtime_enabled = q.runtime_enabled /\ r.runtime_remaining = q.runtime_remaining
        BY UnthrottledFacts
      <3> HIDE DEF r
      <3>3. QueueInv(r, f) /\ RuntimeInv(r, f)
        BY <1>1, <1>3, <1>4, <3>2 DEF QueueInv, RuntimeInv, Reachable
      <3>4. /\ throttled_list' \in Seq(Cpus) /\ Injective(throttled_list') /\ stale' \in [Cpus -> Cpus \cup {ListHead}]
            /\ ToSet(throttled_list') = ToSet(throttled_list) \ {c}
        BY <1>2, <2>1, <3>1, UnlinkFacts DEF IInv
      <3> QED BY <3>1, <3>2, <3>3, <3>4
    <2>2. CASE ~q.throttled
      <3>1. cfs_rq' = [cfs_rq EXCEPT ![c] = q] /\ UNCHANGED <<throttled_list, stale>>
        BY <2>2
      <3>2. QueueInv(q, f) /\ RuntimeInv(q, f)
        BY <1>1, <1>3, <1>4 DEF QueueInv, RuntimeInv
      <3> QED BY <1>2, <1>5, <2>2, <3>1, <3>2
    <2> QED BY <2>1, <2>2
  <1>7. Leave(c, r, f)
    BY <1>5, <1>6 DEF Leave
  <1>8. UNCHANGED <<period_timer, slack_timer, walk>>
    BY DEF timerVars
  <1>9. throttled_list = <<>> => throttled_list' = <<>>
    <2>1. ToSet(<<>>) = {}
      BY DEF ToSet
    <2>2. throttled_list = <<>> => ~q.throttled
      BY <1>2, <1>5, <2>1
    <2> QED BY <2>2
  <1>10. TimerInv'
    BY <1>8, <1>9, TimerKept
  <1>11. OfflineInv'
    <2>1. /\ cfs_rq'[c] = r /\ \A d \in Cpus \ {c} : cfs_rq'[d] = cfs_rq[d]
      BY <1>5, <1>6
    <2>2. \A d \in Cpus \ online' : /\ cfs_rq'[d].on_list => ~cfs_rq'[d].runtime_enabled
                                    /\ rq'[d].op # "enqueue"
      <3> SUFFICES ASSUME NEW d \in Cpus \ online'
                   PROVE  /\ cfs_rq'[d].on_list => ~cfs_rq'[d].runtime_enabled
                          /\ rq'[d].op # "enqueue"
        OBVIOUS
      <3>1. CASE d = c
        BY <1>1, <1>6, <2>1, <3>1
      <3>2. CASE d # c
        BY <2>1, <3>2 DEF IInv, OfflineInv
      <3> QED BY <3>1, <3>2
    <2> QED BY <2>2 DEF OfflineInv
  <1>12. /\ cfs_b' \in CfsBType /\ period_timer' \in TimerType /\ slack_timer' \in TimerType /\ handed' \in HandedType
         /\ walk' \in [Timers -> WalkType] /\ now' \in Nat
    BY <1>8 DEF IInv, TypeOK
  <1> QED BY <1>1, <1>6, <1>7, <1>10, <1>11, <1>12, RqStep

\* The loop of tg_set_cfs_bandwidth at one CPU.
LEMMA SetRqIInv ==
  ASSUME IInv, NEW c \in Cpus, tg_set_cfs_bandwidth_rq(c)
  PROVE  IInv'
  <1> DEFINE q == [cfs_rq[c] EXCEPT !.runtime_enabled = cfs_b.quota # RUNTIME_INF, !.runtime_remaining = 0]
  <1>1. /\ cfs_rq[c] \in CfsRqType /\ setter \in [todo : SUBSET Cpus, left : Nat]
        /\ setter.todo \subseteq online /\ online \subseteq Cpus /\ hotplugs \in Nat
    BY DEF IInv, TypeOK, OfflineInv
  <1>2. /\ c \in setter.todo /\ Free(c)
        /\ IF q.throttled
             THEN cfs_rq' = [cfs_rq EXCEPT ![c] = unthrottled(q)] /\ unlink(c)
             ELSE cfs_rq' = [cfs_rq EXCEPT ![c] = q] /\ UNCHANGED <<throttled_list, stale>>
        /\ setter' = [setter EXCEPT !.todo = @ \ {c}]
        /\ UNCHANGED <<cfs_b, rq, timerVars, online, hotplugs, now, handed>>
    BY Zenon DEF tg_set_cfs_bandwidth_rq
  <1>3. q \in CfsRqType /\ SameQueue(cfs_rq[c], q) /\ q.runtime_remaining = 0
    <2>1. (cfs_b.quota # RUNTIME_INF) \in BOOLEAN
      OBVIOUS
    <2>2. PICK e \in BOOLEAN, m \in Int : e = (cfs_b.quota # RUNTIME_INF) /\ m = 0
      <3>1. 0 \in Int
        OBVIOUS
      <3> QED BY <2>1, <3>1, Zenon
    <2>3. q = Switched(cfs_rq[c], e, m)
      BY <2>2 DEF Switched
    <2> HIDE DEF q
    <2>4. q \in CfsRqType /\ SameQueue(cfs_rq[c], q) /\ q.runtime_remaining = m
      BY <1>1, <2>2, <2>3, SwitchFacts
    <2> QED BY <2>2, <2>4
  <1> HIDE DEF q
  <1>4. /\ setter' \in [todo : SUBSET Cpus, left : Nat] /\ setter'.todo \subseteq online'
        /\ online' = online /\ hotplugs' = hotplugs
    BY <1>1, <1>2
  <1>5. c \in online'
    BY <1>1, <1>2, <1>4
  <1>6. q.runtime_remaining >= 0
    BY <1>3
  <1> QED BY <1>1, <1>2, <1>3, <1>4, <1>5, <1>6, ResetIInv

\* A CPU goes offline, or comes back.
LEMMA HotplugIInv ==
  ASSUME IInv, NEW c \in Cpus, rq_offline_fair(c) \/ rq_online_fair(c)
  PROVE  IInv'
  <1> DEFINE q0 == cfs_rq[c]
  <1>1. /\ q0 \in CfsRqType /\ rq[c] \in FrameType /\ QueueInv(q0, rq[c]) /\ RuntimeInv(q0, rq[c])
        /\ c \notin online => (q0.on_list => ~q0.runtime_enabled)
    BY CpuFacts
  <1>2. /\ setter.todo = {} /\ Free(c) /\ rq[c].op = "none" /\ ~rq[c].assign
        /\ UNCHANGED <<cfs_b, rq, timerVars, setter, now, handed>>
    BY <1>1 DEF rq_offline_fair, rq_online_fair, Free, RuntimeInv
  <1>3. /\ setter \in [todo : SUBSET Cpus, left : Nat] /\ online \subseteq Cpus /\ hotplugs \in Nat
        /\ cfs_rq \in [Cpus -> CfsRqType] /\ rq \in [Cpus -> FrameType]
        /\ throttled_list \in Seq(Cpus) /\ Injective(throttled_list) /\ stale \in [Cpus -> Cpus \cup {ListHead}]
        /\ (q0.throttled <=> c \in ToSet(throttled_list))
    BY DEF IInv, TypeOK, ListInv, FrameType
  <1>4. /\ online' \subseteq Cpus /\ hotplugs' \in Nat /\ online \ {c} \subseteq online'
        /\ setter' \in [todo : SUBSET Cpus, left : Nat] /\ setter'.todo \subseteq online'
    BY <1>2, <1>3 DEF rq_offline_fair, rq_online_fair
  <1>5. ASSUME NEW q \in CfsRqType, cfs_rq' = [cfs_rq EXCEPT ![c] = q], UNCHANGED <<throttled_list, stale>>,
               q.throttled = q0.throttled, q.nr_running = q0.nr_running, q.curr = q0.curr,
               q.on_rq = q0.on_rq, q.on_list = q0.on_list, q.resched = q0.resched,
               q.runtime_remaining = q0.runtime_remaining,
               ~q.runtime_enabled => q.runtime_remaining >= 0,
               c \notin online' => (q.on_list => ~q.runtime_enabled)
        PROVE  IInv'
    <2>1. QueueInv(q, rq[c])
      BY <1>1, <1>2, <1>5 DEF QueueInv, Reachable
    <2>2. RuntimeInv(q, rq[c])
      BY <1>1, <1>2, <1>5 DEF RuntimeInv
    <2>3. Leave(c, q, rq[c])
      BY <1>2, <1>3, <1>5 DEF Leave
    <2>4. UNCHANGED <<period_timer, slack_timer, walk>>
      BY <1>2 DEF timerVars
    <2>5. TimerInv'
      BY <1>2, <1>5, <2>4, TimerKept
    <2>6. OfflineInv'
      <3>1. /\ cfs_rq'[c] = q /\ \A d \in Cpus \ {c} : cfs_rq'[d] = cfs_rq[d]
        BY <1>3, <1>5
      <3>2. \A d \in Cpus \ online' : /\ cfs_rq'[d].on_list => ~cfs_rq'[d].runtime_enabled
                                      /\ rq'[d].op # "enqueue"
        <4> SUFFICES ASSUME NEW d \in Cpus \ online'
                     PROVE  /\ cfs_rq'[d].on_list => ~cfs_rq'[d].runtime_enabled
                            /\ rq'[d].op # "enqueue"
          OBVIOUS
        <4>1. CASE d = c
          BY <1>2, <1>5, <3>1, <4>1
        <4>2. CASE d # c
          BY <1>2, <1>4, <3>1, <4>2 DEF IInv, OfflineInv
        <4> QED BY <4>1, <4>2
      <3> QED BY <1>4, <3>2 DEF OfflineInv
    <2>7. /\ cfs_b' \in CfsBType /\ period_timer' \in TimerType /\ slack_timer' \in TimerType /\ handed' \in HandedType
          /\ walk' \in [Timers -> WalkType] /\ now' \in Nat
      BY <1>2, <2>4 DEF IInv, TypeOK
    <2>8. /\ throttled_list' \in Seq(Cpus) /\ Injective(throttled_list') /\ stale' \in [Cpus -> Cpus \cup {ListHead}]
          /\ ToSet(throttled_list') = (ToSet(throttled_list) \ {c}) \cup (IF q.throttled THEN {c} ELSE {})
      BY <1>3, <1>5
    <2> QED BY <1>1, <1>4, <2>1, <2>2, <2>3, <2>5, <2>6, <2>7, <2>8, RqStep
  <1>6. CASE rq_offline_fair(c) /\ ~(q0.on_list /\ q0.runtime_enabled)
    <2>1. cfs_rq' = [cfs_rq EXCEPT ![c] = q0] /\ UNCHANGED <<throttled_list, stale>>
      BY <1>3, <1>6 DEF rq_offline_fair
    <2>2. ~q0.runtime_enabled => q0.runtime_remaining >= 0
      BY <1>1 DEF RuntimeInv
    <2> QED BY <1>1, <1>5, <1>6, <2>1, <2>2
  <1>7. CASE rq_offline_fair(c) /\ q0.on_list /\ q0.runtime_enabled
    <2> DEFINE q == [q0 EXCEPT !.runtime_remaining = 1, !.runtime_enabled = FALSE]
    <2>1. IF q.throttled
            THEN cfs_rq' = [cfs_rq EXCEPT ![c] = unthrottled(q)] /\ unlink(c)
            ELSE cfs_rq' = [cfs_rq EXCEPT ![c] = q] /\ UNCHANGED <<throttled_list, stale>>
      BY <1>7, Zenon DEF rq_offline_fair
    <2>2. q \in CfsRqType /\ ~q.runtime_enabled /\ q.runtime_remaining = 1 /\ SameQueue(q0, q)
      <3>1. PICK e \in BOOLEAN, m \in Int : e = FALSE /\ m = 1
        <4>1. FALSE \in BOOLEAN /\ 1 \in Int
          OBVIOUS
        <4> QED BY <4>1, Zenon
      <3>2. q = [q0 EXCEPT !.runtime_remaining = m, !.runtime_enabled = e]
        BY <3>1
      <3> HIDE DEF q
      <3>3. /\ Switched(q0, e, m) \in CfsRqType /\ SameQueue(q0, Switched(q0, e, m))
            /\ Switched(q0, e, m).runtime_enabled = e /\ Switched(q0, e, m).runtime_remaining = m
        BY <1>1, <3>1, SwitchFacts
      <3>4. q = Switched(q0, e, m)
        BY <1>1, <3>2 DEF Switched, CfsRqType
      <3> QED BY <3>1, <3>3, <3>4
    <2> HIDE DEF q
    <2>3. q.runtime_remaining >= 0
      BY <2>2
    <2> QED BY <1>2, <1>4, <2>1, <2>2, <2>3, ResetIInv
  <1>8. CASE rq_online_fair(c)
    <2> DEFINE q == update_runtime_enabled(q0)
    <2>1. c \in online'
      BY <1>8 DEF rq_online_fair
    <2>2. cfs_rq' = [cfs_rq EXCEPT ![c] = q] /\ UNCHANGED <<throttled_list, stale>>
      BY <1>3, <1>8 DEF rq_online_fair
    <2>3. q0.on_list => ~q0.runtime_enabled
      BY <1>1, <1>8 DEF rq_online_fair
    <2>4. /\ q \in CfsRqType /\ q.throttled = q0.throttled /\ q.nr_running = q0.nr_running /\ q.curr = q0.curr
          /\ q.on_rq = q0.on_rq /\ q.on_list = q0.on_list /\ q.resched = q0.resched
          /\ q.runtime_remaining = q0.runtime_remaining
          /\ ~q0.on_list => q.runtime_enabled = q0.runtime_enabled
      <3>1. PICK e \in BOOLEAN : e = (cfs_b.quota # RUNTIME_INF)
        <4>1. (cfs_b.quota # RUNTIME_INF) \in BOOLEAN
          OBVIOUS
        <4> QED BY <4>1, Zenon
      <3>2. q = q0 \/ (q0.on_list /\ q = [q0 EXCEPT !.runtime_enabled = e])
        BY <3>1 DEF update_runtime_enabled
      <3> HIDE DEF q, q0
      <3> QED BY <1>1, <3>2 DEF CfsRqType
    <2> HIDE DEF q
    <2>5. ~q.runtime_enabled => q.runtime_remaining >= 0
      BY <1>1, <2>3, <2>4 DEF RuntimeInv
    <2> QED BY <1>5, <2>1, <2>2, <2>4, <2>5
  <1> QED BY <1>6, <1>7, <1>8

\* Time passes.
LEMMA TickIInv ==
  ASSUME IInv, Tick
  PROVE  IInv'
  <1>1. UNCHANGED <<cfs_b, throttled_list, stale, cfs_rq, rq, period_timer, slack_timer, walk, setter, online, hotplugs, handed>>
    BY DEF Tick, timerVars
  <1>2. now \in Nat /\ now' = now + 1 /\ period_timer \in TimerType /\ period_timer.expires \in Nat
    BY DEF Tick, IInv, TypeOK, TimerType
  <1>3. period_timer.expires <= now' + Period
    BY <1>2, TimeAssumption DEF IInv, TimerInv
  <1>4. TimerInv'
    BY <1>1, <1>2, <1>3 DEF IInv, TimerInv
  <1> QED BY <1>1, <1>2, <1>4, PoolStep DEF IInv, TypeOK, OfflineInv

-----------------------------------------------------------------------------
(***************************************************************************)
(* The specification.                                                      *)
(***************************************************************************)
LEMMA InitIInv ==
  ASSUME Init
  PROVE  IInv
  <1> DEFINE finite == InitQuota # RUNTIME_INF
             p  == IF finite THEN Period ELSE 0
             q0 == [runtime_enabled |-> finite, runtime_remaining |-> 0, runtime_expires |-> 0,
                    throttled |-> FALSE, nr_running |-> 0, curr |-> "none", exec_start |-> 0,
                    on_rq |-> FALSE, on_list |-> FALSE, resched |-> FALSE, balancing |-> FALSE,
                    woken |-> 0]
  <1>1. /\ cfs_b = [quota |-> InitQuota, runtime |-> IF finite THEN InitQuota ELSE 0,
                    runtime_expires |-> p, idle |-> FALSE, period_active |-> finite]
        /\ period_timer = [armed |-> finite, expires |-> p]
        /\ cfs_rq = [c \in Cpus |-> q0]
        /\ throttled_list = <<>> /\ stale = [c \in Cpus |-> ListHead] /\ rq = [c \in Cpus |-> Unlocked]
        /\ slack_timer = [armed |-> FALSE, expires |-> 0] /\ walk = [t \in Timers |-> NoWalk]
        /\ setter = [todo |-> {}, left |-> MaxSets] /\ online = Cpus /\ hotplugs = 0 /\ now = 0
        /\ handed = [out |-> 0, back |-> 0, slack |-> 0]
    BY DEF Init
  <1>2. finite \in BOOLEAN /\ p \in Nat /\ p <= Period /\ InitQuota \in Nat \cup {RUNTIME_INF}
        /\ (IF finite THEN InitQuota ELSE 0) \in Nat
    BY QuotaAssumption, TimeAssumption
  <1>3. q0 \in CfsRqType /\ QueueInv(q0, Unlocked) /\ RuntimeInv(q0, Unlocked) /\ ~q0.throttled /\ ~q0.on_list
    <2>1. q0 \in CfsRqType
      BY <1>2 DEF CfsRqType
    <2>2. /\ q0.runtime_remaining = 0 /\ ~q0.throttled /\ q0.nr_running = 0 /\ q0.curr = "none"
          /\ ~q0.on_rq /\ ~q0.on_list
      OBVIOUS
    <2> HIDE DEF q0
    <2>3. QueueInv(q0, Unlocked)
      BY <2>2, FrameFacts DEF QueueInv, Reachable
    <2>4. RuntimeInv(q0, Unlocked)
      BY <2>2, FrameFacts DEF RuntimeInv
    <2> QED BY <2>1, <2>2, <2>3, <2>4
  <1>4. cfs_b \in CfsBType /\ period_timer \in TimerType /\ slack_timer \in TimerType
    <2> HIDE DEF finite, p
    <2>1. cfs_b \in CfsBType
      <3>1. PICK r \in Nat : r = IF finite THEN InitQuota ELSE 0
        BY <1>2
      <3>2. cfs_b = [quota |-> InitQuota, runtime |-> r, runtime_expires |-> p, idle |-> FALSE, period_active |-> finite]
        BY <1>1, <3>1
      <3> QED BY <1>2, <3>2 DEF CfsBType
    <2> QED BY <1>1, <1>2, <2>1 DEF TimerType
  <1> HIDE DEF q0
  <1>5. cfs_rq \in [Cpus -> CfsRqType] /\ rq \in [Cpus -> FrameType] /\ walk \in [Timers -> WalkType]
    BY <1>1, <1>3, FrameFacts, WalkFacts
  <1>6. TypeOK
    <2>1. setter \in [todo : SUBSET Cpus, left : Nat]
      BY <1>1, BoundAssumption
    <2>2. stale \in [Cpus -> Cpus \cup {ListHead}]
      BY <1>1
    <2>3. throttled_list \in Seq(Cpus) /\ online \subseteq Cpus /\ hotplugs \in Nat /\ now \in Nat /\ handed \in HandedType
      BY <1>1 DEF HandedType
    <2> QED BY <1>4, <1>5, <2>1, <2>2, <2>3 DEF TypeOK, FrameType
  <1>7. ListInv
    <2>1. ToSet(<<>>) = {} /\ Injective(<<>>)
      BY DEF ToSet, Injective, IsInjective
    <2> QED BY <1>1, <1>3, <2>1 DEF ListInv
  <1>8. OfflineInv
    BY <1>1 DEF OfflineInv
  <1>9. TimerInv
    <2>1. cfs_b.period_active = finite /\ period_timer.armed = finite /\ period_timer.expires = p
      BY <1>1
    <2>2. \A t \in Timers : walk[t].pc = "idle"
      BY <1>1, WalkFacts
    <2>3. "period" \in Timers
      BY DEF Timers
    <2>4. period_timer.expires <= now + Period
      BY <1>1, <1>2, <2>1, TimeAssumption
    <2> HIDE DEF finite, p
    <2> QED BY <1>1, <2>1, <2>2, <2>3, <2>4 DEF TimerInv
  <1>10. \A c \in Cpus : QueueInv(cfs_rq[c], rq[c]) /\ RuntimeInv(cfs_rq[c], rq[c])
    BY <1>1, <1>3
  <1> QED BY <1>6, <1>7, <1>8, <1>9, <1>10 DEF IInv

\* A step that changes nothing.
LEMMA StutterIInv ==
  ASSUME IInv, UNCHANGED vars
  PROVE  IInv'
  BY DEF vars, timerVars, envVars, IInv, TypeOK, ListInv, OfflineInv, TimerInv, QueueInv, RuntimeInv, Reachable

\* The steps of all actors together.
LEMMA NextIInv ==
  ASSUME IInv, Next
  PROVE  IInv'
  <1>1. "period" \in Timers /\ "slack" \in Timers
    BY DEF Timers
  <1>2. ASSUME NEW c \in Cpus, Cpu(c) PROVE IInv'
    BY <1>2, CpuIInv
  <1>3. CASE sched_cfs_period_timer
    BY <1>3, PeriodIInv
  <1>4. CASE PeriodCallback
    BY <1>1, <1>4, AdvanceIInv, DistributeIInv, PeriodIInv DEF PeriodCallback
  <1>5. CASE sched_cfs_slack_timer
    BY <1>5, SlackIInv
  <1>6. CASE SlackCallback
    BY <1>1, <1>6, AdvanceIInv, DistributeIInv, SlackIInv DEF SlackCallback
  <1>7. ASSUME NEW quota \in Quotas, tg_set_cfs_bandwidth(quota) PROVE IInv'
    BY <1>7, SetIInv
  <1>8. ASSUME NEW c \in Cpus, tg_set_cfs_bandwidth_rq(c) PROVE IInv'
    BY <1>8, SetRqIInv
  <1>9. ASSUME NEW c \in Cpus, rq_offline_fair(c) \/ rq_online_fair(c) PROVE IInv'
    BY <1>9, HotplugIInv
  <1>10. CASE Tick
    BY <1>10, TickIInv
  <1> QED BY <1>2, <1>3, <1>4, <1>5, <1>6, <1>7, <1>8, <1>9, <1>10 DEF Next

\* What holds of the list, the cfs_rqs and the timers of a group between any two steps of its
\* CPUs, its timers, tg_set_cfs_bandwidth and CPU hotplug.
THEOREM BandwidthInvariant == Spec => []IInv
  <1>1. Init => IInv
    BY InitIInv
  <1>2. IInv /\ [Next]_vars => IInv'
    BY NextIInv, StutterIInv
  <1> QED BY <1>1, <1>2, PTL DEF Spec

\* The invariant implies what throttle_cfs_rq and unthrottle_cfs_rq promise.
LEMMA IInvConsistent == IInv => ThrottlingConsistent
  <1> SUFFICES ASSUME IInv PROVE ThrottlingConsistent
    OBVIOUS
  <1>1. ListIsThrottledSet
    BY DEF IInv, ListInv, ToSet, ListIsThrottledSet, Injective, IsInjective
  <1>2. GroupReachable
    <2> SUFFICES ASSUME NEW c \in Cpus, Free(c)
                 PROVE  cfs_rq[c].on_rq <=> cfs_rq[c].nr_running > 0 /\ ~cfs_rq[c].throttled
      BY DEF GroupReachable
    <2>1. QueueInv(cfs_rq[c], rq[c])
      BY DEF IInv
    <2> QED BY <2>1 DEF Free, QueueInv, Reachable
  <1> QED BY <1>1, <1>2 DEF ThrottlingConsistent, IInv

\* Three paths throttle a cfs_rq and four unthrottle it, under different locks: the throttled list
\* holds each throttled cfs_rq once, and between operations a group is queued on a CPU exactly
\* when it has tasks there and is not throttled.
THEOREM ThrottlingAlwaysConsistent == Spec => []ThrottlingConsistent
  BY BandwidthInvariant, IInvConsistent, PTL

\* A throttled cfs_rq is never forgotten: start_cfs_bandwidth, sched_cfs_period_timer and its
\* return to the hrtimer core keep period_active true to the timer, whatever they meet.
THEOREM ThrottledAlwaysHasTimer == Spec => []ThrottledHasTimer
  <1>1. IInv => ThrottledHasTimer
    BY DEF IInv, TimerInv, ThrottledHasTimer
  <1> QED BY BandwidthInvariant, <1>1, PTL

\* account_cfs_rq_runtime and assign_cfs_rq_runtime leave no running task unnoticed that has
\* used more than its cfs_rq had, also across a dequeue, an idle balance or CPU hotplug.
THEOREM OverrunAlwaysNoticed == Spec => []OverrunIsNoticed
  <1>1. IInv => OverrunIsNoticed
    <2> SUFFICES ASSUME IInv, NEW c \in Cpus, Free(c), cfs_rq[c].curr = "queued",
                        cfs_rq[c].runtime_enabled, cfs_rq[c].runtime_remaining < 0
                 PROVE  cfs_rq[c].resched \/ cfs_rq[c].throttled
      BY DEF OverrunIsNoticed
    <2>1. RuntimeInv(cfs_rq[c], rq[c])
      BY DEF IInv
    <2> QED BY <2>1 DEF Free, RuntimeInv
  <1> QED BY BandwidthInvariant, <1>1, PTL

-----------------------------------------------------------------------------
(***************************************************************************)
(* The bookkeeping of the pool, as long as the quota stays as it is.       *)
(***************************************************************************)
\* What a slack distribution that no refill has overtaken has given.
SlackGiven == IF walk["slack"].expires = cfs_b.runtime_expires THEN Given("slack") ELSE 0

\* A CPU enforces the quota unless it is offline and has had tasks.  While the pool is on its
\* way through a walk, what the walk has given is counted twice: handed has it already and the
\* pool still.  A refill moves runtime_expires past that of every walk.
AccountInv ==
  /\ setter.left = 0 /\ setter.todo = {}
  /\ \A c \in Cpus : c \in online \/ ~cfs_rq[c].on_list =>
       (cfs_rq[c].runtime_enabled <=> cfs_b.quota # RUNTIME_INF)
  /\ cfs_b.quota # RUNTIME_INF =>
       /\ handed.out + cfs_b.runtime >= cfs_b.quota + Given("period") + SlackGiven
       /\ cfs_b.runtime_expires < period_timer.expires + Period
  /\ walk["slack"].expires <= cfs_b.runtime_expires
  /\ \A t \in Timers : walk[t].left <= walk[t].start

\* The cfs_rq of c may become q.
Lasting(c, q) == /\ q.runtime_enabled = cfs_rq[c].runtime_enabled
                 /\ q.on_list = cfs_rq[c].on_list \/ c \in online

\* The history of a step that refills nothing and starts no slack distribution: what came
\* back of earlier periods covers whatever the pool got beyond what it gave.
Covered == handed.out + handed.back >= 0
HistoryKept == /\ handed'.slack = handed.slack /\ handed.back <= handed'.back
               /\ Covered => Covered'

\* A step of the scheduler: it switches no enforcement, brings only the cfs_rq of an online
\* CPU to the leaf list, and takes from the pool or returns to it what it holds less or more.
Exchange ==
  /\ \A c \in Cpus : Lasting(c, cfs_rq'[c])
  /\ cfs_b'.quota = cfs_b.quota /\ cfs_b'.runtime_expires = cfs_b.runtime_expires
  /\ cfs_b.quota # RUNTIME_INF => handed'.out + cfs_b'.runtime = handed.out + cfs_b.runtime
  /\ HistoryKept
  /\ period_timer.expires <= period_timer'.expires
  /\ UNCHANGED <<walk, setter, online>>

\* start_cfs_bandwidth never brings the timer forward.
LEMMA StartExchange ==
  ASSUME IInv, NEW b \in CfsBType, start_cfs_bandwidth(b)
  PROVE  /\ cfs_b'.quota = b.quota /\ cfs_b'.runtime_expires = b.runtime_expires /\ cfs_b'.runtime = b.runtime
         /\ period_timer.expires <= period_timer'.expires
  <1>1. /\ period_timer \in TimerType /\ period_timer.expires \in Nat
        /\ now \in Nat /\ period_timer.expires <= now + Period
    BY DEF IInv, TypeOK, TimerType, TimerInv
  <1>2. cfs_b' = [b EXCEPT !.period_active = TRUE]
    BY DEF start_cfs_bandwidth
  <1>3. cfs_b'.quota = b.quota /\ cfs_b'.runtime_expires = b.runtime_expires /\ cfs_b'.runtime = b.runtime
    BY <1>2 DEF CfsBType
  <1> DEFINE e == hrtimer_forward_now(period_timer.expires)
  <1>4. e \in Nat /\ period_timer.expires <= e
    BY <1>1, ForwardFacts
  <1> HIDE DEF e
  <1>5. period_timer' = IF b.period_active THEN period_timer ELSE [armed |-> TRUE, expires |-> e]
    BY DEF start_cfs_bandwidth, e
  <1>6. period_timer.expires <= period_timer'.expires
    <2>1. CASE b.period_active
      <3>1. period_timer' = period_timer
        BY <1>5, <2>1
      <3> QED BY <1>1, <3>1
    <2>2. CASE ~b.period_active
      <3>1. period_timer'.expires = e
        BY <1>5, <2>2
      <3> QED BY <1>4, <3>1
    <2> QED BY <2>1, <2>2
  <1> QED BY <1>3, <1>6

\* Nothing happens to the pool, or runtime leaves it or comes back.
LEMMA HistoryFacts ==
  ASSUME IInv, NEW a \in Int,
         \/ handed' = handed
         \/ a >= 0 /\ handed' = handing(a)
         \/ handed' = returning(a)
  PROVE  HistoryKept
  <1>1. CASE handed' = handed
    BY <1>1, HandedFacts DEF HistoryKept, Covered
  <1>2. CASE a >= 0 /\ handed' = handing(a)
    BY <1>2, HandedFacts DEF HistoryKept, Covered
  <1>3. CASE handed' = returning(a)
    <2>1. PICK h \in HandedType : h = handed' /\ h = returning(a)
      BY <1>3, HandedFacts
    <2>2. h.out = handed.out - a /\ h.back >= a - handed.out /\ h.back >= handed.back /\ h.slack = handed.slack
      BY <2>1, HandedFacts
    <2>3. h.out + h.back >= 0
      BY <2>2, HandedFacts DEF HandedType
    <2> QED BY <2>1, <2>2, <2>3 DEF HistoryKept, Covered
  <1> QED BY <1>1, <1>2, <1>3

\* One cfs_rq is replaced.
LEMMA LastingStep ==
  ASSUME IInv, NEW c \in Cpus, NEW q, cfs_rq' = [cfs_rq EXCEPT ![c] = q], Lasting(c, q)
  PROVE  \A d \in Cpus : Lasting(d, cfs_rq'[d])
  BY DEF IInv, TypeOK, Lasting

\* A step that leaves the pool alone.
LEMMA LeaveExchange ==
  ASSUME IInv, NEW c \in Cpus, NEW q, NEW f, Leave(c, q, f), Lasting(c, q),
         UNCHANGED <<cfs_b, period_timer, walk, envVars, handed>>
  PROVE  Exchange
  <1>1. period_timer.expires \in Nat
    BY DEF IInv, TypeOK, TimerType
  <1>2. \A d \in Cpus : Lasting(d, cfs_rq'[d])
    BY LastingStep DEF Leave
  <1>3. HistoryKept
    BY HistoryFacts
  <1> QED BY <1>1, <1>2, <1>3 DEF Exchange, envVars

\* The same, with a throttle.
LEMMA ThrottleExchange ==
  ASSUME IInv, NEW c \in Cpus, NEW q \in CfsRqType, LeaveOrThrottle(c, q), Lasting(c, q)
  PROVE  Exchange
  <1>1. UNCHANGED <<stale, slack_timer, walk, envVars, handed>>
    BY DEF LeaveOrThrottle
  <1>2. CASE ~Overrun(q)
    BY <1>1, <1>2, LeaveExchange DEF LeaveOrThrottle
  <1>3. CASE Overrun(q)
    <2> DEFINE r == throttled(q)
    <2>1. Leave(c, r, Unlocked) /\ throttle_cfs_rq(c)
      BY <1>3 DEF LeaveOrThrottle
    <2>2. r \in CfsRqType /\ r.runtime_enabled = q.runtime_enabled /\ r.on_list = q.on_list
      BY DEF throttled, CfsRqType
    <2> HIDE DEF r
    <2>3. Lasting(c, r)
      BY <2>2 DEF Lasting
    <2>4. CASE throttled_list # <<>>
      BY <1>1, <2>1, <2>2, <2>3, <2>4, LeaveExchange DEF throttle_cfs_rq
    <2>5. CASE throttled_list = <<>>
      <3>1. start_cfs_bandwidth(cfs_b) /\ cfs_b \in CfsBType
        BY <2>1, <2>5 DEF throttle_cfs_rq, IInv, TypeOK
      <3>2. /\ cfs_b'.quota = cfs_b.quota /\ cfs_b'.runtime_expires = cfs_b.runtime_expires
            /\ cfs_b'.runtime = cfs_b.runtime /\ period_timer.expires <= period_timer'.expires
        BY <3>1, StartExchange
      <3>3. \A d \in Cpus : Lasting(d, cfs_rq'[d])
        BY <2>1, <2>3, LastingStep DEF Leave
      <3>4. HistoryKept
        BY <1>1, HistoryFacts
      <3> QED BY <1>1, <3>2, <3>3, <3>4 DEF Exchange, envVars
    <2> QED BY <2>4, <2>5
  <1> QED BY <1>2, <1>3

\* return_cfs_rq_runtime moves what it takes from the cfs_rq to the pool.
LEMMA DequeueExchange ==
  ASSUME IInv, NEW c \in Cpus, NEW sleeps \in BOOLEAN, NEW q \in CfsRqType,
         Lasting(c, q), dequeue_entity(c, q, sleeps)
  PROVE  Exchange
  <1> DEFINE last == q.nr_running = 1
             r == [q EXCEPT !.nr_running = @ - 1,
                            !.curr = IF sleeps THEN "sleeping" ELSE @,
                            !.runtime_remaining = IF last /\ GivesBack(q) THEN MinRuntime ELSE @,
                            !.on_rq = @ /\ ~last]
  <1>1. /\ cfs_rq' = [cfs_rq EXCEPT ![c] = r]
        /\ IF last THEN return_cfs_rq_runtime(q) ELSE UNCHANGED <<cfs_b, slack_timer, handed>>
        /\ UNCHANGED <<throttled_list, stale, period_timer, walk, envVars>>
    BY DEF dequeue_entity, Leave
  <1>2. r.runtime_enabled = q.runtime_enabled /\ r.on_list = q.on_list /\ q \in CfsRqType
    BY DEF CfsRqType
  <1> HIDE DEF r
  <1>3. \A d \in Cpus : Lasting(d, cfs_rq'[d])
    BY <1>1, <1>2, LastingStep DEF Lasting
  <1>4. UNCHANGED <<period_timer, walk, setter, online>> /\ period_timer.expires \in Nat
    BY <1>1 DEF envVars, IInv, TypeOK, TimerType
  <1>5. /\ cfs_b'.quota = cfs_b.quota /\ cfs_b'.runtime_expires = cfs_b.runtime_expires
        /\ handed'.out + cfs_b'.runtime = handed.out + cfs_b.runtime
        /\ HistoryKept
    <2>1. cfs_b \in CfsBType /\ cfs_b.runtime \in Nat /\ handed \in HandedType
      BY DEF IInv, TypeOK, CfsBType
    <2>2. CASE UNCHANGED <<cfs_b, slack_timer, handed>>
      BY <2>2, HistoryFacts
    <2>3. CASE GivesBack(q) /\ return_cfs_rq_runtime(q) /\ ~UNCHANGED <<cfs_b, slack_timer, handed>>
      <3> DEFINE slack == q.runtime_remaining - MinRuntime
      <3>1. slack \in Int
        BY <1>2, TimeAssumption DEF CfsRqType
      <3>2. cfs_b' = [cfs_b EXCEPT !.runtime = @ + slack] /\ handed' = returning(slack)
        BY <2>3 DEF return_cfs_rq_runtime
      <3> HIDE DEF slack
      <3>3. /\ cfs_b'.quota = cfs_b.quota /\ cfs_b'.runtime_expires = cfs_b.runtime_expires
            /\ cfs_b'.runtime = cfs_b.runtime + slack
        BY <2>1, <3>2 DEF CfsBType
      <3>4. handed'.out = handed.out - slack /\ handed.out \in Int
        BY <3>1, <3>2, HandedFacts
      <3>5. HistoryKept
        BY <3>1, <3>2, HistoryFacts
      <3> QED BY <2>1, <3>1, <3>3, <3>4, <3>5
    <2> QED BY <1>1, <2>2, <2>3 DEF return_cfs_rq_runtime
  <1> QED BY <1>3, <1>4, <1>5 DEF Exchange

\* What an operation does after update_curr.
LEMMA RestExchange ==
  ASSUME IInv, NEW c \in Cpus, NEW op \in Ops \ {"none", "schedule"}, NEW q \in CfsRqType,
         op = "enqueue" => c \in online, Lasting(c, q), Rest(c, op, q)
  PROVE  Exchange
  <1>1. /\ op \in {"account", "enqueue", "check", "dequeue", "sleep", "pick", "put"}
        /\ q \in CfsRqType /\ now \in Nat
    BY DEF Ops, IInv, TypeOK
  <1>2. CASE op = "account"
    <2>1. Leave(c, q, Unlocked) /\ UNCHANGED unchangedPool
      BY <1>2 DEF Rest
    <2> QED BY <2>1, LeaveExchange DEF unchangedPool, timerVars
  <1>3. CASE op = "enqueue"
    <2> DEFINE added == [q EXCEPT !.nr_running = @ + 1, !.on_list = TRUE, !.woken = @ + 1]
               a  == account_cfs_rq_runtime(added, 0)
    <2>1. added.runtime_enabled = q.runtime_enabled /\ added \in CfsRqType /\ 0 \in Nat
      <3>1. PICK n \in Nat, w \in Nat : n = q.nr_running + 1 /\ w = q.woken + 1
        BY <1>1 DEF CfsRqType
      <3>2. added = [q EXCEPT !.nr_running = n, !.on_list = TRUE, !.woken = w]
        BY <3>1
      <3>3. added \in CfsRqType
        BY <1>1, <3>2 DEF CfsRqType
      <3> QED BY <1>1, <3>2, <3>3 DEF CfsRqType
    <2> HIDE DEF added
    <2>2. a \in CfsRqType /\ a.runtime_enabled = q.runtime_enabled
      BY <2>1, AccountFacts DEF Kept
    <2>3. PICK qc \in {added, a}, f \in {Frame("check", TRUE), Unlocked} :
            /\ Leave(c, qc, f) \/ Leave(c, [qc EXCEPT !.on_rq = qc.on_rq \/ ~qc.throttled], f)
            /\ UNCHANGED unchangedPool
      BY <1>3 DEF Rest, enqueue_entity, added
    <2> HIDE DEF a
    <2>4. PICK r : Leave(c, r, f) /\ r.runtime_enabled = q.runtime_enabled
      BY <2>1, <2>2, <2>3 DEF CfsRqType
    <2>5. Lasting(c, r)
      BY <1>3, <2>4 DEF Lasting
    <2> QED BY <2>3, <2>4, <2>5, LeaveExchange DEF unchangedPool, timerVars
  <1>4. CASE op = "check"
    <2> DEFINE r == [q EXCEPT !.on_rq = TRUE]
    <2>1. LeaveOrThrottle(c, r)
      BY <1>4 DEF Rest, check_enqueue_throttle
    <2>2. r \in CfsRqType /\ r.runtime_enabled = q.runtime_enabled /\ r.on_list = q.on_list
      BY <1>1 DEF CfsRqType
    <2> HIDE DEF r
    <2> QED BY <2>1, <2>2, ThrottleExchange DEF Lasting
  <1>5. CASE op \in {"dequeue", "sleep"}
    <2>1. PICK sleeps \in BOOLEAN : dequeue_entity(c, q, sleeps)
      BY <1>5 DEF Rest
    <2> QED BY <1>5, <2>1, DequeueExchange
  <1>6. ASSUME put_prev_entity(c, q) PROVE Exchange
    <2> DEFINE r == [q EXCEPT !.curr = "none", !.exec_start = 0, !.resched = FALSE]
    <2>1. LeaveOrThrottle(c, r)
      BY <1>6 DEF put_prev_entity
    <2>2. r \in CfsRqType /\ r.runtime_enabled = q.runtime_enabled /\ r.on_list = q.on_list
      BY <1>1 DEF CfsRqType
    <2> HIDE DEF r
    <2> QED BY <2>1, <2>2, ThrottleExchange DEF Lasting
  <1>7. CASE op = "put"
    BY <1>6, <1>7 DEF Rest
  <1>8. CASE op = "pick"
    <2>1. pick_next_task_fair(c, q)
      BY <1>8 DEF Rest
    <2>2. CASE /\ Leave(c, [q EXCEPT !.curr = "queued", !.exec_start = now, !.resched = FALSE], Unlocked)
               /\ UNCHANGED unchangedPool
      <3> DEFINE r == [q EXCEPT !.curr = "queued", !.exec_start = now, !.resched = FALSE]
      <3>1. r.runtime_enabled = q.runtime_enabled /\ r.on_list = q.on_list /\ Leave(c, r, Unlocked)
        BY <1>1, <2>2 DEF CfsRqType
      <3> HIDE DEF r
      <3>2. Lasting(c, r)
        BY <3>1 DEF Lasting
      <3> QED BY <2>2, <3>1, <3>2, LeaveExchange DEF unchangedPool, timerVars
    <2>3. CASE LeaveOrThrottle(c, [q EXCEPT !.balancing = TRUE])
      <3> DEFINE r == [q EXCEPT !.balancing = TRUE]
      <3>1. r \in CfsRqType /\ r.runtime_enabled = q.runtime_enabled /\ r.on_list = q.on_list
        BY <1>1 DEF CfsRqType
      <3>2. LeaveOrThrottle(c, r)
        BY <2>3
      <3> HIDE DEF r
      <3> QED BY <3>1, <3>2, ThrottleExchange DEF Lasting
    <2> QED BY <1>6, <2>1, <2>2, <2>3 DEF pick_next_task_fair
  <1> QED BY <1>1, <1>2, <1>3, <1>4, <1>5, <1>7, <1>8

\* __account_cfs_rq_runtime on the way into operation op.
LEMMA AccountExchange ==
  ASSUME IInv, NEW c \in Cpus, NEW op \in Ops \ {"none", "schedule"}, NEW q0 \in CfsRqType, NEW delta \in Nat,
         op = "enqueue" => c \in online, Lasting(c, q0), AccountThen(c, op, q0, delta)
  PROVE  Exchange
  <1> DEFINE q == account_cfs_rq_runtime(q0, delta)
  <1>1. q \in CfsRqType /\ Kept(q0, q)
    BY AccountFacts
  <1>2. IF NeedsRuntime(q) THEN Leave(c, q, Frame(op, TRUE)) /\ UNCHANGED unchangedPool ELSE Rest(c, op, q)
    BY DEF AccountThen
  <1> HIDE DEF q
  <1>3. Lasting(c, q)
    BY <1>1 DEF Kept, Lasting
  <1> QED BY <1>1, <1>2, <1>3, LeaveExchange, RestExchange DEF unchangedPool, timerVars

\* update_curr and the operation it starts.
LEMMA UpdateExchange ==
  ASSUME IInv, NEW c \in Cpus, NEW op \in Ops \ {"none", "schedule"},
         op = "enqueue" => c \in online, update_curr(c, op) \/ Rest(c, op, cfs_rq[c])
  PROVE  Exchange
  <1> DEFINE q  == cfs_rq[c]
             q0 == [q EXCEPT !.exec_start = now]
             delta == now - q.exec_start
  <1>1. now \in Nat /\ q.exec_start \in Nat /\ q \in CfsRqType
    BY CpuFacts
  <1>2. CASE q.curr # "none" /\ now > q.exec_start /\ update_curr(c, op)
    <2>1. AccountThen(c, op, q0, delta)
      BY <1>2 DEF update_curr
    <2>2. delta \in Nat
      BY <1>1, <1>2
    <2>3. q0 \in CfsRqType /\ Lasting(c, q0)
      BY <1>1 DEF CfsRqType, Lasting
    <2> HIDE DEF q0, delta
    <2> QED BY <2>1, <2>2, <2>3, AccountExchange
  <1>3. CASE Rest(c, op, q)
    BY <1>1, <1>3, RestExchange DEF Lasting
  <1> QED BY <1>2, <1>3 DEF update_curr

\* A CPU takes runtime from the pool.
LEMMA AssignExchange ==
  ASSUME IInv, NEW c \in Cpus, assign_cfs_rq_runtime(c)
  PROVE  Exchange
  <1> DEFINE q0  == cfs_rq[c]
             min == Slice - q0.runtime_remaining
             amount  == IF cfs_b.quota = RUNTIME_INF THEN min ELSE assigned(min)
             expires == cfs_b.runtime_expires
             q == [q0 EXCEPT !.runtime_remaining = @ + amount,
                             !.runtime_expires = IF expires > @ THEN expires ELSE @]
             r == [q EXCEPT !.resched = q.resched \/ MustResched(q)]
  <1>1. q0 \in CfsRqType /\ RuntimeInv(q0, rq[c])
    BY CpuFacts
  <1>2. cfs_b \in CfsBType /\ cfs_b.runtime \in Nat /\ handed \in HandedType /\ period_timer.expires \in Nat
    BY DEF IInv, TypeOK, CfsBType, TimerType
  <1>3. /\ IF cfs_b.quota = RUNTIME_INF
             THEN UNCHANGED <<cfs_b, period_timer, handed>>
             ELSE /\ start_cfs_bandwidth([cfs_b EXCEPT !.runtime = cfs_b.runtime - amount,
                                          !.idle = cfs_b.idle /\ cfs_b.runtime = 0])
                  /\ handed' = handing(amount)
        /\ cfs_rq' = [cfs_rq EXCEPT ![c] = r]
        /\ UNCHANGED <<throttled_list, stale, slack_timer, walk, envVars>>
    BY Zenon DEF assign_cfs_rq_runtime
  <1>4. amount \in Nat /\ (cfs_b.quota # RUNTIME_INF => cfs_b.runtime - amount \in Nat)
    <2>1. q0.runtime_remaining \in Int /\ q0.runtime_remaining <= 0
      BY <1>1 DEF assign_cfs_rq_runtime, RuntimeInv, CfsRqType
    <2>2. min \in Nat
      BY <2>1, TimeAssumption
    <2> HIDE DEF min
    <2> QED BY <1>2, <2>2 DEF assigned, Least
  <1> HIDE DEF amount, expires
  <1>5. Lasting(c, r)
    BY <1>1 DEF CfsRqType, Lasting
  <1> HIDE DEF r
  <1>6. \A d \in Cpus : Lasting(d, cfs_rq'[d])
    BY <1>3, <1>5, LastingStep
  <1>7. CASE cfs_b.quota = RUNTIME_INF
    <2>1. UNCHANGED <<cfs_b, period_timer, handed>> /\ HistoryKept
      BY <1>3, <1>7, HistoryFacts
    <2> QED BY <1>2, <1>3, <1>6, <1>7, <2>1 DEF Exchange, envVars
  <1>8. CASE cfs_b.quota # RUNTIME_INF
    <2> DEFINE n == cfs_b.runtime - amount
               i == cfs_b.idle /\ cfs_b.runtime = 0
               b == [cfs_b EXCEPT !.runtime = n, !.idle = i]
    <2>1. start_cfs_bandwidth(b) /\ handed' = handing(amount)
      BY <1>3, <1>8
    <2>2. n \in Nat /\ i \in BOOLEAN /\ n = cfs_b.runtime - amount
      BY <1>4, <1>8
    <2> HIDE DEF n, i
    <2>3. /\ b \in CfsBType /\ b.quota = cfs_b.quota /\ b.runtime = n
          /\ b.runtime_expires = cfs_b.runtime_expires
      BY <1>2, <2>2 DEF CfsBType
    <2> HIDE DEF b
    <2>4. /\ cfs_b'.quota = b.quota /\ cfs_b'.runtime_expires = b.runtime_expires /\ cfs_b'.runtime = b.runtime
          /\ period_timer.expires <= period_timer'.expires
      BY <2>1, <2>3, StartExchange
    <2>5. handed'.out = handed.out + amount /\ handed.out \in Int
      BY <1>4, <2>1, HandedFacts
    <2>6. handed'.out + cfs_b'.runtime = handed.out + cfs_b.runtime
      BY <1>2, <1>4, <2>2, <2>3, <2>4, <2>5
    <2>7. HistoryKept
      BY <1>4, <2>1, HistoryFacts
    <2> QED BY <1>3, <1>6, <2>3, <2>4, <2>6, <2>7 DEF Exchange, envVars
  <1> QED BY <1>7, <1>8

\* Every step of the scheduler of a CPU.
LEMMA CpuExchange ==
  ASSUME IInv, NEW c \in Cpus, Cpu(c)
  PROVE  Exchange
  <1> DEFINE q == cfs_rq[c]
  <1>1. /\ q \in CfsRqType /\ rq[c] \in FrameType /\ now \in Nat
        /\ c \notin online => rq[c].op # "enqueue"
    BY CpuFacts
  <1>2. {"account", "enqueue", "dequeue", "sleep", "pick", "put"} \subseteq Ops \ {"none", "schedule"}
    BY DEF Ops
  <1>3. CASE \/ task_tick_fair(c) \/ enqueue_task_fair(c) \/ dequeue_task_fair(c) \/ deactivate_task(c)
             \/ \E op \in {"pick", "put"} : schedule(c, op)
    <2>1. PICK op \in {"account", "enqueue", "dequeue", "sleep", "pick", "put"} :
            /\ update_curr(c, op) \/ Rest(c, op, q)
            /\ op = "enqueue" => c \in online
      BY <1>3 DEF task_tick_fair, enqueue_task_fair, dequeue_task_fair, deactivate_task, schedule
    <2> QED BY <1>2, <2>1, UpdateExchange
  <1>4. CASE assign_cfs_rq_runtime(c)
    BY <1>4, AssignExchange
  <1>5. CASE Resume(c)
    <2>1. rq[c].op \in Ops \ {"none", "schedule"} /\ Rest(c, rq[c].op, q)
      BY <1>1, <1>5 DEF Resume, Free, FrameType
    <2> QED BY <1>1, <2>1, RestExchange DEF Lasting
  <1>6. CASE idle_balance(c) \/ idle_balance_return(c) \/ set_next_entity(c)
    <2>1. PICK r, f : /\ Leave(c, r, f) /\ UNCHANGED unchangedPool
                      /\ \/ r = [q EXCEPT !.balancing = TRUE] \/ r = [q EXCEPT !.balancing = FALSE]
                         \/ r = [q EXCEPT !.curr = "queued", !.exec_start = now]
      BY <1>6 DEF idle_balance, idle_balance_return, set_next_entity
    <2>2. Lasting(c, r)
      BY <1>1, <2>1 DEF Lasting, CfsRqType
    <2> QED BY <2>1, <2>2, LeaveExchange DEF unchangedPool, timerVars
  <1>7. CASE set_curr_task_fair(c)
    <2> DEFINE q0 == [q EXCEPT !.curr = "queued", !.exec_start = now]
    <2>1. AccountThen(c, "account", q0, 0)
      BY <1>7 DEF set_curr_task_fair
    <2>2. q0 \in CfsRqType /\ Lasting(c, q0) /\ 0 \in Nat
      BY <1>1 DEF CfsRqType, Lasting
    <2>3. "account" \in Ops \ {"none", "schedule"} /\ "account" # "enqueue"
      BY <1>2
    <2> HIDE DEF q0
    <2> QED BY <2>1, <2>2, <2>3, AccountExchange
  <1> QED BY <1>3, <1>4, <1>5, <1>6, <1>7 DEF Cpu

\* The numbers of the pool, the period timer and the walks.
LEMMA PoolNumbers ==
  ASSUME IInv
  PROVE  /\ cfs_b \in CfsBType /\ cfs_b.runtime \in Nat /\ cfs_b.runtime_expires \in Nat
         /\ cfs_b.quota # RUNTIME_INF => cfs_b.quota \in Nat
         /\ handed.out \in Int /\ now \in Nat /\ Period \in Nat \ {0}
         /\ period_timer \in TimerType /\ period_timer.expires \in Nat
         /\ "period" \in Timers /\ "slack" \in Timers /\ walk \in [Timers -> WalkType]
         /\ \A t \in Timers : /\ walk[t] \in WalkType /\ walk[t].start \in Nat /\ walk[t].left \in Nat
                              /\ walk[t].expires \in Nat /\ Given(t) \in Int
         /\ SlackGiven \in Int
  <1>1. cfs_b \in CfsBType /\ period_timer \in TimerType /\ walk \in [Timers -> WalkType]
    BY DEF IInv, TypeOK
  <1>2. \A t \in Timers : /\ walk[t] \in WalkType /\ walk[t].start \in Nat /\ walk[t].left \in Nat
                          /\ walk[t].expires \in Nat
    BY <1>1 DEF WalkType
  <1>3. \A t \in Timers : Given(t) \in Int
    BY <1>2 DEF Given
  <1>4. "period" \in Timers /\ "slack" \in Timers
    BY DEF Timers
  <1>5. cfs_b.runtime \in Nat /\ cfs_b.runtime_expires \in Nat /\ (cfs_b.quota # RUNTIME_INF => cfs_b.quota \in Nat)
        /\ period_timer.expires \in Nat
    BY <1>1 DEF CfsBType, TimerType
  <1> QED BY <1>1, <1>2, <1>3, <1>4, <1>5, HandedFacts, TimeAssumption DEF IInv, TypeOK, SlackGiven

\* No step of the scheduler changes the sum.
LEMMA ExchangeAccount ==
  ASSUME IInv, IInv', AccountInv, Exchange
  PROVE  AccountInv'
  <1>1. UNCHANGED <<walk, setter, online>> /\ cfs_b'.quota = cfs_b.quota /\ cfs_b'.runtime_expires = cfs_b.runtime_expires
    BY DEF Exchange
  <1>2. Given("period")' = Given("period") /\ SlackGiven' = SlackGiven
    BY <1>1 DEF Given, SlackGiven
  <1>3. \A c \in Cpus : c \in online \/ ~cfs_rq'[c].on_list =>
          (cfs_rq'[c].runtime_enabled <=> cfs_b'.quota # RUNTIME_INF)
    BY <1>1 DEF AccountInv, Exchange, Lasting
  <1>4. cfs_b'.quota # RUNTIME_INF =>
          /\ handed'.out + cfs_b'.runtime >= cfs_b'.quota + Given("period")' + SlackGiven'
          /\ cfs_b'.runtime_expires < period_timer'.expires + Period
    <2>1. SUFFICES ASSUME cfs_b.quota # RUNTIME_INF
                   PROVE  /\ handed'.out + cfs_b'.runtime >= cfs_b'.quota + Given("period")' + SlackGiven'
                          /\ cfs_b'.runtime_expires < period_timer'.expires + Period
      BY <1>1
    <2>2. /\ handed'.out + cfs_b'.runtime = handed.out + cfs_b.runtime
          /\ period_timer.expires <= period_timer'.expires
      BY <2>1 DEF Exchange
    <2>3. /\ handed.out + cfs_b.runtime >= cfs_b.quota + Given("period") + SlackGiven
          /\ cfs_b.runtime_expires < period_timer.expires + Period
      BY <2>1 DEF AccountInv
    <2>4. period_timer'.expires \in Int
      BY DEF IInv, TypeOK, TimerType
    <2>5. handed'.out + cfs_b'.runtime >= cfs_b'.quota + Given("period")' + SlackGiven'
      BY <1>1, <1>2, <2>2, <2>3
    <2>6. cfs_b'.runtime_expires < period_timer'.expires + Period
      BY <1>1, <2>2, <2>3, <2>4, PoolNumbers
    <2> QED BY <2>5, <2>6
  <1> QED BY <1>1, <1>3, <1>4 DEF AccountInv

\* A step that leaves the enforcement alone: what is left to show is about numbers.
LEMMA PoolAccount ==
  ASSUME AccountInv, UNCHANGED <<setter, online>>, cfs_b'.quota = cfs_b.quota,
         \A c \in Cpus : Lasting(c, cfs_rq'[c]) /\ cfs_rq'[c].on_list = cfs_rq[c].on_list,
         cfs_b.quota # RUNTIME_INF =>
           /\ handed'.out + cfs_b'.runtime >= cfs_b.quota + Given("period")' + SlackGiven'
           /\ cfs_b'.runtime_expires < period_timer'.expires + Period,
         walk'["slack"].expires <= cfs_b'.runtime_expires,
         \A t \in Timers : walk'[t].left <= walk'[t].start
  PROVE  AccountInv'
  BY DEF AccountInv, Lasting

\* The walk goes on to the next entry.
LEMMA AdvanceAccount ==
  ASSUME IInv, AccountInv, NEW t \in Timers, distribute_advance(t)
  PROVE  AccountInv'
  <1>1. UNCHANGED <<cfs_b, cfs_rq, period_timer, setter, online, handed>>
    BY DEF distribute_advance, envVars
  <1>2. PICK n, p : walk' = [walk EXCEPT ![t].cur = n, ![t].pc = p]
    BY Zenon DEF distribute_advance
  <1>3. \A u \in Timers : walk'[u].start = walk[u].start /\ walk'[u].left = walk[u].left /\ walk'[u].expires = walk[u].expires
    <2> SUFFICES ASSUME NEW u \in Timers
                 PROVE  walk'[u].start = walk[u].start /\ walk'[u].left = walk[u].left /\ walk'[u].expires = walk[u].expires
      OBVIOUS
    <2>1. walk \in [Timers -> WalkType] /\ walk[t] \in WalkType
      BY PoolNumbers
    <2>2. walk'[u] = IF u = t THEN [walk[t] EXCEPT !.cur = n, !.pc = p] ELSE walk[u]
      BY <1>2, <2>1
    <2>3. CASE u = t
      BY <2>1, <2>2, <2>3 DEF WalkType
    <2>4. CASE u # t
      BY <2>2, <2>4
    <2> QED BY <2>3, <2>4
  <1>4. Given("period")' = Given("period") /\ SlackGiven' = SlackGiven
    BY <1>1, <1>3, PoolNumbers DEF Given, SlackGiven
  <1>5. \A c \in Cpus : Lasting(c, cfs_rq'[c]) /\ cfs_rq'[c].on_list = cfs_rq[c].on_list
    BY <1>1 DEF Lasting
  <1> QED BY <1>1, <1>3, <1>4, <1>5, PoolAccount, PoolNumbers DEF AccountInv

\* A walk gives: handed grows by what the walk loses.
LEMMA DistributeAccount ==
  ASSUME IInv, AccountInv, NEW t \in Timers, distribute_cfs_runtime(t)
  PROVE  AccountInv'
  <1> DEFINE c  == walk[t].cur
             q0 == cfs_rq[c]
             runtime == IF q0.throttled THEN distributed(q0.runtime_remaining, walk[t].left) ELSE 0
             left == walk[t].left - runtime
             q  == [q0 EXCEPT !.runtime_remaining = @ + runtime, !.runtime_expires = walk[t].expires]
             p  == IF left = 0 THEN "done" ELSE "advance"
  <1>1. c \in Cpus /\ q0 \in CfsRqType /\ q0.runtime_remaining \in Int /\ cfs_rq \in [Cpus -> CfsRqType]
    <2>1. c \in Cpus
      BY DEF distribute_cfs_runtime, IInv, TimerInv
    <2>2. q0 \in CfsRqType
      BY <2>1, CpuFacts
    <2> QED BY <2>1, <2>2 DEF CfsRqType, IInv, TypeOK
  <1>2. /\ IF q0.throttled /\ q.runtime_remaining > 0
             THEN cfs_rq' = [cfs_rq EXCEPT ![c] = unthrottled(q)] /\ unlink(c)
             ELSE /\ cfs_rq' = IF q0.throttled THEN [cfs_rq EXCEPT ![c] = q] ELSE cfs_rq
                  /\ UNCHANGED <<throttled_list, stale>>
        /\ walk' = [walk EXCEPT ![t].left = left, ![t].pc = p]
        /\ handed' = handing(runtime)
        /\ UNCHANGED <<cfs_b, rq, period_timer, slack_timer, envVars>>
    BY Zenon DEF distribute_cfs_runtime
  <1>3. runtime \in Nat /\ left \in Nat /\ left = walk[t].left - runtime /\ walk[t].left \in Nat
    <2>1. CASE q0.throttled
      <3>1. runtime = distributed(q0.runtime_remaining, walk[t].left)
        BY <2>1
      <3> HIDE DEF runtime, q0
      <3> QED BY <1>1, <3>1, DistributedFacts, PoolNumbers
    <2>2. CASE ~q0.throttled
      BY <2>2, PoolNumbers
    <2> QED BY <2>1, <2>2
  <1> HIDE DEF runtime, left, p
  <1>4. q.runtime_enabled = q0.runtime_enabled /\ q.on_list = q0.on_list
    BY <1>1 DEF CfsRqType
  <1>5. \A d \in Cpus : Lasting(d, cfs_rq'[d]) /\ cfs_rq'[d].on_list = cfs_rq[d].on_list
    <2> HIDE DEF q
    <2>1. PICK r : cfs_rq' = [cfs_rq EXCEPT ![c] = r] /\ r \in {q, unthrottled(q), q0}
      <3>1. cfs_rq = [cfs_rq EXCEPT ![c] = q0]
        BY <1>1
      <3> QED BY <1>2, <3>1
    <2>2. q \in CfsRqType /\ unthrottled(q).runtime_enabled = q.runtime_enabled /\ unthrottled(q).on_list = q.on_list
      <3>1. q \in CfsRqType
        <4>1. PICK m \in Int, e \in Nat : m = q0.runtime_remaining + runtime /\ e = walk[t].expires
          <5>1. q0.runtime_remaining + runtime \in Int /\ walk[t].expires \in Nat
            BY <1>1, <1>3, PoolNumbers
          <5> QED BY <5>1, Zenon
        <4>2. q = [q0 EXCEPT !.runtime_remaining = m, !.runtime_expires = e]
          BY <4>1 DEF q
        <4> HIDE DEF q0
        <4> QED BY <1>1, <4>2 DEF CfsRqType
      <3> QED BY <3>1, UnthrottledFacts
    <2>3. r.runtime_enabled = q0.runtime_enabled /\ r.on_list = q0.on_list
      BY <1>4, <2>1, <2>2
    <2> QED BY <1>1, <2>1, <2>3 DEF Lasting
  <1>6. /\ \A u \in Timers \ {t} : walk'[u] = walk[u]
        /\ walk'[t].start = walk[t].start /\ walk'[t].left = left /\ walk'[t].expires = walk[t].expires
    <2>1. walk \in [Timers -> WalkType] /\ walk[t] \in WalkType
      BY PoolNumbers
    <2>2. \A u \in Timers : walk'[u] = IF u = t THEN [walk[t] EXCEPT !.left = left, !.pc = p] ELSE walk[u]
      BY <1>2, <2>1
    <2>3. walk'[t] = [walk[t] EXCEPT !.left = left, !.pc = p]
      BY <2>2
    <2>4. walk'[t].start = walk[t].start /\ walk'[t].left = left /\ walk'[t].expires = walk[t].expires
      BY <2>1, <2>3 DEF WalkType
    <2> QED BY <2>2, <2>4
  <1>7. /\ \A u \in Timers \ {t} : Given(u)' = Given(u)
        /\ Given(t)' = Given(t) + runtime
        /\ \A u \in Timers : walk'[u].expires = walk[u].expires /\ walk'[u].left <= walk'[u].start
    <2>1. Given(t)' = Given(t) + runtime
      BY <1>3, <1>6, PoolNumbers DEF Given
    <2>2. walk'[t].left <= walk'[t].start
      BY <1>3, <1>6, PoolNumbers DEF AccountInv
    <2> QED BY <1>6, <2>1, <2>2 DEF Given, AccountInv
  <1>8. UNCHANGED <<cfs_b, period_timer, setter, online>>
    BY <1>2 DEF envVars
  <1>9. (Given("period") + SlackGiven)' <= Given("period") + SlackGiven + runtime
    <2>1. CASE t = "period"
      <3>1. SlackGiven' = SlackGiven
        BY <1>7, <1>8, <2>1, PoolNumbers DEF SlackGiven
      <3> QED BY <1>3, <1>7, <2>1, <3>1, PoolNumbers
    <2>2. CASE t = "slack"
      <3>1. Given("period")' = Given("period")
        BY <1>7, <2>2, PoolNumbers
      <3>2. SlackGiven' \in {SlackGiven, SlackGiven + runtime}
        BY <1>3, <1>7, <1>8, <2>2, PoolNumbers DEF SlackGiven
      <3> QED BY <1>3, <3>1, <3>2, PoolNumbers
    <2> QED BY <2>1, <2>2 DEF Timers
  <1>10. /\ Given("period")' \in Int /\ SlackGiven' \in Int
    <2>1. Given("period")' \in Int
      BY <1>3, <1>7, PoolNumbers
    <2>2. Given("slack")' \in Int
      BY <1>3, <1>7, PoolNumbers
    <2> QED BY <2>1, <2>2 DEF SlackGiven
  <1>11. cfs_b.quota # RUNTIME_INF =>
           /\ handed'.out + cfs_b'.runtime >= cfs_b.quota + Given("period")' + SlackGiven'
           /\ cfs_b'.runtime_expires < period_timer'.expires + Period
    <2>1. cfs_b.quota # RUNTIME_INF => handed.out + cfs_b.runtime >= cfs_b.quota + Given("period") + SlackGiven
      BY DEF AccountInv
    <2>2. handed'.out = handed.out + runtime
      BY <1>2, <1>3, HandedFacts
    <2>3. cfs_b.quota # RUNTIME_INF => handed'.out + cfs_b'.runtime >= cfs_b.quota + Given("period")' + SlackGiven'
      BY <1>3, <1>8, <1>9, <1>10, <2>1, <2>2, PoolNumbers
    <2> QED BY <1>8, <2>3 DEF AccountInv
  <1>12. walk'["slack"].expires <= cfs_b'.runtime_expires
    BY <1>7, <1>8, PoolNumbers DEF AccountInv
  <1> QED BY <1>5, <1>7, <1>8, <1>11, <1>12, PoolAccount

\* What a finished distribution gave is taken out of the pool, as far as the pool goes.
LEMMA DeductedFacts ==
  ASSUME NEW r \in Nat, NEW g \in Nat, NEW h \in Int, NEW k \in Int, h + r >= k + g
  PROVE  h + (r - Least(g, r)) >= k
  BY DEF Least

\* The loop of the period timer's callback, for a pool that what was given is taken out of.
LEMMA PeriodLoopAccount ==
  ASSUME IInv, AccountInv, NEW b \in CfsBType, PeriodLoop(b),
         b.quota = cfs_b.quota, b.runtime_expires = cfs_b.runtime_expires,
         cfs_b.quota # RUNTIME_INF => handed.out + b.runtime >= cfs_b.quota + SlackGiven,
         UNCHANGED <<throttled_list, stale, cfs_rq, rq, slack_timer, envVars>>
  PROVE  AccountInv'
  <1> DEFINE expires == hrtimer_forward_now(period_timer.expires)
             refresh == refilled(b)
  <1>1. /\ period_timer.expires <= now + Period /\ UNCHANGED <<setter, online, now>>
        /\ \A c \in Cpus : Lasting(c, cfs_rq'[c]) /\ cfs_rq'[c].on_list = cfs_rq[c].on_list
    BY DEF IInv, TimerInv, envVars, Lasting
  <1>2. expires \in Nat /\ period_timer.expires <= expires /\ now < expires
    BY <1>1, PoolNumbers, ForwardFacts
  <1>3. NoWalk.start = 0 /\ NoWalk.left = 0 /\ NoWalk.left <= NoWalk.start
    BY DEF NoWalk
  <1>4. ASSUME NEW w, walk' = [walk EXCEPT !["period"] = w], w.start \in Nat, w.left = w.start
        PROVE  /\ walk'["slack"] = walk["slack"] /\ Given("period")' = 0 /\ Given("slack")' = Given("slack")
               /\ \A t \in Timers : walk'[t].left <= walk'[t].start
    <2>1. walk'["period"] = w /\ walk'["slack"] = walk["slack"]
      BY <1>4, PoolNumbers DEF Timers
    <2>2. \A t \in Timers : walk'[t].left <= walk'[t].start
      BY <1>4, <2>1 DEF AccountInv, Timers
    <2> QED BY <1>4, <2>1, <2>2 DEF Given
  <1>5. ASSUME NEW w, walk' = [walk EXCEPT !["period"] = w], w.start \in Nat, w.left = w.start,
               cfs_b'.quota = b.quota, cfs_b'.runtime_expires = b.runtime_expires, cfs_b'.runtime = b.runtime,
               handed' = handed, period_timer'.expires \in Nat, period_timer.expires <= period_timer'.expires
        PROVE  AccountInv'
    <2>1. /\ walk'["slack"] = walk["slack"] /\ Given("period")' = 0 /\ Given("slack")' = Given("slack")
          /\ \A t \in Timers : walk'[t].left <= walk'[t].start
      BY <1>4, <1>5
    <2>2. SlackGiven' = SlackGiven
      BY <1>5, <2>1 DEF SlackGiven
    <2>3. cfs_b.quota # RUNTIME_INF => handed'.out + cfs_b'.runtime >= cfs_b.quota + Given("period")' + SlackGiven'
      BY <1>5, <2>1, <2>2, PoolNumbers
    <2>4. cfs_b.quota # RUNTIME_INF => cfs_b'.runtime_expires < period_timer'.expires + Period
      BY <1>5, PoolNumbers DEF AccountInv
    <2>5. walk'["slack"].expires <= cfs_b'.runtime_expires
      BY <1>5, <2>1 DEF AccountInv
    <2> QED BY <1>1, <1>5, <2>1, <2>3, <2>4, <2>5, PoolAccount
  <1>6. CASE now < period_timer.expires
    <2>1. /\ cfs_b' = b /\ period_timer' = [period_timer EXCEPT !.armed = TRUE]
          /\ walk' = [walk EXCEPT !["period"] = NoWalk] /\ handed' = handed
      BY <1>6 DEF PeriodLoop
    <2>2. period_timer'.expires = period_timer.expires /\ period_timer.expires <= period_timer.expires
      BY <2>1, PoolNumbers DEF TimerType
    <2>3. PICK w : w = NoWalk
      OBVIOUS
    <2>4. walk' = [walk EXCEPT !["period"] = w] /\ w.start \in Nat /\ w.left = w.start
      BY <1>3, <2>1, <2>3
    <2> QED BY <1>5, <2>1, <2>2, <2>4, PoolNumbers
  <1>7. CASE ~(now < period_timer.expires) /\ Deactivates(b)
    <2>1. /\ cfs_b' = deactivated(b) /\ period_timer' = [armed |-> FALSE, expires |-> expires]
          /\ walk' = [walk EXCEPT !["period"] = NoWalk] /\ handed' = handed
      BY <1>7 DEF PeriodLoop
    <2>2. cfs_b'.quota = b.quota /\ cfs_b'.runtime_expires = b.runtime_expires /\ cfs_b'.runtime = b.runtime
      BY <2>1 DEF deactivated, CfsBType
    <2> HIDE DEF expires
    <2>3. period_timer'.expires = expires
      BY <2>1
    <2>4. PICK w : w = NoWalk
      OBVIOUS
    <2>5. walk' = [walk EXCEPT !["period"] = w] /\ w.start \in Nat /\ w.left = w.start
      BY <1>3, <2>1, <2>4
    <2> QED BY <1>2, <1>5, <2>1, <2>2, <2>3, <2>5
  <1>8. CASE ~(now < period_timer.expires) /\ ~Deactivates(b)
    <2>1. cfs_b.quota # RUNTIME_INF /\ cfs_b.quota \in Nat
      BY <1>8, PoolNumbers DEF Deactivates
    <2>2. refresh = [b EXCEPT !.runtime = b.quota, !.runtime_expires = now + Period]
      BY <2>1 DEF refilled
    <2>3. PICK e \in Nat : e = now + Period
      BY PoolNumbers
    <2>4. /\ refresh.quota = b.quota /\ refresh.runtime = b.quota /\ refresh.runtime_expires = e
      BY <2>2, <2>3 DEF CfsBType
    <2> HIDE DEF expires, refresh
    <2>5. PICK w : /\ walk' = [walk EXCEPT !["period"] = w] /\ w.start \in Nat /\ w.left = w.start
                   /\ cfs_b' \in {refresh, [refresh EXCEPT !.idle = TRUE]}
                   /\ period_timer'.expires = expires /\ handed' = refilling
      <3>1. CASE throttled_list = <<>>
        <4>1. /\ cfs_b' = [refresh EXCEPT !.idle = TRUE]
              /\ period_timer' = [armed |-> TRUE, expires |-> expires]
              /\ walk' = [walk EXCEPT !["period"] = NoWalk] /\ handed' = refilling
          BY <1>8, <3>1 DEF PeriodLoop, expires, refresh
        <4>2. NoWalk.start \in Nat /\ NoWalk.left = NoWalk.start /\ period_timer'.expires = expires
          BY <1>3, <4>1
        <4> QED BY <4>1, <4>2, Zenon
      <3>2. CASE throttled_list # <<>>
        <4> DEFINE w == StartWalk(refresh.runtime, refresh.runtime_expires)
        <4>1. /\ cfs_b' = refresh
              /\ period_timer' = [armed |-> FALSE, expires |-> expires]
              /\ walk' = [walk EXCEPT !["period"] = w] /\ handed' = refilling
          BY <1>8, <3>2 DEF PeriodLoop, expires, refresh
        <4>2. w.start = refresh.runtime /\ w.left = refresh.runtime
          BY DEF StartWalk, NoWalk
        <4>3. refresh.runtime \in Nat
          BY <2>1, <2>4
        <4> HIDE DEF w
        <4> QED BY <4>1, <4>2, <4>3
      <3> QED BY <3>1, <3>2
    <2>6. cfs_b'.quota = cfs_b.quota /\ cfs_b'.runtime = cfs_b.quota /\ cfs_b'.runtime_expires = e
      <3>1. refresh \in CfsBType
        BY PoolFacts, PoolNumbers DEF refresh
      <3>2. CASE cfs_b' = refresh
        BY <2>4, <3>2
      <3>3. CASE cfs_b' = [refresh EXCEPT !.idle = TRUE]
        BY <2>4, <3>1, <3>3 DEF CfsBType
      <3> QED BY <2>5, <3>2, <3>3
    <2>7. /\ walk'["slack"] = walk["slack"] /\ Given("period")' = 0
          /\ \A t \in Timers : walk'[t].left <= walk'[t].start
      BY <1>4, <2>5
    <2>8. cfs_b.runtime_expires < e /\ walk["slack"].expires < e
      <3>1. cfs_b.runtime_expires < period_timer.expires + Period /\ walk["slack"].expires <= cfs_b.runtime_expires
        BY <2>1 DEF AccountInv
      <3>2. period_timer.expires <= now
        BY <1>8, PoolNumbers
      <3> QED BY <2>3, <3>1, <3>2, PoolNumbers
    <2>9. SlackGiven' = 0
      BY <2>6, <2>7, <2>8, PoolNumbers DEF SlackGiven
    <2>10. handed'.out + cfs_b'.runtime >= cfs_b.quota + Given("period")' + SlackGiven'
      BY <2>1, <2>5, <2>6, <2>7, <2>9, HandedFacts
    <2>11. cfs_b'.runtime_expires < period_timer'.expires + Period
      BY <1>2, <2>3, <2>5, <2>6, PoolNumbers
    <2>12. walk'["slack"].expires <= cfs_b'.runtime_expires
      BY <2>6, <2>7, <2>8, PoolNumbers
    <2> QED BY <1>1, <2>6, <2>7, <2>10, <2>11, <2>12, PoolAccount
  <1> QED BY <1>6, <1>7, <1>8

\* Both entries of the period timer's callback.
LEMMA PeriodAccount ==
  ASSUME IInv, AccountInv, sched_cfs_period_timer \/ do_sched_cfs_period_timer
  PROVE  AccountInv'
  <1> DEFINE g == Given("period")
  <1>1. g \in Nat
    BY PoolNumbers DEF Given, AccountInv
  <1>2. cfs_b.quota # RUNTIME_INF => handed.out + cfs_b.runtime >= (cfs_b.quota + SlackGiven) + g
    <2>1. cfs_b.quota # RUNTIME_INF => handed.out + cfs_b.runtime >= cfs_b.quota + g + SlackGiven
      BY DEF AccountInv
    <2> QED BY <1>1, <2>1, PoolNumbers
  <1> HIDE DEF g
  <1>3. UNCHANGED <<throttled_list, stale, cfs_rq, rq, slack_timer, envVars>>
    BY DEF sched_cfs_period_timer, do_sched_cfs_period_timer
  <1>4. CASE sched_cfs_period_timer
    <2>1. PeriodLoop(cfs_b)
      BY <1>4 DEF sched_cfs_period_timer
    <2>2. cfs_b.quota # RUNTIME_INF => handed.out + cfs_b.runtime >= cfs_b.quota + SlackGiven
      BY <1>1, <1>2, PoolNumbers
    <2> QED BY <1>3, <2>1, <2>2, PeriodLoopAccount, PoolNumbers
  <1>5. CASE do_sched_cfs_period_timer
    <2> DEFINE b == deducted(cfs_b, g)
               b1 == [b EXCEPT !.idle = FALSE]
    <2>1. b \in CfsBType /\ b.quota = cfs_b.quota
      BY <1>1, PoolFacts, PoolNumbers
    <2>2. b.runtime = cfs_b.runtime - Least(g, cfs_b.runtime) /\ b.runtime_expires = cfs_b.runtime_expires
      BY PoolNumbers DEF deducted, CfsBType
    <2>3. cfs_b.quota # RUNTIME_INF => handed.out + b.runtime >= cfs_b.quota + SlackGiven
      <3>1. SUFFICES ASSUME cfs_b.quota # RUNTIME_INF PROVE handed.out + b.runtime >= cfs_b.quota + SlackGiven
        OBVIOUS
      <3>2. cfs_b.quota + SlackGiven \in Int
        BY <3>1, PoolNumbers
      <3> HIDE DEF b
      <3> QED BY <1>1, <1>2, <2>2, <3>1, <3>2, DeductedFacts, PoolNumbers
    <2>4. CASE throttled_list # <<>> /\ b.runtime > 0
      <3> DEFINE w == StartWalk(b.runtime, walk["period"].expires)
      <3>1. /\ cfs_b' = b /\ walk' = [walk EXCEPT !["period"] = w]
            /\ UNCHANGED <<period_timer, handed>>
        BY <1>5, <2>4 DEF do_sched_cfs_period_timer, g
      <3>2. w.start = b.runtime /\ w.left = b.runtime /\ b.runtime \in Nat
        BY <2>1 DEF StartWalk, NoWalk, CfsBType
      <3> HIDE DEF w, b
      <3>3. walk'["period"] = w /\ walk'["slack"] = walk["slack"]
        BY <3>1, PoolNumbers DEF Timers
      <3>4. \A t \in Timers : walk'[t].left <= walk'[t].start
        BY <3>2, <3>3 DEF AccountInv, Timers
      <3>5. Given("period")' = 0 /\ SlackGiven' = SlackGiven
        BY <2>2, <3>1, <3>2, <3>3 DEF Given, SlackGiven
      <3>6. cfs_b.quota # RUNTIME_INF => handed'.out + cfs_b'.runtime >= cfs_b.quota + Given("period")' + SlackGiven'
        BY <2>3, <3>1, <3>5, PoolNumbers
      <3>7. \A c \in Cpus : Lasting(c, cfs_rq'[c]) /\ cfs_rq'[c].on_list = cfs_rq[c].on_list
        BY <1>3 DEF Lasting
      <3>8. /\ cfs_b.quota # RUNTIME_INF => cfs_b'.runtime_expires < period_timer'.expires + Period
            /\ walk'["slack"].expires <= cfs_b'.runtime_expires
        BY <2>2, <3>1, <3>3 DEF AccountInv
      <3> QED BY <1>3, <2>1, <3>1, <3>4, <3>6, <3>7, <3>8, PoolAccount DEF envVars
    <2>5. CASE ~(throttled_list # <<>> /\ b.runtime > 0)
      <3>1. PeriodLoop(b1)
        BY <1>5, <2>5 DEF do_sched_cfs_period_timer, g
      <3> HIDE DEF b
      <3>2. b1 \in CfsBType /\ b1.quota = b.quota /\ b1.runtime = b.runtime /\ b1.runtime_expires = b.runtime_expires
        BY <2>1 DEF CfsBType
      <3> HIDE DEF b1
      <3> QED BY <1>3, <2>1, <2>2, <2>3, <3>1, <3>2, PeriodLoopAccount
    <2> QED BY <2>4, <2>5
  <1> QED BY <1>4, <1>5

\* The slack timer's callback: its total leaves the pool only if no refill has come between.
LEMMA SlackAccount ==
  ASSUME IInv, AccountInv, sched_cfs_slack_timer \/ do_sched_cfs_slack_timer
  PROVE  AccountInv'
  <1>1. /\ UNCHANGED <<throttled_list, stale, cfs_rq, rq, period_timer, setter, online, hotplugs, now>>
        /\ handed'.out = handed.out
    <2>1. handed' = handed \/ handed' = [handed EXCEPT !.slack = @ + cfs_b.runtime]
      BY DEF sched_cfs_slack_timer, do_sched_cfs_slack_timer
    <2>2. PICK k : handed' = [handed EXCEPT !.slack = k]
      <3>1. handed \in HandedType /\ handed = [handed EXCEPT !.slack = handed.slack]
        BY HandedFacts DEF HandedType
      <3> QED BY <2>1, <3>1
    <2>3. handed'.out = handed.out
      BY <2>2, HandedFacts DEF HandedType
    <2> QED BY <2>3 DEF sched_cfs_slack_timer, do_sched_cfs_slack_timer, envVars
  <1>2. \A c \in Cpus : Lasting(c, cfs_rq'[c]) /\ cfs_rq'[c].on_list = cfs_rq[c].on_list
    BY <1>1 DEF Lasting
  <1> DEFINE g == Given("slack")
  <1>3. g \in Nat /\ (SlackGiven = g \/ SlackGiven = 0)
    BY PoolNumbers DEF Given, AccountInv, SlackGiven
  <1>4. cfs_b.quota # RUNTIME_INF => handed.out + cfs_b.runtime >= cfs_b.quota + Given("period") + SlackGiven
    BY DEF AccountInv
  <1>5. ASSUME NEW w, walk' = [walk EXCEPT !["slack"] = w], w.start \in Nat, w.left = w.start,
               w.expires <= cfs_b.runtime_expires, cfs_b'.quota = cfs_b.quota,
               cfs_b'.runtime_expires = cfs_b.runtime_expires,
               cfs_b.quota # RUNTIME_INF => handed.out + cfs_b'.runtime >= cfs_b.quota + Given("period")
        PROVE  AccountInv'
    <2>1. walk'["slack"] = w /\ walk'["period"] = walk["period"]
      BY <1>5, PoolNumbers DEF Timers
    <2>2. Given("slack")' = 0 /\ Given("period")' = Given("period")
      BY <1>5, <2>1 DEF Given
    <2>3. SlackGiven' = 0
      BY <2>2 DEF SlackGiven
    <2>4. \A t \in Timers : walk'[t].left <= walk'[t].start
      BY <1>5, <2>1 DEF AccountInv, Timers
    <2>5. cfs_b.quota # RUNTIME_INF => handed'.out + cfs_b'.runtime >= cfs_b.quota + Given("period")' + SlackGiven'
      BY <1>1, <1>5, <2>2, <2>3, PoolNumbers
    <2>6. cfs_b.quota # RUNTIME_INF => cfs_b'.runtime_expires < period_timer'.expires + Period
      BY <1>1, <1>5 DEF AccountInv
    <2> QED BY <1>1, <1>2, <1>5, <2>1, <2>4, <2>5, <2>6, PoolAccount
  <1>6. CASE sched_cfs_slack_timer /\ walk' = walk
    BY <1>1, <1>6 DEF sched_cfs_slack_timer, AccountInv, Given, SlackGiven
  <1>7. CASE sched_cfs_slack_timer /\ walk' # walk
    <2> DEFINE w == StartWalk(cfs_b.runtime, cfs_b.runtime_expires)
    <2>1. walk' = [walk EXCEPT !["slack"] = w] /\ cfs_b' = cfs_b
      BY <1>7 DEF sched_cfs_slack_timer
    <2>2. w.start = cfs_b.runtime /\ w.left = cfs_b.runtime /\ w.expires = cfs_b.runtime_expires
      BY DEF StartWalk, NoWalk
    <2> HIDE DEF w
    <2>3. cfs_b.quota # RUNTIME_INF => handed.out + cfs_b'.runtime >= cfs_b.quota + Given("period")
      BY <1>3, <1>4, <2>1, PoolNumbers
    <2>4. w.start \in Nat /\ w.left = w.start /\ w.expires <= cfs_b.runtime_expires
      BY <2>2, PoolNumbers
    <2> QED BY <1>5, <2>1, <2>3, <2>4
  <1>8. CASE do_sched_cfs_slack_timer
    <2>1. /\ cfs_b' = IF walk["slack"].expires = cfs_b.runtime_expires THEN deducted(cfs_b, g) ELSE cfs_b
          /\ walk' = [walk EXCEPT !["slack"] = NoWalk]
      BY <1>8 DEF do_sched_cfs_slack_timer, SamePeriod
    <2>2. /\ deducted(cfs_b, g).runtime = cfs_b.runtime - Least(g, cfs_b.runtime)
          /\ deducted(cfs_b, g).quota = cfs_b.quota /\ deducted(cfs_b, g).runtime_expires = cfs_b.runtime_expires
      BY PoolNumbers DEF deducted, CfsBType
    <2>3. NoWalk.start = 0 /\ NoWalk.left = 0 /\ NoWalk.expires = 0
      BY DEF NoWalk
    <2> HIDE DEF g
    <2>4. cfs_b'.quota = cfs_b.quota /\ cfs_b'.runtime_expires = cfs_b.runtime_expires
      BY <2>1, <2>2
    <2>5. cfs_b.quota # RUNTIME_INF => handed.out + cfs_b'.runtime >= cfs_b.quota + Given("period")
      <3> SUFFICES ASSUME cfs_b.quota # RUNTIME_INF PROVE handed.out + cfs_b'.runtime >= cfs_b.quota + Given("period")
        OBVIOUS
      <3>1. PICK k \in Int : k = cfs_b.quota + Given("period")
        BY PoolNumbers
      <3>2. CASE walk["slack"].expires = cfs_b.runtime_expires
        <4>1. SlackGiven = g
          BY <3>2 DEF SlackGiven, g
        <4>2. handed.out + cfs_b.runtime >= k + g
          BY <1>4, <3>1, <4>1
        <4>3. handed.out + (cfs_b.runtime - Least(g, cfs_b.runtime)) >= k
          BY <1>3, <4>2, DeductedFacts, PoolNumbers
        <4> QED BY <2>1, <2>2, <3>1, <3>2, <4>3
      <3>3. CASE walk["slack"].expires # cfs_b.runtime_expires
        BY <1>3, <1>4, <2>1, <3>3, PoolNumbers
      <3> QED BY <3>2, <3>3
    <2>6. NoWalk.expires <= cfs_b.runtime_expires
      BY <2>3, PoolNumbers
    <2>7. PICK w : w = NoWalk
      OBVIOUS
    <2>8. /\ walk' = [walk EXCEPT !["slack"] = w] /\ w.start \in Nat /\ w.left = w.start
          /\ w.expires <= cfs_b.runtime_expires
      BY <2>1, <2>3, <2>6, <2>7
    <2> QED BY <1>5, <2>4, <2>5, <2>8
  <1> QED BY <1>6, <1>7, <1>8

\* A CPU goes offline: its enforcement ends if it has had tasks, and it is no longer owed any.
\* A CPU comes back: its enforcement begins again if it has had tasks, and has not ended if not.
LEMMA HotplugAccount ==
  ASSUME IInv, AccountInv, NEW c \in Cpus, rq_offline_fair(c) \/ rq_online_fair(c)
  PROVE  AccountInv'
  <1> DEFINE q0 == cfs_rq[c]
  <1>1. q0 \in CfsRqType /\ cfs_rq \in [Cpus -> CfsRqType]
    BY CpuFacts DEF IInv, TypeOK
  <1>2. UNCHANGED <<cfs_b, period_timer, walk, setter, handed>>
    BY DEF rq_offline_fair, rq_online_fair, timerVars
  <1>3. Given("period")' = Given("period") /\ SlackGiven' = SlackGiven
    BY <1>2 DEF Given, SlackGiven
  <1>4. ASSUME NEW q, cfs_rq' = [cfs_rq EXCEPT ![c] = q], \A d \in Cpus \ {c} : d \in online' => d \in online,
               c \in online' \/ ~q.on_list => (q.runtime_enabled <=> cfs_b.quota # RUNTIME_INF)
        PROVE  AccountInv'
    <2>1. cfs_rq'[c] = q /\ \A d \in Cpus \ {c} : cfs_rq'[d] = cfs_rq[d]
      BY <1>1, <1>4
    <2>2. \A d \in Cpus : d \in online' \/ ~cfs_rq'[d].on_list =>
            (cfs_rq'[d].runtime_enabled <=> cfs_b'.quota # RUNTIME_INF)
      BY <1>2, <1>4, <2>1 DEF AccountInv
    <2> QED BY <1>2, <1>3, <2>2 DEF AccountInv
  <1>5. CASE rq_offline_fair(c)
    <2>1. c \in online /\ online' = online \ {c} /\ (q0.runtime_enabled <=> cfs_b.quota # RUNTIME_INF)
      BY <1>5 DEF rq_offline_fair, AccountInv
    <2>2. CASE ~(q0.on_list /\ q0.runtime_enabled)
      <3>1. cfs_rq' = [cfs_rq EXCEPT ![c] = q0]
        BY <1>1, <1>5, <2>2 DEF rq_offline_fair
      <3> QED BY <1>4, <2>1, <3>1
    <2>3. CASE q0.on_list /\ q0.runtime_enabled
      <3> DEFINE q == [q0 EXCEPT !.runtime_remaining = 1, !.runtime_enabled = FALSE]
      <3>1. IF q.throttled THEN cfs_rq' = [cfs_rq EXCEPT ![c] = unthrottled(q)] /\ unlink(c)
            ELSE cfs_rq' = [cfs_rq EXCEPT ![c] = q] /\ UNCHANGED <<throttled_list, stale>>
        BY <1>5, <2>3, Zenon DEF rq_offline_fair
      <3>2. q.on_list /\ unthrottled(q).on_list
        BY <1>1, <2>3 DEF unthrottled, CfsRqType
      <3> HIDE DEF q
      <3>3. PICK r \in {q, unthrottled(q)} : cfs_rq' = [cfs_rq EXCEPT ![c] = r] /\ r.on_list
        BY <3>1, <3>2
      <3>4. c \notin online' /\ \A d \in Cpus \ {c} : d \in online' => d \in online
        BY <2>1
      <3> QED BY <1>4, <3>3, <3>4
    <2> QED BY <2>2, <2>3
  <1>6. CASE rq_online_fair(c)
    <2> DEFINE q == update_runtime_enabled(q0)
    <2>1. cfs_rq' = [cfs_rq EXCEPT ![c] = q] /\ online' = online \cup {c}
      BY <1>6 DEF rq_online_fair
    <2>2. q.runtime_enabled <=> cfs_b.quota # RUNTIME_INF
      BY <1>1 DEF update_runtime_enabled, AccountInv, CfsRqType
    <2> HIDE DEF q
    <2>3. \A d \in Cpus \ {c} : d \in online' => d \in online
      BY <2>1
    <2> QED BY <1>4, <2>1, <2>2, <2>3
  <1> QED BY <1>5, <1>6

\* A step that no part of the bookkeeping sees.
LEMMA UnseenAccount ==
  ASSUME AccountInv, UNCHANGED <<cfs_b, cfs_rq, period_timer, walk, setter, online, handed>>
  PROVE  AccountInv'
  BY DEF AccountInv, Given, SlackGiven

\* The pool starts full and nothing has been given out.
LEMMA InitAccount ==
  ASSUME Init, MaxSets = 0
  PROVE  AccountInv
  <1> DEFINE finite == InitQuota # RUNTIME_INF
             p == IF finite THEN Period ELSE 0
  <1>1. /\ setter.left = 0 /\ setter.todo = {} /\ handed.out = 0
        /\ \A c \in Cpus : cfs_rq[c].runtime_enabled = finite
        /\ cfs_b.quota = InitQuota /\ cfs_b.runtime_expires = p /\ period_timer.expires = p
        /\ finite => cfs_b.runtime = InitQuota
        /\ \A t \in Timers : walk[t] = NoWalk
    BY DEF Init
  <1>2. NoWalk.start = 0 /\ NoWalk.left = 0 /\ NoWalk.expires = 0
    BY DEF NoWalk
  <1>3. "period" \in Timers /\ "slack" \in Timers
    BY DEF Timers
  <1>4. Given("period") = 0 /\ SlackGiven = 0
    BY <1>1, <1>2, <1>3 DEF Given, SlackGiven
  <1>5. finite => cfs_b.quota \in Nat /\ p < p + Period
    BY <1>1, QuotaAssumption, TimeAssumption
  <1>6. walk["slack"].expires <= cfs_b.runtime_expires
    BY <1>1, <1>2, <1>3, TimeAssumption
  <1>7. \A t \in Timers : walk[t].left <= walk[t].start
    BY <1>1, <1>2
  <1>8. \A c \in Cpus : cfs_rq[c].runtime_enabled <=> cfs_b.quota # RUNTIME_INF
    BY <1>1
  <1>9. cfs_b.quota # RUNTIME_INF =>
          /\ handed.out + cfs_b.runtime >= cfs_b.quota + Given("period") + SlackGiven
          /\ cfs_b.runtime_expires < period_timer.expires + Period
    <2> SUFFICES ASSUME finite
                 PROVE  /\ handed.out + cfs_b.runtime >= cfs_b.quota + Given("period") + SlackGiven
                        /\ cfs_b.runtime_expires < period_timer.expires + Period
      BY <1>1
    <2> HIDE DEF p
    <2> QED BY <1>1, <1>4, <1>5
  <1> QED BY <1>1, <1>6, <1>7, <1>8, <1>9 DEF AccountInv

\* Every step keeps the bookkeeping: with no tg_set_cfs_bandwidth to come, both of its steps
\* are ruled out.
LEMMA NextAccount ==
  ASSUME IInv, IInv', AccountInv, [Next]_vars
  PROVE  AccountInv'
  <1>1. "period" \in Timers /\ "slack" \in Timers
    BY DEF Timers
  <1>2. CASE UNCHANGED vars
    BY <1>2, UnseenAccount DEF vars, timerVars, envVars
  <1>3. ASSUME NEW c \in Cpus, Cpu(c) PROVE AccountInv'
    BY <1>3, CpuExchange, ExchangeAccount
  <1>4. CASE sched_cfs_period_timer
    BY <1>4, PeriodAccount
  <1>5. CASE PeriodCallback
    BY <1>1, <1>5, AdvanceAccount, DistributeAccount, PeriodAccount DEF PeriodCallback
  <1>6. CASE sched_cfs_slack_timer
    BY <1>6, SlackAccount
  <1>7. CASE SlackCallback
    BY <1>1, <1>7, AdvanceAccount, DistributeAccount, SlackAccount DEF SlackCallback
  <1>8. ASSUME NEW quota \in Quotas, tg_set_cfs_bandwidth(quota) PROVE FALSE
    BY <1>8 DEF tg_set_cfs_bandwidth, AccountInv
  <1>9. ASSUME NEW c \in Cpus, tg_set_cfs_bandwidth_rq(c) PROVE FALSE
    BY <1>9 DEF tg_set_cfs_bandwidth_rq, AccountInv
  <1>10. ASSUME NEW c \in Cpus, rq_offline_fair(c) \/ rq_online_fair(c) PROVE AccountInv'
    BY <1>10, HotplugAccount
  <1>11. CASE Tick
    BY <1>11, UnseenAccount DEF Tick, timerVars
  <1> QED BY <1>2, <1>3, <1>4, <1>5, <1>6, <1>7, <1>8, <1>9, <1>10, <1>11 DEF Next

\* With the quota of a group left as it is, each online CPU enforces it however often it has
\* been offline, and what has been given out since the last refill and what is in the pool
\* make up the quota, whatever CPUs, walks and refills come between.
THEOREM RuntimeAlwaysAccounted ==
  ASSUME MaxSets = 0
  PROVE  Spec => []RuntimeAccounted
  <1>1. Init => IInv /\ AccountInv
    BY InitIInv, InitAccount
  <1>2. IInv /\ AccountInv /\ [Next]_vars => IInv' /\ AccountInv'
    BY NextIInv, StutterIInv, NextAccount
  <1>3. IInv /\ AccountInv => RuntimeAccounted
    <2> SUFFICES ASSUME IInv, AccountInv PROVE RuntimeAccounted
      OBVIOUS
    <2>1. QuotaEnforced
      BY DEF AccountInv, QuotaEnforced, IInv, TypeOK
    <2>2. Given("period") \in Nat /\ SlackGiven \in Nat
      <3>1. Given("period") >= 0 /\ Given("slack") >= 0
        BY PoolNumbers DEF Given, AccountInv
      <3> QED BY <3>1, PoolNumbers DEF SlackGiven
    <2>3. NoRuntimeLost
      <3> SUFFICES ASSUME cfs_b.quota # RUNTIME_INF PROVE handed.out + cfs_b.runtime >= cfs_b.quota
        BY DEF NoRuntimeLost
      <3>1. handed.out + cfs_b.runtime >= cfs_b.quota + Given("period") + SlackGiven
        BY DEF AccountInv
      <3> QED BY <2>2, <3>1, PoolNumbers
    <2> QED BY <2>1, <2>3 DEF RuntimeAccounted
  <1> QED BY <1>1, <1>2, <1>3, PTL DEF Spec

-----------------------------------------------------------------------------
(***************************************************************************)
(* How far the quota can be over-used, as long as it stays as it is.       *)
(***************************************************************************)
\* What a slack distribution may still give.
SlackLeft == walk["slack"].left

\* While a walk of the period timer is on its way, what it has given is in handed and still
\* in the pool: the quota is exceeded by no more than that.  What a walk gives is at most what
\* the pool had at its start, and that is at most the quota and what came back and, as a slack
\* walk's total may exceed what it finds left to take out, what slack walks could give.  When
\* it ends with a pool that cannot cover what it gave, the pool is empty and no walk follows
\* before the next refill: hence the bound of the second conjunct.
OveruseInv ==
  cfs_b.quota # RUNTIME_INF =>
    /\ Covered
    /\ handed.out + cfs_b.runtime + SlackLeft <= 2 * cfs_b.quota + handed.back + 2 * handed.slack
    /\ walk["period"].pc # "idle" =>
         /\ handed.out + cfs_b.runtime + SlackLeft <= cfs_b.quota + Given("period") + handed.slack
         /\ walk["period"].start <= cfs_b.quota + handed.back + handed.slack

\* The numbers of the bound.
LEMMA OveruseNumbers ==
  ASSUME IInv
  PROVE  /\ handed.out \in Int /\ handed.back \in Nat /\ handed.slack \in Nat
         /\ cfs_b.runtime \in Nat /\ (cfs_b.quota # RUNTIME_INF => cfs_b.quota \in Nat)
         /\ SlackLeft \in Nat /\ Given("period") \in Int /\ Given("slack") \in Int
         /\ walk["period"].start \in Nat /\ walk["period"].left \in Nat
         /\ Given("period") = walk["period"].start - walk["period"].left
         /\ walk \in [Timers -> WalkType] /\ "period" \in Timers /\ "slack" \in Timers
  <1>1. 0 \in Int
    OBVIOUS
  <1> QED BY <1>1, PoolNumbers, HandedFacts DEF SlackLeft, Given

\* No step of the scheduler changes the sum, and what comes back is on record.
LEMMA ExchangeOveruse ==
  ASSUME IInv, IInv', OveruseInv, Exchange
  PROVE  OveruseInv'
  <1>1. UNCHANGED walk /\ cfs_b'.quota = cfs_b.quota /\ HistoryKept
    BY DEF Exchange
  <1>2. SlackLeft' = SlackLeft /\ Given("period")' = Given("period")
    BY <1>1 DEF SlackLeft, Given
  <1>3. SUFFICES ASSUME cfs_b.quota # RUNTIME_INF
                 PROVE  OveruseInv'
    BY <1>1 DEF OveruseInv
  <1>4. /\ handed'.out + cfs_b'.runtime = handed.out + cfs_b.runtime
        /\ handed'.slack = handed.slack /\ handed.back <= handed'.back
    BY <1>3 DEF Exchange, HistoryKept
  <1>5. handed'.out \in Int /\ handed'.back \in Nat /\ cfs_b'.runtime \in Nat
    BY DEF IInv, TypeOK, HandedType, CfsBType
  <1>6. Covered'
    BY <1>1, <1>3 DEF HistoryKept, OveruseInv
  <1>7. handed'.out + cfs_b'.runtime + SlackLeft' <= 2 * cfs_b'.quota + handed'.back + 2 * handed'.slack
    <2>1. handed.out + cfs_b.runtime + SlackLeft <= 2 * cfs_b.quota + handed.back + 2 * handed.slack
      BY <1>3 DEF OveruseInv
    <2> QED BY <1>1, <1>2, <1>3, <1>4, <1>5, <2>1, OveruseNumbers
  <1>8. ASSUME walk'["period"].pc # "idle"
        PROVE  /\ handed'.out + cfs_b'.runtime + SlackLeft' <= cfs_b'.quota + Given("period")' + handed'.slack
               /\ walk'["period"].start <= cfs_b'.quota + handed'.back + handed'.slack
    <2>1. /\ handed.out + cfs_b.runtime + SlackLeft <= cfs_b.quota + Given("period") + handed.slack
          /\ walk["period"].start <= cfs_b.quota + handed.back + handed.slack
      BY <1>1, <1>3, <1>8 DEF OveruseInv
    <2>2. handed'.out + cfs_b'.runtime + SlackLeft' <= cfs_b'.quota + Given("period")' + handed'.slack
      BY <1>1, <1>2, <1>4, <2>1
    <2>3. walk'["period"].start <= cfs_b'.quota + handed'.back + handed'.slack
      BY <1>1, <1>3, <1>4, <1>5, <2>1, OveruseNumbers
    <2> QED BY <2>2, <2>3
  <1> QED BY <1>6, <1>7, <1>8 DEF OveruseInv

\* A step that no part of the bound sees.
LEMMA UnseenOveruse ==
  ASSUME OveruseInv, UNCHANGED <<cfs_b, walk, handed>>
  PROVE  OveruseInv'
  BY DEF OveruseInv, Covered, SlackLeft, Given

\* The walk goes on to the next entry: it began before.
LEMMA AdvanceOveruse ==
  ASSUME IInv, OveruseInv, NEW t \in Timers, distribute_advance(t)
  PROVE  OveruseInv'
  <1>1. UNCHANGED <<cfs_b, handed>> /\ walk[t].pc # "idle"
    BY DEF distribute_advance
  <1>2. PICK n, p : walk' = [walk EXCEPT ![t].cur = n, ![t].pc = p]
    BY Zenon DEF distribute_advance
  <1>3. \A u \in Timers : /\ walk'[u].start = walk[u].start /\ walk'[u].left = walk[u].left
                          /\ walk'[u].pc # "idle" => walk[u].pc # "idle"
    <2> SUFFICES ASSUME NEW u \in Timers
                 PROVE  /\ walk'[u].start = walk[u].start /\ walk'[u].left = walk[u].left
                        /\ walk'[u].pc # "idle" => walk[u].pc # "idle"
      OBVIOUS
    <2>1. walk \in [Timers -> WalkType] /\ walk[t] \in WalkType
      BY PoolNumbers
    <2>2. walk'[u] = IF u = t THEN [walk[t] EXCEPT !.cur = n, !.pc = p] ELSE walk[u]
      BY <1>2, <2>1
    <2>3. CASE u = t
      BY <1>1, <2>1, <2>2, <2>3 DEF WalkType
    <2>4. CASE u # t
      BY <2>2, <2>4
    <2> QED BY <2>3, <2>4
  <1>4. /\ SlackLeft' = SlackLeft /\ Given("period")' = Given("period")
        /\ walk'["period"].start = walk["period"].start
        /\ walk'["period"].pc # "idle" => walk["period"].pc # "idle"
    BY <1>3, OveruseNumbers DEF SlackLeft, Given
  <1> QED BY <1>1, <1>4 DEF OveruseInv, Covered

\* A walk gives: a period walk no more than it started with, a slack walk what it has left.
LEMMA DistributeOveruse ==
  ASSUME IInv, OveruseInv, NEW t \in Timers, distribute_cfs_runtime(t)
  PROVE  OveruseInv'
  <1> DEFINE q0 == cfs_rq[walk[t].cur]
             runtime == IF q0.throttled THEN distributed(q0.runtime_remaining, walk[t].left) ELSE 0
             left == walk[t].left - runtime
             p    == IF left = 0 THEN "done" ELSE "advance"
  <1>1. /\ walk[t].pc = "visit" /\ handed' = handing(runtime) /\ cfs_b' = cfs_b
        /\ walk' = [walk EXCEPT ![t].left = left, ![t].pc = p]
    BY Zenon DEF distribute_cfs_runtime
  <1>2. runtime \in Nat /\ left \in Nat /\ left = walk[t].left - runtime /\ walk[t].left \in Nat
    <2>1. walk[t].cur \in Cpus
      BY DEF distribute_cfs_runtime, IInv, TimerInv
    <2>2. q0.runtime_remaining \in Int
      BY <2>1, CpuFacts DEF CfsRqType
    <2>3. CASE q0.throttled
      <3>1. runtime = distributed(q0.runtime_remaining, walk[t].left)
        BY <2>3
      <3> HIDE DEF runtime, q0
      <3> QED BY <2>2, <3>1, DistributedFacts, PoolNumbers
    <2>4. CASE ~q0.throttled
      BY <2>4, PoolNumbers
    <2> QED BY <2>3, <2>4
  <1> HIDE DEF runtime, left, p
  <1>3. /\ \A u \in Timers \ {t} : walk'[u] = walk[u]
        /\ walk'[t].start = walk[t].start /\ walk'[t].left = left
    <2>1. walk \in [Timers -> WalkType] /\ walk[t] \in WalkType
      BY PoolNumbers
    <2>2. \A u \in Timers : walk'[u] = IF u = t THEN [walk[t] EXCEPT !.left = left, !.pc = p] ELSE walk[u]
      BY <1>1, <2>1
    <2>3. walk'[t] = [walk[t] EXCEPT !.left = left, !.pc = p]
      BY <2>2
    <2>4. walk'[t].start = walk[t].start /\ walk'[t].left = left
      BY <2>1, <2>3 DEF WalkType
    <2> QED BY <2>2, <2>4
  <1>4. /\ handed'.out = handed.out + runtime /\ handed'.back = handed.back
        /\ handed'.slack = handed.slack
    BY <1>1, <1>2, HandedFacts
  <1>5. SUFFICES ASSUME cfs_b.quota # RUNTIME_INF
                 PROVE  OveruseInv'
    BY <1>1 DEF OveruseInv
  <1>6. Covered'
    BY <1>2, <1>4, <1>5, HandedFacts DEF OveruseInv, Covered
  <1>7. CASE t = "period"
    <2>1. SlackLeft' = SlackLeft /\ Given("period")' = Given("period") + runtime
          /\ Given("period")' <= walk["period"].start /\ walk'["period"].start = walk["period"].start
      BY <1>2, <1>3, <1>7, OveruseNumbers DEF SlackLeft, Given
    <2>2. /\ handed.out + cfs_b.runtime + SlackLeft <= cfs_b.quota + Given("period") + handed.slack
          /\ walk["period"].start <= cfs_b.quota + handed.back + handed.slack
      BY <1>1, <1>5, <1>7 DEF OveruseInv
    <2>3. handed'.out + cfs_b'.runtime + SlackLeft' <= cfs_b'.quota + Given("period")' + handed'.slack
      BY <1>1, <1>2, <1>4, <1>5, <2>1, <2>2, OveruseNumbers
    <2>4. handed'.out + cfs_b'.runtime + SlackLeft' <= 2 * cfs_b'.quota + handed'.back + 2 * handed'.slack
      BY <1>1, <1>2, <1>4, <1>5, <2>1, <2>2, <2>3, OveruseNumbers
    <2> QED BY <1>1, <1>4, <1>6, <2>1, <2>2, <2>3, <2>4 DEF OveruseInv
  <1>8. CASE t = "slack"
    <2>1. SlackLeft' = SlackLeft - runtime /\ walk'["period"] = walk["period"]
          /\ Given("period")' = Given("period")
      BY <1>2, <1>3, <1>8, OveruseNumbers DEF SlackLeft, Given
    <2>2. handed'.out + cfs_b'.runtime + SlackLeft' = handed.out + cfs_b.runtime + SlackLeft
      BY <1>1, <1>2, <1>4, <2>1, OveruseNumbers
    <2> QED BY <1>1, <1>4, <1>5, <1>6, <2>1, <2>2 DEF OveruseInv
  <1> QED BY <1>7, <1>8 DEF Timers

\* The period timer's callback is over, or starts a walk of a pool that holds no more than the
\* walk may give, or leaves the pool to its CPUs.
LEMMA PeriodLoopOveruse ==
  ASSUME IInv, NEW b \in CfsBType, PeriodLoop(b), b.quota = cfs_b.quota,
         cfs_b.quota # RUNTIME_INF =>
           /\ Covered
           /\ handed.out + b.runtime + SlackLeft <= 2 * cfs_b.quota + handed.back + 2 * handed.slack
  PROVE  OveruseInv'
  <1> DEFINE refresh == refilled(b)
  <1>1. NoWalk.pc = "idle"
    BY DEF NoWalk
  <1>2. ASSUME NEW w, walk' = [walk EXCEPT !["period"] = w]
        PROVE  walk'["period"] = w /\ SlackLeft' = SlackLeft
    BY <1>2, OveruseNumbers DEF SlackLeft
  <1>3. CASE now < period_timer.expires \/ Deactivates(b)
    <2>1. /\ cfs_b' = b \/ cfs_b' = deactivated(b)
          /\ walk' = [walk EXCEPT !["period"] = NoWalk] /\ handed' = handed
      BY <1>3 DEF PeriodLoop
    <2>2. cfs_b'.quota = b.quota /\ cfs_b'.runtime = b.runtime
      BY <2>1 DEF deactivated, CfsBType
    <2>3. walk'["period"].pc = "idle" /\ SlackLeft' = SlackLeft
      BY <1>1, <1>2, <2>1
    <2> QED BY <2>1, <2>2, <2>3 DEF OveruseInv, Covered
  <1>4. CASE ~(now < period_timer.expires) /\ ~Deactivates(b)
    <2>1. cfs_b.quota # RUNTIME_INF /\ cfs_b.quota \in Nat
      BY <1>4, OveruseNumbers DEF Deactivates
    <2>2. refresh \in CfsBType /\ refresh.quota = b.quota /\ refresh.runtime = b.quota
      <3>1. refresh \in CfsBType
        BY PoolFacts, PoolNumbers
      <3>2. refresh = [b EXCEPT !.runtime = b.quota, !.runtime_expires = now + Period]
        BY <2>1 DEF refilled
      <3> HIDE DEF refresh
      <3> QED BY <3>1, <3>2 DEF CfsBType
    <2>3. /\ handed' = refilling /\ cfs_b' \in {refresh, [refresh EXCEPT !.idle = TRUE]}
          /\ \/ walk' = [walk EXCEPT !["period"] = NoWalk]
             \/ walk' = [walk EXCEPT !["period"] = StartWalk(refresh.runtime, refresh.runtime_expires)]
      BY <1>4 DEF PeriodLoop
    <2> HIDE DEF refresh
    <2>4. cfs_b'.quota = cfs_b.quota /\ cfs_b'.runtime = cfs_b.quota
      BY <2>2, <2>3 DEF CfsBType
    <2>5. /\ handed'.out = 0 /\ handed'.back = 0 /\ handed'.slack = SlackLeft
          /\ SlackLeft' = SlackLeft
      <3>1. 0 \in Int
        OBVIOUS
      <3> QED BY <1>2, <2>3, <3>1, HandedFacts DEF SlackLeft
    <2>6. walk'["period"].pc # "idle" => /\ walk'["period"].start = cfs_b.quota
                                         /\ Given("period")' = 0
      <3> DEFINE w == StartWalk(refresh.runtime, refresh.runtime_expires)
      <3>1. w.start = cfs_b.quota /\ w.left = cfs_b.quota
        BY <2>2 DEF StartWalk, NoWalk
      <3> HIDE DEF w
      <3>2. CASE walk' = [walk EXCEPT !["period"] = NoWalk]
        BY <1>1, <1>2, <3>2
      <3>3. CASE walk' = [walk EXCEPT !["period"] = w]
        <4>1. walk'["period"] = w
          BY <1>2, <3>3
        <4>2. cfs_b.quota - cfs_b.quota = 0
          BY <2>1
        <4> QED BY <3>1, <4>1, <4>2 DEF Given
      <3> QED BY <2>3, <3>2, <3>3 DEF w
    <2>7. Covered'
      BY <2>5 DEF Covered
    <2>8. handed'.out + cfs_b'.runtime + SlackLeft' <= 2 * cfs_b'.quota + handed'.back + 2 * handed'.slack
      BY <2>1, <2>4, <2>5, OveruseNumbers
    <2>9. walk'["period"].pc # "idle" =>
            /\ handed'.out + cfs_b'.runtime + SlackLeft' <= cfs_b'.quota + Given("period")' + handed'.slack
            /\ walk'["period"].start <= cfs_b'.quota + handed'.back + handed'.slack
      BY <2>1, <2>4, <2>5, <2>6, OveruseNumbers
    <2> QED BY <2>7, <2>8, <2>9 DEF OveruseInv
  <1> QED BY <1>3, <1>4

\* Both entries of the period timer's callback.  What the walk gave is taken out of the pool,
\* or empties it.
LEMMA PeriodOveruse ==
  ASSUME IInv, AccountInv, OveruseInv, sched_cfs_period_timer \/ do_sched_cfs_period_timer
  PROVE  OveruseInv'
  <1> DEFINE g == Given("period")
             b == deducted(cfs_b, g)
             b1 == [b EXCEPT !.idle = FALSE]
  <1>1. g \in Nat /\ g <= walk["period"].start
    BY PoolNumbers DEF Given, AccountInv
  <1>2. CASE sched_cfs_period_timer
    <2>1. PeriodLoop(cfs_b)
      BY <1>2 DEF sched_cfs_period_timer
    <2> QED BY <2>1, PeriodLoopOveruse, PoolNumbers DEF OveruseInv
  <1>3. CASE do_sched_cfs_period_timer
    <2>1. walk["period"].pc # "idle"
      BY <1>3 DEF do_sched_cfs_period_timer
    <2> HIDE DEF g
    <2>2. /\ b \in CfsBType /\ b.quota = cfs_b.quota /\ b.runtime \in Nat
          /\ b.runtime = cfs_b.runtime - Least(g, cfs_b.runtime)
      <3>1. b \in CfsBType /\ b.quota = cfs_b.quota
        BY <1>1, PoolFacts, PoolNumbers
      <3>2. b.runtime = cfs_b.runtime - Least(g, cfs_b.runtime)
        BY PoolNumbers DEF deducted, CfsBType
      <3> HIDE DEF b
      <3> QED BY <3>1, <3>2 DEF CfsBType
    <2>3. b.runtime = cfs_b.runtime - g \/ (b.runtime = 0 /\ g > cfs_b.runtime)
      <3> HIDE DEF b
      <3> QED BY <1>1, <2>2, OveruseNumbers DEF Least
    <2>4. ASSUME cfs_b.quota # RUNTIME_INF
          PROVE  /\ handed.out + cfs_b.runtime + SlackLeft <= cfs_b.quota + g + handed.slack
                 /\ g <= cfs_b.quota + handed.back + handed.slack
      <3>1. /\ handed.out + cfs_b.runtime + SlackLeft <= cfs_b.quota + g + handed.slack
            /\ walk["period"].start <= cfs_b.quota + handed.back + handed.slack
        BY <2>1, <2>4 DEF OveruseInv, g
      <3> QED BY <1>1, <2>4, <3>1, OveruseNumbers
    <2> HIDE DEF b
    <2>5. ASSUME cfs_b.quota # RUNTIME_INF
          PROVE  handed.out + b.runtime + SlackLeft <= 2 * cfs_b.quota + handed.back + 2 * handed.slack
      <3>1. handed.out + b.runtime + SlackLeft <= cfs_b.quota + g + handed.slack
        BY <1>1, <2>2, <2>3, <2>4, <2>5, OveruseNumbers
      <3> QED BY <1>1, <2>2, <2>4, <2>5, <3>1, OveruseNumbers
    <2>6. CASE throttled_list # <<>> /\ b.runtime > 0
      <3> DEFINE w == StartWalk(b.runtime, walk["period"].expires)
      <3>1. /\ cfs_b' = b /\ walk' = [walk EXCEPT !["period"] = w] /\ handed' = handed
        BY <1>3, <2>6 DEF do_sched_cfs_period_timer, b, g
      <3>2. w.start = b.runtime /\ w.left = b.runtime
        BY DEF StartWalk, NoWalk
      <3> HIDE DEF w
      <3>3. walk'["period"] = w /\ SlackLeft' = SlackLeft
        BY <3>1, OveruseNumbers DEF SlackLeft
      <3>4. Given("period")' = 0 /\ walk'["period"].start = b.runtime
        BY <2>2, <3>2, <3>3 DEF Given
      <3> SUFFICES ASSUME cfs_b.quota # RUNTIME_INF PROVE OveruseInv'
        BY <2>2, <3>1 DEF OveruseInv
      <3>5. Covered /\ Covered'
        BY <3>1 DEF OveruseInv, Covered
      <3>6. handed.out + b.runtime + SlackLeft <= cfs_b.quota + handed.slack
        <4>1. b.runtime = cfs_b.runtime - g
          BY <2>2, <2>3, <2>6
        <4>2. handed.out + cfs_b.runtime + SlackLeft <= cfs_b.quota + g + handed.slack
          BY <2>4
        <4> QED BY <1>1, <4>1, <4>2, OveruseNumbers
      <3>7. b.runtime <= cfs_b.quota + handed.back + handed.slack
        BY <2>2, <3>5, <3>6, OveruseNumbers DEF Covered
      <3>8. handed'.out + cfs_b'.runtime + SlackLeft' <= cfs_b'.quota + Given("period")' + handed'.slack
        BY <2>2, <3>1, <3>3, <3>4, <3>6, OveruseNumbers
      <3> QED BY <2>2, <2>5, <3>1, <3>3, <3>4, <3>5, <3>7, <3>8 DEF OveruseInv
    <2>7. CASE ~(throttled_list # <<>> /\ b.runtime > 0)
      <3>1. PeriodLoop(b1)
        BY <1>3, <2>7 DEF do_sched_cfs_period_timer, b, g
      <3>2. b1 \in CfsBType /\ b1.quota = b.quota /\ b1.runtime = b.runtime
        BY <2>2 DEF CfsBType
      <3> HIDE DEF b1
      <3>3. cfs_b.quota # RUNTIME_INF =>
              /\ Covered
              /\ handed.out + b1.runtime + SlackLeft <= 2 * cfs_b.quota + handed.back + 2 * handed.slack
        BY <2>5, <3>2 DEF OveruseInv
      <3> QED BY <2>2, <3>1, <3>2, <3>3, PeriodLoopOveruse
    <2> QED BY <2>6, <2>7
  <1> QED BY <1>2, <1>3

\* The slack timer's callback: what its walk could give is on record from the start.
LEMMA SlackOveruse ==
  ASSUME IInv, IInv', AccountInv, OveruseInv, sched_cfs_slack_timer \/ do_sched_cfs_slack_timer
  PROVE  OveruseInv'
  <1>1. CASE sched_cfs_slack_timer /\ walk' = walk /\ handed' = handed
    <2>1. cfs_b' = cfs_b
      BY <1>1 DEF sched_cfs_slack_timer
    <2> QED BY <1>1, <2>1, UnseenOveruse
  <1>2. CASE sched_cfs_slack_timer /\ ~(walk' = walk /\ handed' = handed)
    <2> DEFINE w == StartWalk(cfs_b.runtime, cfs_b.runtime_expires)
    <2>1. /\ walk' = [walk EXCEPT !["slack"] = w] /\ cfs_b' = cfs_b
          /\ handed' = [handed EXCEPT !.slack = @ + cfs_b.runtime]
      BY <1>2 DEF sched_cfs_slack_timer
    <2>2. w.left = cfs_b.runtime
      BY DEF StartWalk, NoWalk
    <2> HIDE DEF w
    <2>3. SlackLeft' = cfs_b.runtime /\ walk'["period"] = walk["period"] /\ Given("period")' = Given("period")
      BY <2>1, <2>2, OveruseNumbers DEF SlackLeft, Given
    <2>4. /\ handed'.out = handed.out /\ handed'.back = handed.back
          /\ handed'.slack = handed.slack + cfs_b.runtime
      <3>1. PICK k : k = handed.slack + cfs_b.runtime
        OBVIOUS
      <3>2. handed' = [handed EXCEPT !.slack = k] /\ handed \in HandedType
        BY <2>1, <3>1 DEF IInv, TypeOK
      <3> QED BY <3>1, <3>2 DEF HandedType
    <2> SUFFICES ASSUME cfs_b.quota # RUNTIME_INF PROVE OveruseInv'
      BY <2>1 DEF OveruseInv
    <2>5. Covered'
      BY <2>4 DEF OveruseInv, Covered
    <2>6. handed'.out + cfs_b'.runtime + SlackLeft' <= 2 * cfs_b'.quota + handed'.back + 2 * handed'.slack
      <3>1. handed.out + cfs_b.runtime + SlackLeft <= 2 * cfs_b.quota + handed.back + 2 * handed.slack
        BY DEF OveruseInv
      <3> QED BY <2>1, <2>3, <2>4, <3>1, OveruseNumbers
    <2>7. ASSUME walk'["period"].pc # "idle"
          PROVE  /\ handed'.out + cfs_b'.runtime + SlackLeft' <= cfs_b'.quota + Given("period")' + handed'.slack
                 /\ walk'["period"].start <= cfs_b'.quota + handed'.back + handed'.slack
      <3>1. /\ handed.out + cfs_b.runtime + SlackLeft <= cfs_b.quota + Given("period") + handed.slack
            /\ walk["period"].start <= cfs_b.quota + handed.back + handed.slack
        BY <2>3, <2>7 DEF OveruseInv
      <3> QED BY <2>1, <2>3, <2>4, <3>1, OveruseNumbers
    <2> QED BY <2>5, <2>6, <2>7 DEF OveruseInv
  <1>3. CASE do_sched_cfs_slack_timer
    <2> DEFINE g == Given("slack")
    <2>1. g \in Nat
      BY PoolNumbers DEF Given, AccountInv
    <2>2. /\ cfs_b' = cfs_b \/ cfs_b' = deducted(cfs_b, g)
          /\ walk' = [walk EXCEPT !["slack"] = NoWalk] /\ handed' = handed
      BY <1>3 DEF do_sched_cfs_slack_timer
    <2> HIDE DEF g
    <2>3. cfs_b'.quota = cfs_b.quota /\ cfs_b'.runtime \in Nat /\ cfs_b'.runtime <= cfs_b.runtime
      <3>1. cfs_b'.quota = cfs_b.quota /\ (cfs_b'.runtime = cfs_b.runtime \/ cfs_b'.runtime = cfs_b.runtime - Least(g, cfs_b.runtime))
        BY <2>2, PoolNumbers DEF deducted, CfsBType
      <3> QED BY <2>1, <3>1, OveruseNumbers DEF Least
    <2>4. NoWalk.left = 0
      BY DEF NoWalk
    <2>5. SlackLeft' = 0 /\ walk'["period"] = walk["period"] /\ Given("period")' = Given("period")
      BY <2>2, <2>4, OveruseNumbers DEF SlackLeft, Given
    <2>6. handed'.out + cfs_b'.runtime + SlackLeft' <= handed.out + cfs_b.runtime + SlackLeft
      BY <2>2, <2>3, <2>5, OveruseNumbers
    <2> SUFFICES ASSUME cfs_b.quota # RUNTIME_INF PROVE OveruseInv'
      BY <2>3 DEF OveruseInv
    <2>7. handed'.out + cfs_b'.runtime + SlackLeft' <= 2 * cfs_b'.quota + handed'.back + 2 * handed'.slack
      <3>1. handed.out + cfs_b.runtime + SlackLeft <= 2 * cfs_b.quota + handed.back + 2 * handed.slack
        BY DEF OveruseInv
      <3> QED BY <2>2, <2>3, <2>5, <2>6, <3>1, OveruseNumbers
    <2>8. ASSUME walk'["period"].pc # "idle"
          PROVE  /\ handed'.out + cfs_b'.runtime + SlackLeft' <= cfs_b'.quota + Given("period")' + handed'.slack
                 /\ walk'["period"].start <= cfs_b'.quota + handed'.back + handed'.slack
      <3>1. /\ handed.out + cfs_b.runtime + SlackLeft <= cfs_b.quota + Given("period") + handed.slack
            /\ walk["period"].start <= cfs_b.quota + handed.back + handed.slack
        BY <2>5, <2>8 DEF OveruseInv
      <3> QED BY <2>2, <2>3, <2>5, <2>6, <3>1, OveruseNumbers
    <2> QED BY <2>2, <2>7, <2>8 DEF OveruseInv, Covered
  <1> QED BY <1>1, <1>2, <1>3

\* Every step keeps the bound.
LEMMA NextOveruse ==
  ASSUME IInv, IInv', AccountInv, OveruseInv, [Next]_vars
  PROVE  OveruseInv'
  <1>1. "period" \in Timers /\ "slack" \in Timers
    BY DEF Timers
  <1>2. CASE UNCHANGED vars
    BY <1>2, UnseenOveruse DEF vars, timerVars
  <1>3. ASSUME NEW c \in Cpus, Cpu(c) PROVE OveruseInv'
    BY <1>3, CpuExchange, ExchangeOveruse
  <1>4. CASE sched_cfs_period_timer
    BY <1>4, PeriodOveruse
  <1>5. CASE PeriodCallback
    BY <1>1, <1>5, AdvanceOveruse, DistributeOveruse, PeriodOveruse DEF PeriodCallback
  <1>6. CASE sched_cfs_slack_timer
    BY <1>6, SlackOveruse
  <1>7. CASE SlackCallback
    BY <1>1, <1>7, AdvanceOveruse, DistributeOveruse, SlackOveruse DEF SlackCallback
  <1>8. ASSUME NEW quota \in Quotas, tg_set_cfs_bandwidth(quota) PROVE FALSE
    BY <1>8 DEF tg_set_cfs_bandwidth, AccountInv
  <1>9. ASSUME NEW c \in Cpus, tg_set_cfs_bandwidth_rq(c) PROVE FALSE
    BY <1>9 DEF tg_set_cfs_bandwidth_rq, AccountInv
  <1>10. ASSUME NEW c \in Cpus, rq_offline_fair(c) \/ rq_online_fair(c) PROVE OveruseInv'
    BY <1>10, UnseenOveruse DEF rq_offline_fair, rq_online_fair, timerVars
  <1>11. CASE Tick
    BY <1>11, UnseenOveruse DEF Tick, timerVars
  <1> QED BY <1>2, <1>3, <1>4, <1>5, <1>6, <1>7, <1>8, <1>9, <1>10, <1>11 DEF Next

\* The pool starts with the quota.
LEMMA InitOveruse ==
  ASSUME Init
  PROVE  OveruseInv
  <1>1. /\ handed = [out |-> 0, back |-> 0, slack |-> 0] /\ cfs_b.quota = InitQuota
        /\ InitQuota # RUNTIME_INF => cfs_b.runtime = InitQuota
        /\ \A t \in Timers : walk[t] = NoWalk
    BY DEF Init
  <1>2. NoWalk.pc = "idle" /\ NoWalk.left = 0
    BY DEF NoWalk
  <1>3. SlackLeft = 0 /\ walk["period"].pc = "idle"
    BY <1>1, <1>2 DEF SlackLeft, Timers
  <1>4. InitQuota # RUNTIME_INF => InitQuota \in Nat
    BY QuotaAssumption
  <1>5. handed.out = 0 /\ handed.back = 0 /\ handed.slack = 0
    BY <1>1
  <1> QED BY <1>1, <1>3, <1>4, <1>5 DEF OveruseInv, Covered

\* With the quota of a group left as it is, what is given out of the pool between two refills
\* and what is left in it exceed twice the quota only by what came back of earlier periods and
\* twice what slack distributions could give, whatever CPUs take, throttle and give back while
\* distributions are on their way.
THEOREM OveruseAlwaysBounded ==
  ASSUME MaxSets = 0
  PROVE  Spec => []OveruseBounded
  <1>1. Init => IInv /\ AccountInv /\ OveruseInv
    BY InitIInv, InitAccount, InitOveruse
  <1>2. IInv /\ AccountInv /\ OveruseInv /\ [Next]_vars => IInv' /\ AccountInv' /\ OveruseInv'
    BY NextIInv, StutterIInv, NextAccount, NextOveruse
  <1>3. IInv /\ OveruseInv => OveruseBounded
    <2> SUFFICES ASSUME IInv, OveruseInv, cfs_b.quota # RUNTIME_INF
                 PROVE  handed.out + cfs_b.runtime <= 2 * cfs_b.quota + handed.back + 2 * handed.slack
      BY DEF OveruseBounded
    <2>1. handed.out + cfs_b.runtime + SlackLeft <= 2 * cfs_b.quota + handed.back + 2 * handed.slack
      BY DEF OveruseInv
    <2> QED BY <2>1, OveruseNumbers
  <1> QED BY <1>1, <1>2, <1>3, PTL DEF Spec
=============================================================================
