------------------------- MODULE MqttManager_proofs -------------------------
(***************************************************************************)
(* Theorems of MqttManager for every set of messages, topics, publishers   *)
(* and commands, every capacity of the queue and of the memory of command  *)
(* ids, and every start.                                                   *)
(***************************************************************************)
EXTENDS MqttManager, SequenceTheorems, FiniteSetTheorems, TLAPS

(***************************************************************************)
(* The inductive invariant                                                 *)
(***************************************************************************)
ConnectTasks == {"online", "resubscribe", "flush", "send", "notify"}
CommandTasks == {"receive", "handle", "answer", "insist", "again", "ack",
                 "reconnect", "restart", "reboot"}

NetTask == [do : {"send"}, arg : Msg] \cup [do : ConnectTasks \ {"send"}, arg : {"none"}]
               \cup [do : CommandTasks, arg : Command]

\* The network thread is in on_connect, or in the callback of one command.
ForConnection == \A i \in DOMAIN net : net[i].do \in ConnectTasks
ForCommand(c) == \A i \in DOMAIN net : net[i].do \in CommandTasks /\ net[i].arg = c

NetShape ==
    /\ net \in Seq(NetTask)
    /\ ForConnection \/ \E c \in Command : ForCommand(c)
    /\ \A i \in DOMAIN net : /\ net[i].do \in {"send", "handle"} => i = 1
                             /\ net[i].do = "ack" => i = Len(net)
    /\ Does("send") => Len(net) >= 2

\* Whatever the connection is up to, a callback only runs while the manager counts as connected.
ConnectedInv == net # << >> \/ (link = "up" /\ manager # "stopped") => connected

\* The broker sends a command once; the thread is at the first it has not acknowledged, unless
\* the session is lost.
InCommand == net # << >> /\ Head(net).do \in CommandTasks

InboundInv ==
    /\ \A i, j \in DOMAIN inbound : inbound[i] = inbound[j] => i = j
    /\ \A i \in DOMAIN inbound : inbound[i] \in posted
    /\ handled \subseteq posted
    /\ InCommand => /\ Arg \in posted
                    /\ inbound = << >> => ~subscribed
                    /\ inbound # << >> => Arg = inbound[1]

\* Of the commands that were handled, only the last can come again.
LastHandled(c) == Len(processed) > 0 /\ processed[Len(processed)] = c

HandledInv ==
    /\ \A i \in DOMAIN inbound : inbound[i] \in handled => i = 1 /\ LastHandled(inbound[i])
    /\ InCommand /\ Arg \in handled => LastHandled(Arg)
    /\ Does("handle") => LastHandled(Arg) /\ Arg \notin handled /\ ~Ignored(Arg)

IInv == /\ MqttTypeOK /\ NetShape /\ ConnectedInv /\ InboundInv /\ HandledInv

---------------------------------------------------------------------------
(* Sequences *)

LEMMA AppendedQueue ==
    ASSUME NEW S, NEW s \in Seq(S), NEW e \in S
    PROVE  /\ Append(s, e) \in Seq(S) /\ Len(Append(s, e)) = Len(s) + 1
           /\ \A i \in 1 .. Len(s) : Append(s, e)[i] = s[i]
           /\ Append(s, e)[Len(s) + 1] = e
BY AppendProperties

\* What follows the first element.
LEMMA TailOf ==
    ASSUME NEW S, NEW s \in Seq(S), s # << >>
    PROVE  /\ Head(s) = s[1] /\ Head(s) \in S /\ 1 \in DOMAIN s
           /\ Tail(s) \in Seq(S) /\ Len(Tail(s)) = Len(s) - 1 /\ Len(s) \in Nat \ {0}
           /\ DOMAIN Tail(s) = 1 .. Len(s) - 1 /\ DOMAIN s = 1 .. Len(s)
           /\ \A i \in 1 .. Len(s) - 1 : Tail(s)[i] = s[i + 1]
<1>1. Head(s) \in S /\ Tail(s) \in Seq(S) /\ Len(Tail(s)) = Len(s) - 1
          /\ \A i \in 1 .. Len(Tail(s)) : Tail(s)[i] = s[i + 1]
  BY HeadTailProperties
<1>2. Len(s) \in Nat \ {0} /\ DOMAIN s = 1 .. Len(s) /\ DOMAIN Tail(s) = 1 .. Len(Tail(s))
  BY <1>1, EmptySeq, LenProperties
<1>3. Head(s) = s[1]
  OBVIOUS
<1> QED
  BY <1>1, <1>2, <1>3

\* One element fewer: what came after it moves up.
LEMMA RemovedAt ==
    ASSUME NEW S, NEW s \in Seq(S), NEW k \in 1 .. Len(s)
    PROVE  /\ RemoveAt(s, k) \in Seq(S) /\ Len(RemoveAt(s, k)) = Len(s) - 1
           /\ \A i \in 1 .. Len(s) - 1 : RemoveAt(s, k)[i] = IF i < k THEN s[i] ELSE s[i + 1]
<1> DEFINE before == SubSeq(s, 1, k - 1)
           after  == SubSeq(s, k + 1, Len(s))
<1>1. Len(s) \in Nat /\ \A i \in 1 .. Len(s) : s[i] \in S
  BY ElementOfSeq, LenProperties
<1>2. /\ before \in Seq(S) /\ Len(before) = k - 1
      /\ \A i \in 1 .. k - 1 : before[i] = s[i]
  <2>1. \A i \in 1 .. k - 1 : s[i] \in S
    BY <1>1
  <2>2. /\ before \in Seq(S) /\ Len(before) = IF 1 <= k - 1 THEN k - 1 - 1 + 1 ELSE 0
        /\ \A i \in 1 .. k - 1 - 1 + 1 : before[i] = s[1 + i - 1]
    BY <1>1, <2>1, SubSeqProperties
  <2> QED
    BY <2>2, <1>1
<1>3. /\ after \in Seq(S) /\ Len(after) = Len(s) - k
      /\ \A i \in 1 .. Len(s) - k : after[i] = s[k + i]
  <2>1. \A i \in k + 1 .. Len(s) : s[i] \in S
    BY <1>1
  <2>2. /\ after \in Seq(S) /\ Len(after) = IF k + 1 <= Len(s) THEN Len(s) - (k + 1) + 1 ELSE 0
        /\ \A i \in 1 .. Len(s) - (k + 1) + 1 : after[i] = s[k + 1 + i - 1]
    BY <1>1, <2>1, SubSeqProperties
  <2> QED
    BY <2>2, <1>1
<1> HIDE DEF before, after
<1>4. /\ before \o after \in Seq(S) /\ Len(before \o after) = Len(s) - 1
      /\ \A i \in 1 .. Len(s) - 1 : (before \o after)[i] = IF i <= k - 1 THEN before[i]
                                                          ELSE after[i - (k - 1)]
  <2>1. /\ before \o after \in Seq(S) /\ Len(before \o after) = Len(before) + Len(after)
        /\ \A i \in 1 .. Len(before) + Len(after) :
               (before \o after)[i] = IF i <= Len(before) THEN before[i]
                                     ELSE after[i - Len(before)]
    BY <1>2, <1>3, ConcatProperties
  <2> QED
    BY <2>1, <1>1, <1>2, <1>3
<1>5. ASSUME NEW i \in 1 .. Len(s) - 1
      PROVE  (before \o after)[i] = IF i < k THEN s[i] ELSE s[i + 1]
  <2>1. CASE i < k
    BY <1>1, <1>2, <1>4, <2>1
  <2>2. CASE ~(i < k)
    <3>1. i - (k - 1) \in 1 .. Len(s) - k /\ k + (i - (k - 1)) = i + 1
      BY <1>1, <2>2
    <3> QED
      BY <1>1, <1>3, <1>4, <2>2, <3>1
  <2> QED
    BY <2>1, <2>2
<1>6. RemoveAt(s, k) = before \o after
  BY DEF RemoveAt, before, after
<1> QED
  BY <1>4, <1>5, <1>6

\* A sequence that repeats nothing has as many elements as places.
LEMMA RangeCount ==
    ASSUME NEW S, NEW q \in Seq(S), \A i, j \in DOMAIN q : q[i] = q[j] => i = j
    PROVE  Cardinality(Range(q)) = Len(q)
<1>1. Len(q) \in Nat /\ DOMAIN q = 1 .. Len(q) /\ q \in [1 .. Len(q) -> S]
  BY LenProperties
<1>2. q \in Bijection(1 .. Len(q), Range(q))
  <2>1. q \in [1 .. Len(q) -> Range(q)]
    BY <1>1 DEF Range
  <2>2. \A a, b \in 1 .. Len(q) : q[a] = q[b] => a = b
    BY <1>1
  <2>3. \A e \in Range(q) : \E i \in 1 .. Len(q) : q[i] = e
    BY <1>1 DEF Range
  <2> QED
    BY <2>1, <2>2, <2>3 DEF Bijection, Injection, Surjection, IsInjective
<1>3. IsFiniteSet(1 .. Len(q)) /\ Cardinality(1 .. Len(q)) = Len(q)
  BY <1>1, FS_Interval
<1> QED
  BY <1>2, <1>3, FS_Bijection DEF ExistsBijection

\* The oldest message of the queue and the others.
LEMMA RangeTail ==
    ASSUME NEW S, NEW q \in Seq(S), q # << >>
    PROVE  Range(q) = {Head(q)} \cup Range(Tail(q))
<1>1. /\ Head(q) = q[1] /\ 1 \in DOMAIN q /\ Len(q) \in Nat \ {0} /\ DOMAIN q = 1 .. Len(q)
      /\ DOMAIN Tail(q) = 1 .. Len(q) - 1 /\ \A i \in 1 .. Len(q) - 1 : Tail(q)[i] = q[i + 1]
  BY TailOf
<1>2. Range(Tail(q)) \subseteq Range(q)
  <2> SUFFICES ASSUME NEW i \in 1 .. Len(q) - 1
               PROVE  Tail(q)[i] \in Range(q)
    BY <1>1 DEF Range
  <2>1. i + 1 \in DOMAIN q
    BY <1>1
  <2> QED
    BY <2>1, <1>1 DEF Range
<1>3. Range(q) \subseteq {Head(q)} \cup Range(Tail(q))
  <2> SUFFICES ASSUME NEW i \in 1 .. Len(q), i # 1
               PROVE  q[i] \in Range(Tail(q))
    BY <1>1 DEF Range
  <2>1. i - 1 \in 1 .. Len(q) - 1 /\ (i - 1) + 1 = i
    BY <1>1
  <2>2. Tail(q)[i - 1] = q[i]
    BY <2>1, <1>1
  <2> QED
    BY <2>1, <2>2, <1>1 DEF Range
<1>4. Head(q) \in Range(q)
  BY <1>1 DEF Range
<1> QED
  BY <1>2, <1>3, <1>4

---------------------------------------------------------------------------
(* The queue of messages *)

\* A queue of messages of which no two have the same topic.
OneOfEach(q) == /\ q \in Seq(Msg)
                /\ \A i, j \in DOMAIN q : Topic[q[i]] = Topic[q[j]] => i = j

\* Taking a topic out of the queue leaves the other topics, in their order.
LEMMA WithoutTopicLeaves ==
    ASSUME OneOfEach(pending), NEW m
    PROVE  /\ OneOfEach(WithoutTopic(m)) /\ Len(WithoutTopic(m)) <= Len(pending)
           /\ Range(WithoutTopic(m)) = {d \in Range(pending) : Topic[d] # Topic[m]}
<1> DEFINE rest == WithoutTopic(m)
<1>1. pending \in Seq(Msg) /\ Len(pending) \in Nat /\ DOMAIN pending = 1 .. Len(pending)
  BY LenProperties DEF OneOfEach
<1>2. CASE SameTopic(m) = {}
  BY <1>2 DEF WithoutTopic, SameTopic, Range
<1>3. CASE SameTopic(m) # {}
  <2>1. PICK k \in SameTopic(m) : rest = RemoveAt(pending, k)
    BY <1>3 DEF WithoutTopic
  <2>2. k \in 1 .. Len(pending) /\ Topic[pending[k]] = Topic[m]
    BY <1>1, <2>1 DEF SameTopic
  <2>3. /\ rest \in Seq(Msg) /\ Len(rest) = Len(pending) - 1
        /\ \A i \in 1 .. Len(pending) - 1 : rest[i] = IF i < k THEN pending[i] ELSE pending[i + 1]
    BY <1>1, <2>1, <2>2, RemovedAt
  <2>4. DOMAIN rest = 1 .. Len(pending) - 1
    BY <2>3, LenProperties
  <2>5. \A i \in DOMAIN pending : i # k => Topic[pending[i]] # Topic[m]
    BY <2>2, <1>1 DEF OneOfEach
  <2> HIDE DEF rest
  <2>6. OneOfEach(rest)
    <3> SUFFICES ASSUME NEW i \in 1 .. Len(pending) - 1, NEW j \in 1 .. Len(pending) - 1,
                        Topic[rest[i]] = Topic[rest[j]]
                 PROVE  i = j
      BY <2>3, <2>4 DEF OneOfEach
    <3> DEFINE At(n) == IF n < k THEN n ELSE n + 1
    <3>1. /\ At(i) \in DOMAIN pending /\ rest[i] = pending[At(i)]
          /\ At(j) \in DOMAIN pending /\ rest[j] = pending[At(j)]
      BY <1>1, <2>2, <2>3
    <3>2. At(i) = At(j)
      BY <3>1 DEF OneOfEach
    <3> QED
      BY <3>2, <2>2, <1>1
  <2>7. Range(rest) \subseteq {d \in Range(pending) : Topic[d] # Topic[m]}
    <3> SUFFICES ASSUME NEW i \in 1 .. Len(pending) - 1
                 PROVE  rest[i] \in Range(pending) /\ Topic[rest[i]] # Topic[m]
      BY <2>4 DEF Range
    <3>1. CASE i < k
      BY <3>1, <1>1, <2>2, <2>3, <2>5 DEF Range
    <3>2. CASE ~(i < k)
      <4>1. i + 1 \in DOMAIN pending /\ i + 1 # k
        BY <3>2, <1>1, <2>2
      <4> QED
        BY <3>2, <4>1, <2>3, <2>5 DEF Range
    <3> QED
      BY <3>1, <3>2
  <2>8. {d \in Range(pending) : Topic[d] # Topic[m]} \subseteq Range(rest)
    <3> SUFFICES ASSUME NEW i \in DOMAIN pending, Topic[pending[i]] # Topic[m]
                 PROVE  pending[i] \in Range(rest)
      BY DEF Range
    <3>1. i # k
      BY <2>2
    <3>2. CASE i < k
      <4>1. i \in 1 .. Len(pending) - 1 /\ rest[i] = pending[i]
        BY <3>2, <1>1, <2>2, <2>3
      <4> QED
        BY <4>1, <2>4 DEF Range
    <3>3. CASE i > k
      <4>1. i - 1 \in 1 .. Len(pending) - 1 /\ ~(i - 1 < k) /\ (i - 1) + 1 = i
        BY <3>3, <1>1, <2>2
      <4>2. rest[i - 1] = pending[i]
        BY <4>1, <2>3
      <4> QED
        BY <4>1, <4>2, <2>4 DEF Range
    <3> QED
      BY <3>1, <3>2, <3>3, <1>1, <2>2
  <2>9. rest = WithoutTopic(m)
    BY DEF rest
  <2> QED
    BY <1>1, <2>3, <2>6, <2>7, <2>8, <2>9
<1> QED
  BY <1>2, <1>3

\* The oldest message is in the queue once.
LEMMA Oldest ==
    ASSUME NEW q, OneOfEach(q), q # << >>
    PROVE  Range(Tail(q)) = Range(q) \ {Head(q)}
<1>1. q \in Seq(Msg)
  BY DEF OneOfEach
<1>2. /\ Head(q) = q[1] /\ Len(q) \in Nat \ {0} /\ DOMAIN q = 1 .. Len(q)
      /\ DOMAIN Tail(q) = 1 .. Len(q) - 1 /\ \A i \in 1 .. Len(q) - 1 : Tail(q)[i] = q[i + 1]
  BY <1>1, TailOf
<1>3. Head(q) \notin Range(Tail(q))
  <2> SUFFICES ASSUME NEW i \in 1 .. Len(q) - 1, q[i + 1] = q[1]
               PROVE  FALSE
    BY <1>2 DEF Range
  <2>1. i + 1 \in DOMAIN q /\ 1 \in DOMAIN q /\ i + 1 # 1
    BY <1>2
  <2> QED
    BY <2>1 DEF OneOfEach
<1> QED
  BY <1>1, <1>3, RangeTail

\* A message that is queued takes the place of that of its topic, or that of the oldest in a full
\* queue.
LEMMA Queued ==
    ASSUME OneOfEach(pending), Len(pending) <= Cap, NEW m \in Msg, QueuePublish(m)
    PROVE  OneOfEach(pending') /\ Len(pending') <= Cap /\ O!Enqueue(m)
<1> DEFINE rest  == WithoutTopic(m)
           queue == Append(rest, m)
<1>1. /\ OneOfEach(rest) /\ Len(rest) <= Len(pending)
      /\ Range(rest) = {d \in Range(pending) : Topic[d] # Topic[m]}
  BY WithoutTopicLeaves
<1>2. pending' = IF Len(queue) > Cap THEN Tail(queue) ELSE queue
  BY DEF QueuePublish
<1> HIDE DEF rest
<1>3. rest \in Seq(Msg) /\ Len(rest) \in Nat /\ DOMAIN rest = 1 .. Len(rest)
  BY <1>1, LenProperties DEF OneOfEach
<1>4. /\ queue \in Seq(Msg) /\ Len(queue) = Len(rest) + 1
      /\ \A i \in 1 .. Len(rest) : queue[i] = rest[i]
      /\ queue[Len(rest) + 1] = m
  BY <1>3, AppendedQueue
<1>5. DOMAIN queue = 1 .. Len(rest) + 1 /\ queue # << >>
  BY <1>3, <1>4, LenProperties
<1> HIDE DEF queue
<1>6. Range(queue) = Range(rest) \cup {m}
  <2>1. Range(queue) \subseteq Range(rest) \cup {m}
    <3> SUFFICES ASSUME NEW i \in 1 .. Len(rest) + 1
                 PROVE  queue[i] \in Range(rest) \cup {m}
      BY <1>5 DEF Range
    <3>1. CASE i = Len(rest) + 1
      BY <3>1, <1>4
    <3>2. CASE i # Len(rest) + 1
      BY <3>2, <1>3, <1>4 DEF Range
    <3> QED
      BY <3>1, <3>2
  <2>2. Range(rest) \subseteq Range(queue)
    BY <1>3, <1>4, <1>5 DEF Range
  <2>3. m \in Range(queue)
    BY <1>3, <1>4, <1>5 DEF Range
  <2> QED
    BY <2>1, <2>2, <2>3
<1>7. OneOfEach(queue)
  <2> SUFFICES ASSUME NEW i \in 1 .. Len(rest) + 1, NEW j \in 1 .. Len(rest) + 1,
                      Topic[queue[i]] = Topic[queue[j]]
               PROVE  i = j
    BY <1>4, <1>5 DEF OneOfEach
  <2>1. ASSUME NEW n \in 1 .. Len(rest)
        PROVE  queue[n] = rest[n] /\ Topic[queue[n]] # Topic[m]
    BY <1>1, <1>3, <1>4 DEF Range
  <2>2. CASE i = Len(rest) + 1 /\ j = Len(rest) + 1
    BY <2>2
  <2>3. CASE i \in 1 .. Len(rest) /\ j \in 1 .. Len(rest)
    BY <2>1, <2>3, <1>1, <1>3 DEF OneOfEach
  <2>4. CASE i = Len(rest) + 1 /\ j \in 1 .. Len(rest)
    BY <2>1, <2>4, <1>4
  <2>5. CASE j = Len(rest) + 1 /\ i \in 1 .. Len(rest)
    BY <2>1, <2>5, <1>4
  <2> QED
    BY <2>2, <2>3, <2>4, <2>5, <1>3
<1>8. O!Queued(m) = Range(queue)
  BY <1>1, <1>6 DEF O!Queued
<1>9. O!Cardinality(Range(queue)) = Len(queue)
  <2>1. \A i, j \in DOMAIN queue : queue[i] = queue[j] => i = j
    BY <1>7 DEF OneOfEach
  <2>2. Cardinality(Range(queue)) = Len(queue)
    BY <1>4, <2>1, RangeCount
  <2> QED
    BY <2>2 DEF O!Cardinality, Cardinality
<1>10. CASE ~(Len(queue) > Cap)
  <2>1. pending' = queue
    BY <1>2, <1>10
  <2>2. Len(queue) <= Cap
    BY <1>3, <1>4, <1>10, MqttAssumption
  <2>3. Range(pending') = Range(queue)
    BY <2>1
  <2>4. O!Enqueue(m)
    BY <1>8, <1>9, <2>2, <2>3 DEF O!Enqueue
  <2> QED
    BY <2>1, <2>2, <2>4, <1>7
<1>11. CASE Len(queue) > Cap
  <2>1. pending' = Tail(queue)
    BY <1>2, <1>11
  <2>2. /\ Tail(queue) \in Seq(Msg) /\ Len(Tail(queue)) = Len(rest)
        /\ DOMAIN Tail(queue) = 1 .. Len(rest)
        /\ \A i \in 1 .. Len(rest) : Tail(queue)[i] = queue[i + 1]
    <3>1. /\ Tail(queue) \in Seq(Msg) /\ Len(Tail(queue)) = Len(queue) - 1
          /\ DOMAIN Tail(queue) = 1 .. Len(queue) - 1
          /\ \A i \in 1 .. Len(queue) - 1 : Tail(queue)[i] = queue[i + 1]
      BY <1>4, <1>5, TailOf
    <3>2. Len(queue) - 1 = Len(rest)
      BY <1>3, <1>4
    <3> QED
      BY <3>1, <3>2
  <2>3. Len(rest) <= Cap /\ Len(rest) >= Cap /\ Cap \in Nat \ {0}
    BY <1>1, <1>3, <1>4, <1>11, MqttAssumption, LenProperties DEF OneOfEach
  <2>4. OneOfEach(Tail(queue))
    <3> SUFFICES ASSUME NEW i \in 1 .. Len(rest), NEW j \in 1 .. Len(rest),
                        Topic[Tail(queue)[i]] = Topic[Tail(queue)[j]]
                 PROVE  i = j
      BY <2>2 DEF OneOfEach
    <3>1. i + 1 \in DOMAIN queue /\ j + 1 \in DOMAIN queue
      BY <1>3, <1>5
    <3>2. i + 1 = j + 1
      BY <3>1, <2>2, <1>7 DEF OneOfEach
    <3> QED
      BY <3>2, <1>3
  <2>5. Head(queue) \in Range(queue) /\ Head(queue) # m
    <3>1. Head(queue) = queue[1] /\ 1 \in DOMAIN queue /\ Len(rest) + 1 \in DOMAIN queue
      BY <1>3, <1>4, <1>5, TailOf
    <3>2. 1 # Len(rest) + 1
      BY <1>3, <2>3
    <3>3. queue[1] # queue[Len(rest) + 1]
      BY <1>7, <3>1, <3>2 DEF OneOfEach
    <3> QED
      BY <1>4, <3>1, <3>3 DEF Range
  <2>6. Range(pending') = Range(queue) \ {Head(queue)}
    BY <1>5, <1>7, <2>1, Oldest
  <2>7. ~(Len(queue) <= Cap)
    BY <1>3, <1>4, <1>11, MqttAssumption
  <2>8. O!Enqueue(m)
    BY <1>8, <1>9, <2>5, <2>6, <2>7 DEF O!Enqueue
  <2> QED
    BY <2>1, <2>2, <2>3, <2>4, <2>8
<1> QED
  BY <1>10, <1>11

---------------------------------------------------------------------------
(* The network thread *)

\* The task the thread is at, and what it tells of the others.
LEMMA Current ==
    ASSUME NetShape, net # << >>
    PROVE  /\ Head(net) = net[1] /\ 1 \in DOMAIN net /\ Head(net) \in NetTask
           /\ Len(net) \in Nat \ {0} /\ DOMAIN net = 1 .. Len(net)
           /\ Head(net).do \in ConnectTasks => ForConnection
           /\ Head(net).do \in CommandTasks => Arg \in Command /\ ForCommand(Arg)
           /\ Does("send") => Arg \in Msg
<1>1. /\ Head(net) = net[1] /\ Head(net) \in NetTask /\ 1 \in DOMAIN net
      /\ Len(net) \in Nat \ {0} /\ DOMAIN net = 1 .. Len(net)
  BY TailOf DEF NetShape
<1>2. Head(net).do \in ConnectTasks => ForConnection
  BY <1>1 DEF NetShape, ForCommand, ConnectTasks, CommandTasks
<1>3. Head(net).do \in CommandTasks => Arg \in Command /\ ForCommand(Arg)
  <2>1. Head(net).do \in CommandTasks => \E c \in Command : ForCommand(c)
    BY <1>1 DEF NetShape, ForConnection, ConnectTasks, CommandTasks
  <2> QED
    BY <2>1, <1>1 DEF ForCommand, Arg
<1>4. Does("send") => Arg \in Msg
  BY <1>1 DEF Does, Arg, NetTask, ConnectTasks, CommandTasks
<1> QED
  BY <1>1, <1>2, <1>3, <1>4

\* The tasks after a step: those it put in front, then those that were left.
LEMMA Going ==
    ASSUME NetShape, net # << >>, NEW tasks \in Seq(NetTask), Goes(tasks)
    PROVE  /\ net' \in Seq(NetTask) /\ Len(net') = Len(tasks) + Len(net) - 1
           /\ DOMAIN net' = 1 .. Len(tasks) + Len(net) - 1
           /\ \A i \in 1 .. Len(tasks) : net'[i] = tasks[i]
           /\ \A i \in Len(tasks) + 1 .. Len(tasks) + Len(net) - 1 :
                  /\ i - Len(tasks) + 1 \in 2 .. Len(net)
                  /\ net'[i] = net[i - Len(tasks) + 1]
<1>1. net \in Seq(NetTask)
  BY DEF NetShape
<1>2. /\ Tail(net) \in Seq(NetTask) /\ Len(Tail(net)) = Len(net) - 1 /\ Len(net) \in Nat \ {0}
      /\ \A i \in 1 .. Len(net) - 1 : Tail(net)[i] = net[i + 1]
  BY <1>1, TailOf
<1>3. Len(tasks) \in Nat
  BY LenProperties
<1>4. /\ net' \in Seq(NetTask) /\ Len(net') = Len(tasks) + Len(Tail(net))
      /\ \A i \in 1 .. Len(tasks) + Len(Tail(net)) :
             net'[i] = IF i <= Len(tasks) THEN tasks[i] ELSE Tail(net)[i - Len(tasks)]
  BY <1>2, ConcatProperties DEF Goes
<1>5. /\ Len(net') = Len(tasks) + Len(net) - 1
      /\ DOMAIN net' = 1 .. Len(tasks) + Len(net) - 1
  BY <1>2, <1>3, <1>4, LenProperties
<1>6. \A i \in 1 .. Len(tasks) : net'[i] = tasks[i]
  BY <1>2, <1>3, <1>4
<1>7. ASSUME NEW i \in Len(tasks) + 1 .. Len(tasks) + Len(net) - 1
      PROVE  /\ i - Len(tasks) + 1 \in 2 .. Len(net)
             /\ net'[i] = net[i - Len(tasks) + 1]
  <2>1. i - Len(tasks) \in 1 .. Len(net) - 1 /\ ~(i <= Len(tasks))
            /\ i \in 1 .. Len(tasks) + Len(Tail(net))
    BY <1>2, <1>3
  <2> QED
    BY <2>1, <1>2, <1>4
<1> QED
  BY <1>4, <1>5, <1>6, <1>7

\* What a callback of a command may put in front of what it still has to do.
CommandTask(c, tasks) ==
    tasks = << >> \/ \E d \in CommandTasks \ {"ack"} : tasks = <<With(d, c)>>

LEMMA CommandTaskType ==
    ASSUME NEW c \in Command, NEW tasks, CommandTask(c, tasks)
    PROVE  /\ tasks \in Seq(NetTask) /\ Len(tasks) \in {0, 1}
           /\ \A i \in 1 .. Len(tasks) : tasks[i].do \in CommandTasks \ {"ack"} /\ tasks[i].arg = c
<1>1. CASE tasks = << >>
  BY <1>1, EmptySeq
<1>2. ASSUME NEW d \in CommandTasks \ {"ack"}, tasks = <<With(d, c)>>
      PROVE  /\ tasks \in Seq(NetTask) /\ Len(tasks) \in {0, 1}
             /\ \A i \in 1 .. Len(tasks) : tasks[i].do \in CommandTasks \ {"ack"} /\ tasks[i].arg = c
  <2>1. With(d, c) \in NetTask /\ With(d, c).do = d /\ With(d, c).arg = c
    BY DEF With, NetTask
  <2> QED
    BY <1>2, <2>1
<1> QED
  BY <1>1, <1>2 DEF CommandTask

\* A callback of a command remains one.
LEMMA CommandGoes ==
    ASSUME NetShape, NEW c \in Command, ForCommand(c), net # << >>,
           NEW tasks, CommandTask(c, tasks), Goes(tasks)
    PROVE  /\ NetShape' /\ ForCommand(c)' /\ ~Does("send")'
           /\ Does("handle")' => tasks = <<With("handle", c)>>
           /\ Head(net).do = "ack" /\ tasks = << >> => net' = << >>
<1>1. /\ tasks \in Seq(NetTask) /\ Len(tasks) \in {0, 1}
      /\ \A i \in 1 .. Len(tasks) : tasks[i].do \in CommandTasks \ {"ack"} /\ tasks[i].arg = c
  BY CommandTaskType
<1>2. /\ net' \in Seq(NetTask) /\ Len(net') = Len(tasks) + Len(net) - 1
      /\ DOMAIN net' = 1 .. Len(tasks) + Len(net) - 1
      /\ \A i \in 1 .. Len(tasks) : net'[i] = tasks[i]
      /\ \A i \in Len(tasks) + 1 .. Len(tasks) + Len(net) - 1 :
             /\ i - Len(tasks) + 1 \in 2 .. Len(net)
             /\ net'[i] = net[i - Len(tasks) + 1]
  BY <1>1, Going
<1>3. /\ Head(net) = net[1] /\ Len(net) \in Nat \ {0} /\ DOMAIN net = 1 .. Len(net)
  BY Current
<1>4. ASSUME NEW i \in DOMAIN net'
      PROVE  /\ net'[i].do \in CommandTasks /\ net'[i].arg = c
             /\ net'[i].do \in {"send", "handle"} => i = 1 /\ Len(tasks) = 1
             /\ net'[i].do = "ack" => i = Len(net')
  <2>1. CASE i \in 1 .. Len(tasks)
    BY <2>1, <1>1, <1>2 DEF CommandTasks
  <2>2. CASE i \in Len(tasks) + 1 .. Len(tasks) + Len(net) - 1
    <3> DEFINE k == i - Len(tasks) + 1
    <3>1. k \in 2 .. Len(net) /\ net'[i] = net[k]
      BY <2>2, <1>2
    <3>2. k \in DOMAIN net /\ k # 1
      BY <3>1, <1>3
    <3>3. net[k].do \in CommandTasks /\ net[k].arg = c /\ net[k].do \notin {"send", "handle"}
      BY <3>2 DEF ForCommand, NetShape
    <3>4. net[k].do = "ack" => k = Len(net)
      BY <3>2 DEF NetShape
    <3> QED
      BY <3>1, <3>3, <3>4, <1>1, <1>2, <1>3, <2>2
  <2> QED
    BY <2>1, <2>2, <1>1, <1>2, <1>3
<1>5. ForCommand(c)'
  BY <1>4 DEF ForCommand
<1>6. net' # << >> => Head(net') = net'[1] /\ 1 \in DOMAIN net'
  BY <1>2, TailOf
<1>7. ~Does("send")'
  BY <1>4, <1>6 DEF Does, CommandTasks
<1>8. NetShape'
  BY <1>2, <1>4, <1>5, <1>7 DEF NetShape
<1>9. ASSUME Does("handle")'
      PROVE  tasks = <<With("handle", c)>>
  <2>1. 1 \in DOMAIN net' /\ net'[1].do = "handle"
    BY <1>6, <1>9 DEF Does
  <2>2. Len(tasks) = 1 /\ tasks[1].do = "handle"
    BY <2>1, <1>2, <1>4
  <2>3. PICK d \in CommandTasks \ {"ack"} : tasks = <<With(d, c)>>
    BY <2>2, EmptySeq DEF CommandTask
  <2>4. d = "handle"
    BY <2>2, <2>3 DEF With
  <2> QED
    BY <2>3, <2>4
<1>10. Head(net).do = "ack" /\ tasks = << >> => net' = << >>
  <2> SUFFICES ASSUME Head(net).do = "ack", tasks = << >>
               PROVE  net' = << >>
    OBVIOUS
  <2>1. Len(net) = 1
    BY <1>3 DEF NetShape
  <2>2. Len(net') = 0
    BY <2>1, <1>2, EmptySeq
  <2> QED
    BY <2>2, <1>2, EmptySeq
<1> QED
  BY <1>5, <1>7, <1>8, <1>9, <1>10

\* on_connect has no command in hand, and sends one message at a time.
LEMMA ConnectionGoes ==
    ASSUME NetShape, ForConnection, net # << >>, Done
    PROVE  NetShape' /\ ForConnection' /\ ~Does("send")' /\ ~Does("handle")'
<1>1. << >> \in Seq(NetTask) /\ Len(<< >>) = 0 /\ Goes(<< >>)
  BY EmptySeq DEF Done
<1>2. /\ net' \in Seq(NetTask) /\ DOMAIN net' = 1 .. Len(net) - 1
      /\ \A i \in 1 .. Len(net) - 1 : i + 1 \in 2 .. Len(net) /\ net'[i] = net[i + 1]
  <2>1. Len(net) \in Nat \ {0}
    BY Current
  <2>2. /\ net' \in Seq(NetTask) /\ DOMAIN net' = 1 .. 0 + Len(net) - 1
        /\ \A i \in 0 + 1 .. 0 + Len(net) - 1 : i - 0 + 1 \in 2 .. Len(net) /\ net'[i] = net[i - 0 + 1]
    BY <1>1, Going
  <2> QED
    BY <2>1, <2>2
<1>3. Len(net) \in Nat \ {0} /\ DOMAIN net = 1 .. Len(net)
  BY Current
<1>4. ASSUME NEW i \in DOMAIN net'
      PROVE  net'[i].do \in ConnectTasks \ {"send"}
  <2>1. i + 1 \in DOMAIN net /\ i + 1 # 1 /\ net'[i] = net[i + 1]
    BY <1>2, <1>3
  <2> QED
    BY <2>1 DEF NetShape, ForConnection
<1>5. net' # << >> => Head(net') = net'[1] /\ 1 \in DOMAIN net'
  BY <1>2, TailOf
<1>6. ~Does("send")' /\ ~Does("handle")'
  BY <1>4, <1>5 DEF Does, ConnectTasks
<1>7. ForConnection'
  BY <1>4 DEF ForConnection
<1> QED
  BY <1>2, <1>4, <1>6, <1>7 DEF NetShape, ConnectTasks

LEMMA FlushGoes ==
    ASSUME NetShape, ForConnection, net # << >>, NEW m \in Msg,
           Goes(<<With("send", m), Task("flush")>>)
    PROVE  NetShape' /\ ForConnection' /\ Does("send")' /\ Arg' = m
<1> DEFINE tasks == <<With("send", m), Task("flush")>>
<1>1. /\ tasks \in Seq(NetTask) /\ Len(tasks) = 2
      /\ tasks[1].do = "send" /\ tasks[1].arg = m /\ tasks[2].do = "flush"
  <2>1. With("send", m) \in NetTask /\ Task("flush") \in NetTask
    BY DEF With, Task, NetTask, ConnectTasks
  <2> QED
    BY <2>1 DEF With, Task
<1> HIDE DEF tasks
<1>2. /\ net' \in Seq(NetTask) /\ Len(net') = Len(tasks) + Len(net) - 1
      /\ DOMAIN net' = 1 .. Len(tasks) + Len(net) - 1
      /\ \A i \in 1 .. Len(tasks) : net'[i] = tasks[i]
      /\ \A i \in Len(tasks) + 1 .. Len(tasks) + Len(net) - 1 :
             /\ i - Len(tasks) + 1 \in 2 .. Len(net)
             /\ net'[i] = net[i - Len(tasks) + 1]
  BY <1>1, Going DEF tasks
<1>3. Len(net) \in Nat \ {0} /\ DOMAIN net = 1 .. Len(net)
  BY Current
<1>4. ASSUME NEW i \in DOMAIN net'
      PROVE  net'[i].do \in ConnectTasks /\ (net'[i].do = "send" => i = 1)
  <2>1. CASE i \in {1, 2}
    BY <2>1, <1>1, <1>2 DEF ConnectTasks
  <2>2. CASE i \notin {1, 2}
    <3>1. /\ i - 2 + 1 \in 2 .. Len(net) /\ net'[i] = net[i - 2 + 1]
      BY <2>2, <1>1, <1>2, <1>3
    <3>2. i - 2 + 1 \in DOMAIN net /\ i - 2 + 1 # 1
      BY <3>1, <1>3
    <3> QED
      BY <3>1, <3>2 DEF NetShape, ForConnection
  <2> QED
    BY <2>1, <2>2
<1>5. Len(net') >= 2 /\ net' # << >> /\ net'[1] = tasks[1] /\ Head(net') = net'[1]
  <2>1. Len(net') >= 2 /\ net'[1] = tasks[1]
    BY <1>1, <1>2, <1>3
  <2>2. net' # << >>
    BY <2>1, EmptySeq
  <2> QED
    BY <2>1, <2>2, <1>2, TailOf
<1>6. ForConnection'
  BY <1>4 DEF ForConnection
<1>7. Does("send")' /\ Arg' = m
  BY <1>1, <1>5 DEF Does, Arg
<1> QED
  BY <1>2, <1>4, <1>5, <1>6, <1>7 DEF NetShape, ConnectTasks

\* A flush that ends leaves out what it had yet to send.
LEMMA FlushEnds ==
    ASSUME NetShape, Does("send"), net' = Tail(Tail(net))
    PROVE  NetShape' /\ ForConnection' /\ ~Does("send")' /\ ~Does("handle")'
<1>1. /\ net # << >> /\ Len(net) \in Nat \ {0} /\ Len(net) >= 2 /\ DOMAIN net = 1 .. Len(net)
      /\ ForConnection
  BY Current DEF Does, NetShape, ConnectTasks
<1>2. /\ Tail(net) \in Seq(NetTask) /\ Len(Tail(net)) = Len(net) - 1
      /\ \A i \in 1 .. Len(net) - 1 : Tail(net)[i] = net[i + 1]
  BY <1>1, TailOf DEF NetShape
<1>3. Tail(net) # << >>
  BY <1>1, <1>2, EmptySeq, SMTT(30)
<1>4. /\ net' \in Seq(NetTask) /\ DOMAIN net' = 1 .. Len(net) - 1 - 1
      /\ \A i \in 1 .. Len(net) - 1 - 1 : net'[i] = Tail(net)[i + 1]
  <2>1. /\ Tail(Tail(net)) \in Seq(NetTask) /\ DOMAIN Tail(Tail(net)) = 1 .. Len(Tail(net)) - 1
        /\ \A i \in 1 .. Len(Tail(net)) - 1 : Tail(Tail(net))[i] = Tail(net)[i + 1]
    BY <1>2, <1>3, TailOf
  <2> QED
    BY <2>1, <1>2
<1>5. ASSUME NEW i \in DOMAIN net'
      PROVE  net'[i].do \in ConnectTasks \ {"send"}
  <2>1. i \in 1 .. Len(net) - 1 - 1 /\ i + 1 \in 1 .. Len(net) - 1
    BY <1>1, <1>4
  <2>2. net'[i] = net[i + 1 + 1] /\ i + 1 + 1 \in DOMAIN net /\ i + 1 + 1 # 1
    BY <2>1, <1>1, <1>2, <1>4
  <2> QED
    BY <2>2, <1>1 DEF NetShape, ForConnection
<1>6. net' # << >> => Head(net') = net'[1] /\ 1 \in DOMAIN net'
  BY <1>4, TailOf
<1>7. ~Does("send")' /\ ~Does("handle")'
  BY <1>5, <1>6 DEF Does, ConnectTasks
<1>8. ForConnection'
  BY <1>5 DEF ForConnection
<1> QED
  BY <1>4, <1>5, <1>7, <1>8 DEF NetShape, ConnectTasks

\* What on_connect begins with.
LEMMA ConnectionBegins ==
    ASSUME net' = Greeting \o <<Task("resubscribe"), Task("flush"), Task("notify")>>
    PROVE  NetShape' /\ ForConnection' /\ ~Does("send")' /\ ~Does("handle")'
<1> DEFINE tasks == <<Task("resubscribe"), Task("flush"), Task("notify")>>
           Task1 == [do : ConnectTasks \ {"send"}, arg : {"none"}]
<1>1. \A d \in ConnectTasks \ {"send"} : Task(d) \in Task1
  BY DEF Task
<1>2. Greeting \in Seq(Task1)
  <2>1. Task("online") \in Task1
    BY <1>1 DEF ConnectTasks
  <2>2. <<Task("online")>> \in Seq(Task1)
    BY <2>1
  <2> QED
    BY <2>2, EmptySeq DEF Greeting
<1>3. tasks \in Seq(Task1)
  <2>1. Task("resubscribe") \in Task1 /\ Task("flush") \in Task1 /\ Task("notify") \in Task1
    BY <1>1 DEF ConnectTasks
  <2> QED
    BY <2>1
<1>4. net' \in Seq(Task1)
  BY <1>2, <1>3, ConcatProperties
<1>5. Task1 \subseteq NetTask
  BY DEF NetTask
<1>6. net' \in Seq(NetTask)
  BY <1>4, <1>5, SeqMonotonic
<1>7. \A i \in DOMAIN net' : net'[i].do \in ConnectTasks \ {"send"}
  <2> HIDE DEF Task1
  <2>1. \A i \in DOMAIN net' : net'[i] \in Task1
    BY <1>4, LenProperties, ElementOfSeq
  <2> USE DEF Task1
  <2> QED
    BY <2>1
<1>8. net' # << >> => Head(net') = net'[1] /\ 1 \in DOMAIN net'
  BY <1>6, TailOf
<1>9. ~Does("send")' /\ ~Does("handle")'
  BY <1>7, <1>8 DEF Does, ConnectTasks
<1>10. ForConnection'
  BY <1>7 DEF ForConnection
<1> QED
  BY <1>6, <1>7, <1>9, <1>10 DEF NetShape, ConnectTasks

\* What a message begins with: its handlers, and the acknowledgement after them.
LEMMA CommandBegins ==
    ASSUME NEW c \in Command, net' = Handlers(c) \o <<With("ack", c)>>
    PROVE  NetShape' /\ ForCommand(c)' /\ ~Does("send")' /\ ~Does("handle")'
<1> DEFINE ack == <<With("ack", c)>>
<1>1. /\ Handlers(c) \in Seq([do : CommandTasks \ {"ack", "handle"}, arg : {c}])
      /\ Handlers(c) # << >>
  <2> DEFINE T == [do : CommandTasks \ {"ack", "handle"}, arg : {c}]
  <2>1. CASE Kind[c] \in {"wifi", "other"}
    <3>1. With("receive", c) \in T
      BY DEF With, CommandTasks
    <3>2. Handlers(c) = <<With("receive", c), With("receive", c)>>
      BY <2>1 DEF Handlers
    <3> QED
      BY <3>1, <3>2
  <2>2. CASE Kind[c] \notin {"wifi", "other"}
    <3>1. Kind[c] \in {"reconnect", "restart", "reboot"}
      BY <2>2, MqttAssumption DEF Kinds
    <3>2. With(Kind[c], c) \in T
      BY <3>1 DEF With, CommandTasks
    <3>3. Handlers(c) = <<With(Kind[c], c)>>
      BY <2>2 DEF Handlers
    <3> QED
      BY <3>2, <3>3
  <2> QED
    BY <2>1, <2>2
<1>2. Handlers(c) \in Seq(NetTask) /\ Len(Handlers(c)) \in Nat \ {0}
      /\ \A i \in 1 .. Len(Handlers(c)) : /\ Handlers(c)[i].do \in CommandTasks \ {"ack", "handle"}
                                          /\ Handlers(c)[i].arg = c
  <2>1. [do : CommandTasks \ {"ack", "handle"}, arg : {c}] \subseteq NetTask
    BY DEF NetTask
  <2>2. Handlers(c) \in Seq(NetTask)
    BY <1>1, <2>1, SeqMonotonic
  <2>3. Len(Handlers(c)) \in Nat \ {0}
    BY <1>1, EmptySeq
  <2>4. \A i \in 1 .. Len(Handlers(c)) :
            Handlers(c)[i] \in [do : CommandTasks \ {"ack", "handle"}, arg : {c}]
    BY <1>1, ElementOfSeq
  <2> QED
    BY <2>2, <2>3, <2>4
<1>3. ack \in Seq(NetTask) /\ Len(ack) = 1 /\ ack[1].do = "ack" /\ ack[1].arg = c
  <2>1. With("ack", c) \in NetTask
    BY DEF With, NetTask, CommandTasks
  <2> QED
    BY <2>1 DEF With
<1> HIDE DEF ack
<1>4. /\ net' \in Seq(NetTask) /\ Len(net') = Len(Handlers(c)) + 1
      /\ DOMAIN net' = 1 .. Len(Handlers(c)) + 1
      /\ \A i \in 1 .. Len(Handlers(c)) + 1 :
             net'[i] = IF i <= Len(Handlers(c)) THEN Handlers(c)[i] ELSE ack[i - Len(Handlers(c))]
  <2>1. net' = Handlers(c) \o ack
    BY DEF ack
  <2>2. /\ net' \in Seq(NetTask) /\ Len(net') = Len(Handlers(c)) + Len(ack)
        /\ \A i \in 1 .. Len(Handlers(c)) + Len(ack) :
             net'[i] = IF i <= Len(Handlers(c)) THEN Handlers(c)[i] ELSE ack[i - Len(Handlers(c))]
    BY <2>1, <1>2, <1>3, ConcatProperties
  <2> QED
    BY <2>2, <1>2, <1>3, LenProperties
<1>5. ASSUME NEW i \in DOMAIN net'
      PROVE  /\ net'[i].do \in CommandTasks \ {"handle"} /\ net'[i].arg = c
             /\ net'[i].do = "ack" => i = Len(net')
  <2>1. CASE i <= Len(Handlers(c))
    BY <2>1, <1>2, <1>4
  <2>2. CASE ~(i <= Len(Handlers(c)))
    <3>1. i = Len(Handlers(c)) + 1 /\ i - Len(Handlers(c)) = 1
      BY <2>2, <1>2, <1>4
    <3>2. net'[i] = ack[1]
      BY <3>1, <2>2, <1>4
    <3> QED
      BY <3>1, <3>2, <1>3, <1>4 DEF CommandTasks
  <2> QED
    BY <2>1, <2>2
<1>6. net' # << >> => Head(net') = net'[1] /\ 1 \in DOMAIN net'
  BY <1>4, TailOf
<1>7. ~Does("send")' /\ ~Does("handle")'
  BY <1>5, <1>6 DEF Does, CommandTasks
<1>8. ForCommand(c)'
  BY <1>5 DEF ForCommand
<1> QED
  BY <1>4, <1>5, <1>7, <1>8 DEF NetShape, CommandTasks

\* The message it is sending.
LEMMA InHandIs ==
    ASSUME NetShape
    PROVE  InHand = IF Does("send") THEN {Arg} ELSE {}
<1>1. CASE net = << >>
  BY <1>1 DEF InHand, Does
<1>2. CASE net # << >>
  <2>1. Head(net) = net[1] /\ 1 \in DOMAIN net
    BY <1>2, Current
  <2>2. \A i \in DOMAIN net : net[i].do = "send" => i = 1
    BY DEF NetShape
  <2>3. CASE Does("send")
    BY <2>1, <2>2, <2>3 DEF InHand, Does, Arg
  <2>4. CASE ~Does("send")
    BY <1>2, <2>1, <2>2, <2>4 DEF InHand, Does
  <2> QED
    BY <2>3, <2>4
<1> QED
  BY <1>1, <1>2

LEMMA InHandWillBe ==
    ASSUME NetShape'
    PROVE  InHand' = IF Does("send")' THEN {Arg'} ELSE {}
<1>1. CASE net' = << >>
  BY <1>1 DEF InHand, Does
<1>2. CASE net' # << >>
  <2>1. Head(net') = net'[1] /\ 1 \in DOMAIN net'
    BY <1>2, TailOf DEF NetShape
  <2>2. \A i \in DOMAIN net' : net'[i].do = "send" => i = 1
    BY DEF NetShape
  <2>3. CASE Does("send")'
    BY <2>1, <2>2, <2>3 DEF InHand, Does, Arg
  <2>4. CASE ~Does("send")'
    BY <1>2, <2>1, <2>2, <2>4 DEF InHand, Does
  <2> QED
    BY <2>3, <2>4
<1> QED
  BY <1>1, <1>2

\* In the callback of a command, the thread is at that command.
LEMMA StillIn ==
    ASSUME NetShape', NEW c \in Command, ForCommand(c)', net' # << >>
    PROVE  Arg' = c
<1>1. Head(net') = net'[1] /\ 1 \in DOMAIN net'
  BY TailOf DEF NetShape
<1> QED
  BY <1>1 DEF ForCommand, Arg

\* The steps of on_connect, and those of a command's callback.
ConnectionStep == OnConnect \/ Announce \/ Resubscribe \/ Flush \/ Send \/ Notify
CommandStep == Receive \/ Handle \/ GiveAnswer \/ Insist \/ AnswerAgain \/ Acknowledge
                   \/ RestartConnection \/ RestartRefused \/ Reboot

LEMMA ConnectionSteps ==
    ASSUME MqttTypeOK, NetShape, ConnectionStep
    PROVE  /\ NetShape' /\ ForConnection' /\ ~InCommand' /\ ~Does("handle")'
           /\ Does("send")' => Flush /\ pending # << >> /\ Arg' = Head(pending)
<1>1. NetShape' /\ ForConnection' /\ ~Does("handle")'
          /\ (Does("send")' => Flush /\ pending # << >> /\ Arg' = Head(pending))
  <2>1. CASE OnConnect
    BY <2>1, ConnectionBegins DEF OnConnect
  <2>2. CASE Announce \/ Resubscribe \/ Notify
    <3>1. net # << >> /\ Done /\ Head(net).do \in ConnectTasks
      BY <2>2 DEF Announce, Resubscribe, Notify, Does, ConnectTasks
    <3> QED
      BY <3>1, Current, ConnectionGoes
  <2>3. CASE Flush
    <3>1. net # << >> /\ Head(net).do \in ConnectTasks
      BY <2>3 DEF Flush, Does, ConnectTasks
    <3>2. CASE Done
      BY <3>1, <3>2, Current, ConnectionGoes
    <3>3. CASE pending # << >> /\ Goes(<<With("send", Head(pending)), Task("flush")>>)
      <4>1. Head(pending) \in Msg
        BY <3>3, TailOf DEF MqttTypeOK
      <4>2. NetShape' /\ ForConnection' /\ Does("send")' /\ Arg' = Head(pending)
        BY <3>1, <3>3, <4>1, Current, FlushGoes
      <4>3. ~Does("handle")'
        BY <4>2 DEF Does
      <4> QED
        BY <2>3, <3>3, <4>2, <4>3
    <3> QED
      BY <2>3, <3>2, <3>3 DEF Flush
  <2>4. CASE Send
    <3>1. Does("send") /\ net # << >> /\ Head(net).do \in ConnectTasks
      BY <2>4 DEF Send, Does, ConnectTasks
    <3>2. Done \/ net' = Tail(Tail(net))
      BY <2>4 DEF Send
    <3> QED
      BY <3>1, <3>2, Current, ConnectionGoes, FlushEnds
  <2> QED
    BY <2>1, <2>2, <2>3, <2>4 DEF ConnectionStep
<1>2. ~InCommand'
  <2>1. net' # << >> => Head(net') = net'[1] /\ 1 \in DOMAIN net'
    BY <1>1, TailOf DEF NetShape
  <2> QED
    BY <1>1, <2>1 DEF ForConnection, InCommand, ConnectTasks, CommandTasks
<1> QED
  BY <1>1, <1>2

LEMMA CommandSteps ==
    ASSUME NetShape, CommandStep
    PROVE  /\ Arg \in Command /\ InCommand
           /\ NetShape' /\ ~Does("send")' /\ (InCommand' => Arg' = Arg)
           /\ Does("handle")' => /\ processed' = Remembered(Arg) /\ Arg \notin Range(processed)
                                 /\ ~Ignored(Arg) /\ UNCHANGED handled
           /\ Head(net).do = "ack" => net' = << >>
<1>1. InCommand
  BY DEF CommandStep, Receive, Handle, GiveAnswer, Insist, AnswerAgain, Acknowledge,
         RestartConnection, RestartRefused, Reboot, Does, InCommand, CommandTasks
<1>2. Arg \in Command /\ ForCommand(Arg) /\ net # << >>
  BY <1>1, Current DEF InCommand
<1>3. ASSUME NEW tasks, CommandTask(Arg, tasks), Goes(tasks)
      PROVE  /\ NetShape' /\ ~Does("send")' /\ (InCommand' => Arg' = Arg)
             /\ Does("handle")' => tasks = <<With("handle", Arg)>>
             /\ Head(net).do = "ack" /\ tasks = << >> => net' = << >>
  <2>1. PICK c \in Command : c = Arg
    BY <1>2
  <2>2. ForCommand(c) /\ CommandTask(c, tasks)
    BY <1>2, <1>3, <2>1
  <2>3. /\ NetShape' /\ ForCommand(c)' /\ ~Does("send")'
        /\ Does("handle")' => tasks = <<With("handle", c)>>
        /\ Head(net).do = "ack" /\ tasks = << >> => net' = << >>
    BY <1>2, <1>3, <2>2, CommandGoes
  <2>4. net' # << >> => Arg' = c
    BY <2>3, StillIn
  <2> QED
    BY <2>1, <2>3, <2>4 DEF InCommand
<1>4. CASE Done
  <2>1. CommandTask(Arg, << >>) /\ Goes(<< >>)
    BY <1>4 DEF CommandTask, Done
  <2>2. << >> # <<With("handle", Arg)>>
    OBVIOUS
  <2> QED
    BY <1>1, <1>2, <1>3, <2>1, <2>2
<1>5. ASSUME Head(net).do # "ack", NEW d \in {"answer", "insist", "again"}, Goes(<<With(d, Arg)>>)
      PROVE  /\ NetShape' /\ ~Does("send")' /\ (InCommand' => Arg' = Arg) /\ ~Does("handle")'
  <2>1. CommandTask(Arg, <<With(d, Arg)>>)
    BY DEF CommandTask, CommandTasks
  <2>2. <<With(d, Arg)>> # <<With("handle", Arg)>>
    BY DEF With
  <2> QED
    BY <1>3, <1>5, <2>1, <2>2
<1>6. CASE Receive
  <2>1. CASE Done
    BY <1>4, <2>1
  <2>2. CASE ~Done
    <3>1. /\ processed' = Remembered(Arg) /\ Goes(<<With("handle", Arg)>>)
          /\ Arg \notin Range(processed) /\ ~Ignored(Arg) /\ UNCHANGED handled
          /\ Head(net).do # "ack"
      BY <1>6, <2>2 DEF Receive, Does
    <3>2. CommandTask(Arg, <<With("handle", Arg)>>)
      BY DEF CommandTask, CommandTasks
    <3> QED
      BY <1>1, <1>2, <1>3, <3>1, <3>2
  <2> QED
    BY <2>1, <2>2
<1>7. CASE Handle \/ GiveAnswer \/ Insist \/ RestartConnection \/ RestartRefused
  <2>1. Head(net).do # "ack"
    BY <1>7 DEF Handle, GiveAnswer, Insist, RestartConnection, RestartRefused, Does
  <2>2. Done \/ \E d \in {"answer", "insist", "again"} : Goes(<<With(d, Arg)>>)
    BY <1>7 DEF Handle, GiveAnswer, Insist, RestartConnection, RestartRefused, Done
  <2> QED
    BY <1>1, <1>2, <1>4, <1>5, <2>1, <2>2
<1>8. CASE AnswerAgain \/ Acknowledge \/ Reboot
  BY <1>4, <1>8 DEF AnswerAgain, Acknowledge, Reboot
<1> QED
  BY <1>6, <1>7, <1>8 DEF CommandStep

\* What the broker sent first is what the thread is at.
LEMMA MessageBegins ==
    ASSUME MqttTypeOK, OnMessage
    PROVE  /\ inbound # << >> /\ 1 \in DOMAIN inbound /\ inbound[1] \in Command
           /\ NetShape' /\ ~Does("send")' /\ ~Does("handle")'
           /\ InCommand' => Arg' = inbound[1]
           /\ UNCHANGED <<inbound, posted, subscribed, processed, handled>>
<1>1. inbound # << >> /\ net' = Handlers(Head(inbound)) \o <<With("ack", Head(inbound))>>
          /\ UNCHANGED <<inbound, posted, subscribed, processed, handled>>
  BY DEF OnMessage, broker, commands
<1>2. Head(inbound) = inbound[1] /\ 1 \in DOMAIN inbound /\ inbound[1] \in Command
  BY <1>1, TailOf DEF MqttTypeOK
<1>3. PICK c \in Command : c = inbound[1]
  BY <1>2
<1>4. NetShape' /\ ForCommand(c)' /\ ~Does("send")' /\ ~Does("handle")'
  <2>1. net' = Handlers(c) \o <<With("ack", c)>>
    BY <1>1, <1>2, <1>3
  <2> QED
    BY <2>1, CommandBegins
<1>5. InCommand' => Arg' = inbound[1]
  BY <1>3, <1>4, StillIn DEF InCommand
<1> QED
  BY <1>1, <1>2, <1>4, <1>5

\* All other steps leave the thread alone, or it begins anew.
LEMMA OtherSteps ==
    ASSUME [Next]_vars, ~ConnectionStep, ~CommandStep, ~OnMessage, ~ProcessRestarts
    PROVE  net' = net /\ UNCHANGED <<processed, handled>>
<1>1. ReachChanges \/ LinkLost \/ BrokerForgets \/ LibraryReconnects \/ ForceReconnect
          \/ LoopStep \/ Stopping \/ WillPublished \/ StatusArrives \/ OnDisconnect
          \/ (\E c \in Command : Post(c)) \/ (\E p \in Publisher, m \in Msg : BeginPublish(p, m))
          \/ (\E p \in Publisher : Publish(p)) \/ (\E m \in Msg : Deliver(m))
          => UNCHANGED <<net, processed, handled>>
  BY DEF ReachChanges, LinkLost, BrokerForgets, LibraryReconnects, ForceReconnect, LoopStep,
         ReconnectDecides, Reconnect, Stopping, StopAnnounces, StopDisconnects, StopEnds,
         WillPublished, StatusArrives, OnDisconnect, Post, BeginPublish, Publish, Deliver, commands
<1>2. UNCHANGED vars => UNCHANGED <<net, processed, handled>>
  BY DEF vars, commands
<1> QED
  BY <1>1, <1>2 DEF Next, NetStep, Callback, Environment, RestartService, Reboots,
                    ConnectionStep, CommandStep

\* Every step of the system leaves the thread in on_connect, in the callback of one command, or
\* with nothing to do.
LEMMA ShapeNext ==
    ASSUME MqttTypeOK, NetShape, [Next]_vars
    PROVE  NetShape'
<1>1. CASE net' = net
  BY <1>1 DEF NetShape, ForConnection, ForCommand, Does
<1>2. CASE ProcessRestarts
  <2>1. net' = << >>
    BY <1>2 DEF ProcessRestarts
  <2> QED
    BY <2>1, EmptySeq DEF NetShape, ForConnection, Does
<1>3. CASE OnMessage
  <2>1. inbound # << >> /\ net' = Handlers(Head(inbound)) \o <<With("ack", Head(inbound))>>
    BY <1>3 DEF OnMessage
  <2>2. Head(inbound) \in Command
    BY <2>1, TailOf DEF MqttTypeOK
  <2> QED
    BY <2>1, <2>2, CommandBegins
<1> QED
  BY <1>1, <1>2, <1>3, ConnectionSteps, CommandSteps, OtherSteps

---------------------------------------------------------------------------
(* Type correctness *)

LEMMA StartType ==
    ASSUME MqttTypeOK
    PROVE  /\ given.status \in BOOLEAN /\ given.sent \subseteq Msg /\ given.commands \subseteq Command
           /\ WillFollows \in BOOLEAN /\ given.lives \in Nat /\ given.refreshes \in Nat
BY MqttAssumption DEF MqttTypeOK, WillFollows

LEMMA TypeInit == Init => MqttTypeOK
<1> SUFFICES ASSUME Init
             PROVE  MqttTypeOK
  OBVIOUS
<1>1. given \in Start /\ given.lives \in Nat /\ given.refreshes \in Nat
  BY MqttAssumption DEF Init
<1>2. /\ pending \in Seq(Msg) /\ Len(pending) = 0 /\ DOMAIN pending = {}
      /\ net \in Seq([do : Tasks, arg : {"none"} \cup Msg \cup Command])
      /\ inbound \in Seq(Command) /\ processed \in Seq(Command) /\ Len(processed) = 0
  BY EmptySeq DEF Init
<1>3. Cap \in Nat \ {0} /\ Window \in Nat \ {0}
  BY MqttAssumption
<1>4. pending \in Seq(Msg) /\ Len(pending) <= Cap /\ DOMAIN pending = {}
  BY <1>2, <1>3
<1>5. processed \in Seq(Command) /\ Len(processed) <= Window
  BY <1>2, <1>3
<1>6. lives \in 0 .. given.lives /\ refreshes \in 0 .. given.refreshes
  BY <1>1 DEF Init
<1>7. publishing \in [Publisher -> {<< >>} \cup (Msg \X BOOLEAN)]
  BY DEF Init
<1> QED
  BY <1>1, <1>2, <1>4, <1>5, <1>6, <1>7 DEF Init, MqttTypeOK

\* What a connection that ends or begins may leave.
ConnectionType == /\ link' \in {"down", "connack", "up"} /\ lost' \in BOOLEAN
                  /\ willDue' \in BOOLEAN /\ status' \in {"none", "online", "offline"}

LEMMA ConnectionStepType ==
    ASSUME MqttTypeOK, Closes \/ Breaks \/ Redials
    PROVE  ConnectionType
<1>1. (link # "down") \in BOOLEAN /\ lost \in BOOLEAN /\ (lost \/ link # "down") \in BOOLEAN
  BY DEF MqttTypeOK
<1>2. WillFollows \in BOOLEAN
  BY StartType
<1>3. CASE Closes
  BY <1>1, <1>3 DEF Closes, MqttTypeOK, ConnectionType
<1>4. CASE Breaks
  BY <1>1, <1>2, <1>4 DEF Breaks, MqttTypeOK, ConnectionType
<1>5. CASE Redials /\ reachable
  BY <1>1, <1>5 DEF Redials, MqttTypeOK, ConnectionType
<1> QED
  BY <1>3, <1>4, <1>5 DEF Redials

\* What a message that is queued or sent may leave.
MessagesType == /\ OneOfEach(pending') /\ Len(pending') <= Cap
                /\ store' \subseteq Msg /\ accepted' \subseteq Msg /\ delivered' \subseteq Msg

LEMMA QueueTypeOK ==
    ASSUME MqttTypeOK
    PROVE  /\ OneOfEach(pending) /\ Len(pending) <= Cap
           /\ \A m \in Msg : QueuePublish(m) => OneOfEach(pending') /\ Len(pending') <= Cap
<1>1. OneOfEach(pending) /\ Len(pending) <= Cap
  BY DEF MqttTypeOK, OneOfEach
<1>2. ASSUME NEW m \in Msg, QueuePublish(m)
      PROVE  OneOfEach(pending') /\ Len(pending') <= Cap
  BY <1>1, <1>2, Queued
<1> QED
  BY <1>1, <1>2

LEMMA ClientTakesType ==
    ASSUME MqttTypeOK, NEW m \in Msg, NEW ok, ClientTakes(m, ok)
    PROVE  store' \subseteq Msg
BY DEF ClientTakes, MqttTypeOK

LEMMA PublishAfterType ==
    ASSUME MqttTypeOK, NEW m \in Msg, NEW saw, NEW ok, PublishAfter(m, saw, ok)
    PROVE  MessagesType
<1>1. store' \subseteq Msg
  BY ClientTakesType DEF PublishAfter, MqttTypeOK
<1>2. OneOfEach(pending') /\ Len(pending') <= Cap
  BY QueueTypeOK DEF PublishAfter
<1> QED
  BY <1>1, <1>2 DEF PublishAfter, MqttTypeOK, MessagesType

LEMMA RememberedType ==
    ASSUME processed \in Seq(Command), Len(processed) <= Window, NEW c \in Command
    PROVE  /\ Remembered(c) \in Seq(Command) /\ Len(Remembered(c)) \in 1 .. Window
           /\ Remembered(c)[Len(Remembered(c))] = c
<1> DEFINE ids == Append(processed, c)
<1>1. Len(processed) \in Nat /\ Window \in Nat \ {0} /\ Kept \in 1 .. Window
  BY LenProperties, MqttAssumption
<1>2. /\ ids \in Seq(Command) /\ Len(ids) = Len(processed) + 1 /\ ids[Len(processed) + 1] = c
      /\ \A i \in 1 .. Len(ids) : ids[i] \in Command
  BY <1>1, AppendedQueue, ElementOfSeq
<1> HIDE DEF ids
<1>3. CASE Len(ids) > Window
  <2>1. Remembered(c) = SubSeq(ids, Len(ids) - Kept + 1, Len(ids))
    BY <1>3 DEF Remembered, ids
  <2>2. Len(ids) - Kept + 1 \in 1 .. Len(ids) /\ Len(ids) \in Nat
    BY <1>1, <1>2, <1>3
  <2>3. \A i \in Len(ids) - Kept + 1 .. Len(ids) : ids[i] \in Command
    BY <1>2, <2>2
  <2>4. /\ SubSeq(ids, Len(ids) - Kept + 1, Len(ids)) \in Seq(Command)
        /\ Len(SubSeq(ids, Len(ids) - Kept + 1, Len(ids)))
               = IF Len(ids) - Kept + 1 <= Len(ids) THEN Len(ids) - (Len(ids) - Kept + 1) + 1 ELSE 0
        /\ \A i \in 1 .. Len(ids) - (Len(ids) - Kept + 1) + 1 :
               SubSeq(ids, Len(ids) - Kept + 1, Len(ids))[i] = ids[Len(ids) - Kept + 1 + i - 1]
    BY <2>2, <2>3, SubSeqProperties
  <2>5. Len(Remembered(c)) = Kept
    BY <1>1, <2>1, <2>2, <2>4
  <2>6. Remembered(c)[Kept] = ids[Len(ids)]
    <3>1. Kept \in 1 .. Len(ids) - (Len(ids) - Kept + 1) + 1
              /\ Len(ids) - Kept + 1 + Kept - 1 = Len(ids)
      BY <1>1, <2>2
    <3> QED
      BY <3>1, <2>1, <2>4
  <2> QED
    BY <1>1, <1>2, <2>1, <2>4, <2>5, <2>6
<1>4. CASE ~(Len(ids) > Window)
  <2>1. Remembered(c) = ids
    BY <1>4 DEF Remembered, ids
  <2> QED
    BY <1>1, <1>2, <1>4, <2>1
<1> QED
  BY <1>3, <1>4

LEMMA NetType ==
    ASSUME NetShape'
    PROVE  net' \in Seq([do : Tasks, arg : {"none"} \cup Msg \cup Command])
<1>1. NetTask \subseteq [do : Tasks, arg : {"none"} \cup Msg \cup Command]
  BY DEF NetTask, Tasks, Kinds, ConnectTasks, CommandTasks
<1>2. net' \in Seq(NetTask)
  BY DEF NetShape
<1> QED
  BY <1>1, <1>2, SeqMonotonic

LEMMA TypeNext ==
    ASSUME IInv, [Next]_vars
    PROVE  MqttTypeOK'
<1> USE DEF messages, broker, commands, bounds
<1>1. MqttTypeOK /\ net' \in Seq([do : Tasks, arg : {"none"} \cup Msg \cup Command])
  BY ShapeNext, NetType DEF IInv
<1>2. OneOfEach(pending) /\ Len(pending) <= Cap
  BY <1>1, QueueTypeOK
<1>3. ASSUME MessagesType
      PROVE  /\ pending' \in Seq(Msg) /\ Len(pending') <= Cap
             /\ \A i, j \in DOMAIN pending' : Topic[pending'[i]] = Topic[pending'[j]] => i = j
             /\ store' \subseteq Msg /\ accepted' \subseteq Msg /\ delivered' \subseteq Msg
  BY <1>3 DEF MessagesType, OneOfEach
<1>4. UNCHANGED messages => MessagesType
  BY <1>1, <1>2 DEF MessagesType, OneOfEach, MqttTypeOK
(* The connection. *)
<1>5. CASE ReachChanges \/ BrokerForgets
  <2>1. CASE ReachChanges
    BY <1>1, <2>1 DEF ReachChanges, MqttTypeOK
  <2>2. CASE BrokerForgets
    <3>1. inbound' \in Seq(Command)
      BY <2>2, EmptySeq DEF BrokerForgets
    <3> QED
      BY <1>1, <2>2, <3>1, ZenonT(30) DEF BrokerForgets, MqttTypeOK
  <2> QED
    BY <1>5, <2>1, <2>2
<1>6. CASE WillPublished \/ StatusArrives
  <2>1. CASE WillPublished
    BY <1>1, <2>1, ZenonT(30) DEF WillPublished, MqttTypeOK
  <2>2. CASE StatusArrives
    BY <1>1, <2>2 DEF StatusArrives, MqttTypeOK
  <2> QED
    BY <1>6, <2>1, <2>2
<1>7. CASE LinkLost
  <2>1. ConnectionType
    BY <1>1, <1>7, ConnectionStepType DEF LinkLost
  <2> QED
    BY <1>1, <1>7, <2>1 DEF LinkLost, ConnectionType, MqttTypeOK
<1>8. CASE ReconnectDecides
  BY <1>1, <1>8 DEF ReconnectDecides, MqttTypeOK
<1>9. CASE Reconnect
  <2>1. ConnectionType
    BY <1>1, <1>9, ConnectionStepType DEF Reconnect
  <2> QED
    BY <1>1, <1>9, <2>1 DEF Reconnect, ConnectionType, MqttTypeOK
<1>10. CASE LibraryReconnects
  <2>1. ConnectionType
    BY <1>1, <1>10, ConnectionStepType DEF LibraryReconnects
  <2> QED
    BY <1>1, <1>10, <2>1 DEF LibraryReconnects, ConnectionType, MqttTypeOK
<1>11. CASE ForceReconnect
  <2>1. ConnectionType
    BY <1>1, <1>11, ConnectionStepType DEF ForceReconnect
  <2>2. refreshes' \in 0 .. given.refreshes
    BY <1>1, <1>11, StartType DEF ForceReconnect, MqttTypeOK
  <2> QED
    BY <1>1, <1>11, <2>1, <2>2 DEF ForceReconnect, ConnectionType, MqttTypeOK
(* on_connect and on_disconnect. *)
<1>12. CASE OnConnect
  <2>1. /\ link' = "up" /\ connected' = TRUE
        /\ UNCHANGED <<reachable, lost, broker, announced, manager, dialing, messages, publishing,
                      commands, bounds>>
    BY <1>12 DEF OnConnect
  <2> QED
    BY <1>1, <2>1 DEF MqttTypeOK
<1>13. CASE Announce \/ Resubscribe \/ Notify
  <2>1. /\ announced' \in {"none", "online", "offline"} /\ subscribed' \in BOOLEAN
        /\ UNCHANGED <<reachable, link, lost, willDue, status, inbound, posted, manager, connected,
                      dialing, messages, publishing, commands, bounds>>
    <3>1. CASE Announce
      BY <1>1, <3>1 DEF Announce, MqttTypeOK
    <3>2. CASE Resubscribe
      BY <1>1, <3>2 DEF Resubscribe, MqttTypeOK
    <3>3. CASE Notify
      BY <1>1, <3>3 DEF Notify, MqttTypeOK
    <3> QED
      BY <1>13, <3>1, <3>2, <3>3
  <2> QED
    BY <1>1, <2>1 DEF MqttTypeOK
<1>14. CASE Flush
  <2>1. CASE UNCHANGED pending
    BY <1>1, <1>14, <2>1 DEF Flush, MqttTypeOK
  <2>2. CASE pending # << >> /\ pending' = Tail(pending)
    <3>1. /\ pending \in Seq(Msg) /\ Len(pending) \in Nat \ {0} /\ DOMAIN pending = 1 .. Len(pending)
          /\ pending' \in Seq(Msg) /\ Len(pending') = Len(pending) - 1
          /\ DOMAIN pending' = 1 .. Len(pending) - 1
          /\ \A i \in 1 .. Len(pending) - 1 : pending'[i] = pending[i + 1]
      BY <1>2, <2>2, TailOf DEF OneOfEach
    <3>2. Len(pending') <= Cap
      BY <1>2, <3>1, MqttAssumption
    <3>3. ASSUME NEW i \in DOMAIN pending', NEW j \in DOMAIN pending',
                 Topic[pending'[i]] = Topic[pending'[j]]
          PROVE  i = j
      <4>1. i + 1 \in DOMAIN pending /\ j + 1 \in DOMAIN pending
        BY <3>1
      <4>2. i + 1 = j + 1
        BY <4>1, <3>1, <3>3, <1>2 DEF OneOfEach
      <4> QED
        BY <4>2, <3>1
    <3> QED
      BY <1>1, <1>14, <3>1, <3>2, <3>3 DEF Flush, MqttTypeOK
  <2> QED
    BY <1>14, <2>1, <2>2 DEF Flush
<1>15. CASE Send
  <2>1. Arg \in Msg
    BY <1>15, Current DEF Send, Does, IInv
  <2>2. PICK ok \in BOOLEAN : /\ ClientTakes(Arg, ok)
                              /\ IF ok THEN Done /\ UNCHANGED pending
                                 ELSE QueuePublish(Arg) /\ net' = Tail(Tail(net))
    BY <1>15 DEF Send
  <2>3. store' \subseteq Msg
    BY <1>1, <2>1, <2>2, ClientTakesType
  <2>4. OneOfEach(pending') /\ Len(pending') <= Cap
    BY <1>1, <1>2, <2>1, <2>2, QueueTypeOK
  <2>5. MessagesType
    BY <1>1, <1>15, <2>3, <2>4 DEF Send, MessagesType, MqttTypeOK
  <2>6. UNCHANGED <<reachable, link, lost, broker, announced, manager, connected, dialing,
                    publishing, commands, bounds>>
    BY <1>15 DEF Send
  <2> QED
    BY <1>1, <1>3, <2>5, <2>6 DEF MqttTypeOK
<1>16. CASE OnDisconnect
  BY <1>1, <1>16, StartType, ZenonT(30) DEF OnDisconnect, MqttTypeOK
(* Publishing. *)
<1>17. ASSUME NEW p \in Publisher, NEW m \in Msg, BeginPublish(p, m)
       PROVE  MqttTypeOK'
  <2>1. publishing' \in [Publisher -> {<< >>} \cup (Msg \X BOOLEAN)]
    BY <1>1, <1>17 DEF BeginPublish, MqttTypeOK
  <2> QED
    BY <1>1, <1>17, <2>1 DEF BeginPublish, MqttTypeOK
<1>18. ASSUME NEW p \in Publisher, Publish(p)
       PROVE  MqttTypeOK'
  <2>1. publishing[p] \in Msg \X BOOLEAN
    BY <1>1, <1>18 DEF Publish, MqttTypeOK
  <2>2. publishing[p][1] \in Msg
    BY <2>1
  <2>3. MessagesType
    BY <1>1, <1>18, <2>2, PublishAfterType DEF Publish
  <2>4. publishing' \in [Publisher -> {<< >>} \cup (Msg \X BOOLEAN)]
    BY <1>1, <1>18 DEF Publish, MqttTypeOK
  <2> QED
    BY <1>1, <1>3, <1>18, <2>3, <2>4 DEF Publish, MqttTypeOK
<1>19. ASSUME NEW m \in Msg, Deliver(m)
       PROVE  MqttTypeOK'
  BY <1>1, <1>19 DEF Deliver, MqttTypeOK
(* Commands. *)
<1>20. ASSUME Head(net).do \in CommandTasks, net # << >>
       PROVE  Arg \in Command
  BY <1>20, Current DEF IInv
<1>21. ASSUME NEW c \in Command, Post(c)
       PROVE  MqttTypeOK'
  <2>1. inbound' \in Seq(Command)
    BY <1>1, <1>21, AppendedQueue DEF Post, MqttTypeOK
  <2> QED
    BY <1>1, <1>21, <2>1 DEF Post, MqttTypeOK
<1>22. CASE OnMessage \/ RestartRefused
  BY <1>1, <1>22 DEF OnMessage, RestartRefused, MqttTypeOK
<1>23. CASE Receive
  <2>1. Arg \in Command
    BY <1>20, <1>23 DEF Receive, Does, CommandTasks
  <2>2. processed' \in Seq(Command) /\ Len(processed') <= Window
    <3>1. CASE UNCHANGED processed
      BY <1>1, <3>1 DEF MqttTypeOK
    <3>2. CASE processed' = Remembered(Arg)
      <4>1. processed' \in Seq(Command) /\ Len(processed') \in 1 .. Window
        BY <1>1, <2>1, <3>2, RememberedType DEF MqttTypeOK
      <4> QED
        BY <4>1, MqttAssumption
    <3> QED
      BY <1>23, <3>1, <3>2 DEF Receive
  <2> QED
    BY <1>1, <1>23, <2>2 DEF Receive, MqttTypeOK
<1>24. CASE Handle
  <2>1. Arg \in Command
    BY <1>20, <1>24 DEF Handle, Does, CommandTasks
  <2> QED
    BY <1>1, <1>24, <2>1 DEF Handle, MqttTypeOK
<1>25. CASE GiveAnswer \/ AnswerAgain
  <2>1. Arg \in Command
    BY <1>20, <1>25 DEF GiveAnswer, AnswerAgain, Does, CommandTasks
  <2>2. Answer[Arg] \in Msg
    BY <2>1, MqttAssumption
  <2>3. MessagesType
    BY <1>1, <1>25, <2>2, PublishAfterType DEF GiveAnswer, AnswerAgain
  <2> QED
    BY <1>1, <1>3, <1>25, <2>3 DEF GiveAnswer, AnswerAgain, MqttTypeOK
<1>26. CASE Insist \/ RestartConnection
  <2>1. ConnectionType
    BY <1>1, <1>26, ConnectionStepType DEF Insist, RestartConnection, ConnectionType, MqttTypeOK
  <2> QED
    BY <1>1, <1>26, <2>1 DEF Insist, RestartConnection, ConnectionType, MqttTypeOK
<1>27. CASE Acknowledge
  <2>1. inbound' \in Seq(Command)
    BY <1>1, <1>27, TailOf DEF Acknowledge, MqttTypeOK
  <2> QED
    BY <1>1, <1>27, <2>1 DEF Acknowledge, MqttTypeOK
(* Restarts. *)
<1>28. CASE Reboot
  BY <1>1, <1>28 DEF Reboot, MqttTypeOK
<1>29. CASE StopAnnounces \/ StopEnds
  <2>1. announced' \in {"none", "online", "offline"}
    BY <1>1, <1>29 DEF StopAnnounces, StopEnds, MqttTypeOK
  <2> QED
    BY <1>1, <1>29, <2>1 DEF StopAnnounces, StopEnds, MqttTypeOK
<1>30. CASE StopDisconnects
  <2>1. ConnectionType
    BY <1>1, <1>30, ConnectionStepType DEF StopDisconnects
  <2> QED
    BY <1>1, <1>30, <2>1 DEF StopDisconnects, ConnectionType, MqttTypeOK
<1>31. CASE ProcessRestarts
  <2>1. /\ pending' \in Seq(Msg) /\ Len(pending') = 0 /\ DOMAIN pending' = {}
        /\ processed' \in Seq(Command) /\ Len(processed') = 0
    BY <1>31, EmptySeq DEF ProcessRestarts
  <2>2. Len(pending') <= Cap /\ Len(processed') <= Window
    BY <2>1, MqttAssumption
  <2>3. lives' \in 0 .. given.lives
    BY <1>1, <1>31, StartType DEF ProcessRestarts, MqttTypeOK
  <2>4. publishing' \in [Publisher -> {<< >>} \cup (Msg \X BOOLEAN)]
    BY <1>31 DEF ProcessRestarts
  <2>5. willDue' \in BOOLEAN
    BY <1>1, <1>31, StartType DEF ProcessRestarts
  <2> QED
    BY <1>1, <1>31, <2>1, <2>2, <2>3, <2>4, <2>5 DEF ProcessRestarts, MqttTypeOK
<1>32. CASE UNCHANGED vars
  BY <1>1, <1>32 DEF vars, MqttTypeOK
<1> QED
  BY <1>5, <1>6, <1>7, <1>8, <1>9, <1>10, <1>11, <1>12, <1>13, <1>14, <1>15, <1>16, <1>17, <1>18,
     <1>19, <1>21, <1>22, <1>23, <1>24, <1>25, <1>26, <1>27, <1>28, <1>29, <1>30, <1>31, <1>32
     DEF Next, NetStep, Callback, LoopStep, Stopping, Environment, RestartService, Reboots

---------------------------------------------------------------------------
(* A callback only runs while the manager counts as connected *)

LEMMA ConnectedNext ==
    ASSUME IInv, [Next]_vars
    PROVE  ConnectedInv'
<1>1. ConnectedInv
  BY DEF IInv
<1>2. CASE OnConnect
  BY <1>2 DEF OnConnect, ConnectedInv
<1>3. CASE OnDisconnect
  BY <1>3 DEF OnDisconnect, LoopRuns, ConnectedInv
<1>4. CASE OnMessage
  BY <1>1, <1>4 DEF OnMessage, LoopRuns, ConnectedInv
<1>5. CASE net # << >> /\ UNCHANGED connected
  BY <1>1, <1>5 DEF ConnectedInv
<1>6. CASE Callback
  <2>1. net # << >>
    BY <1>6 DEF Callback, Announce, Resubscribe, Flush, Send, Notify, Receive, Handle, GiveAnswer,
                Insist, AnswerAgain, Acknowledge, RestartConnection, RestartRefused, Reboot, Does
  <2>2. UNCHANGED connected
    BY <1>6 DEF Callback, Announce, Resubscribe, Flush, Send, Notify, Receive, Handle, GiveAnswer,
                Insist, AnswerAgain, Acknowledge, RestartConnection, RestartRefused, Reboot
  <2> QED
    BY <1>5, <2>1, <2>2
<1>7. CASE ProcessRestarts
  BY <1>7 DEF ProcessRestarts, ConnectedInv
<1>8. CASE link' # "up" /\ UNCHANGED <<net, connected>>
  BY <1>1, <1>8 DEF ConnectedInv
<1>9. CASE UNCHANGED <<link, net, manager, connected>>
  BY <1>1, <1>9 DEF ConnectedInv
<1>10. LinkLost \/ Reconnect \/ LibraryReconnects \/ ForceReconnect \/ StopDisconnects
           => link' # "up" /\ UNCHANGED <<net, connected>>
  BY DEF LinkLost, Reconnect, LibraryReconnects, ForceReconnect, StopDisconnects,
         Closes, Breaks, Redials
<1>11. CASE StopAnnounces
  BY <1>1, <1>11 DEF StopAnnounces, ConnectedInv
<1>12. CASE StopEnds
  BY <1>12 DEF StopEnds, ConnectedInv
<1>13. ReachChanges \/ BrokerForgets \/ ReconnectDecides \/ WillPublished \/ StatusArrives
           \/ (\E c \in Command : Post(c)) \/ (\E p \in Publisher, m \in Msg : BeginPublish(p, m))
           \/ (\E p \in Publisher : Publish(p)) \/ (\E m \in Msg : Deliver(m))
           => UNCHANGED <<link, net, manager, connected>>
  BY DEF ReachChanges, BrokerForgets, ReconnectDecides, WillPublished, StatusArrives, Post,
         BeginPublish, Publish, Deliver
<1>14. UNCHANGED vars => UNCHANGED <<link, net, manager, connected>>
  BY DEF vars
<1> QED
  BY <1>2, <1>3, <1>4, <1>6, <1>7, <1>8, <1>9, <1>10, <1>11, <1>12, <1>13, <1>14
     DEF Next, NetStep, LoopStep, Stopping, Environment, RestartService, Reboots

---------------------------------------------------------------------------
(* The command the thread is at *)

LEMMA InboundNext ==
    ASSUME IInv, [Next]_vars
    PROVE  InboundInv'
<1> USE DEF broker, commands
<1>1. MqttTypeOK /\ NetShape /\ InboundInv
  BY DEF IInv
<1>2. CASE UNCHANGED <<inbound, posted, handled, subscribed>> /\ (InCommand' => InCommand /\ Arg' = Arg)
  BY <1>1, <1>2 DEF InboundInv
<1>3. CASE UNCHANGED <<inbound, posted, handled, subscribed, net>>
  BY <1>2, <1>3 DEF InCommand, Arg
<1>4. CASE ConnectionStep
  <2>1. UNCHANGED <<inbound, posted, handled>>
    BY <1>4 DEF ConnectionStep, OnConnect, Announce, Resubscribe, Flush, Send, Notify
  <2>2. ~InCommand'
    BY <1>1, <1>4, ConnectionSteps
  <2> QED
    BY <1>1, <2>1, <2>2 DEF InboundInv
<1>5. CASE OnMessage
  <2>1. /\ inbound # << >> /\ 1 \in DOMAIN inbound /\ (InCommand' => Arg' = inbound[1])
        /\ UNCHANGED <<inbound, posted, subscribed, processed, handled>>
    BY <1>1, <1>5, MessageBegins
  <2> QED
    BY <1>1, <2>1 DEF InboundInv
<1>6. CASE CommandStep
  <2>1. /\ InCommand /\ (InCommand' => Arg' = Arg)
        /\ Head(net).do = "ack" => net' = << >>
    BY <1>1, <1>6, CommandSteps
  <2>2. CASE Acknowledge
    <3>1. ~InCommand'
      BY <2>1, <2>2 DEF Acknowledge, Does, InCommand
    <3>2. UNCHANGED <<posted, handled>>
      BY <2>2 DEF Acknowledge
    <3>3. CASE UNCHANGED inbound
      BY <1>1, <3>1, <3>2, <3>3 DEF InboundInv
    <3>4. CASE inbound # << >> /\ inbound' = Tail(inbound)
      <4>1. /\ Len(inbound) \in Nat \ {0} /\ DOMAIN inbound = 1 .. Len(inbound)
            /\ DOMAIN inbound' = 1 .. Len(inbound) - 1
            /\ \A i \in 1 .. Len(inbound) - 1 : inbound'[i] = inbound[i + 1]
        BY <1>1, <3>4, TailOf DEF MqttTypeOK
      <4>2. \A i \in DOMAIN inbound' : i + 1 \in DOMAIN inbound /\ inbound'[i] = inbound[i + 1]
        BY <4>1
      <4>3. \A i, j \in DOMAIN inbound' : inbound'[i] = inbound'[j] => i = j
        <5> SUFFICES ASSUME NEW i \in DOMAIN inbound', NEW j \in DOMAIN inbound',
                            inbound'[i] = inbound'[j]
                     PROVE  i = j
          OBVIOUS
        <5>1. i + 1 = j + 1
          BY <1>1, <4>2 DEF InboundInv
        <5> QED
          BY <5>1, <4>1
      <4>4. \A i \in DOMAIN inbound' : inbound'[i] \in posted'
        BY <1>1, <3>2, <4>2 DEF InboundInv
      <4> QED
        BY <1>1, <3>1, <3>2, <4>3, <4>4 DEF InboundInv
    <3> QED
      BY <2>2, <3>3, <3>4 DEF Acknowledge
  <2>3. CASE Handle
    <3>1. UNCHANGED <<inbound, posted, subscribed>> /\ handled' = handled \cup {Arg}
      BY <2>3 DEF Handle
    <3> QED
      BY <1>1, <2>1, <3>1 DEF InboundInv
  <2>4. CASE Receive \/ GiveAnswer \/ Insist \/ AnswerAgain \/ RestartConnection \/ RestartRefused
             \/ Reboot
    <3>1. UNCHANGED <<inbound, posted, subscribed, handled>>
      BY <2>4 DEF Receive, GiveAnswer, Insist, AnswerAgain, RestartConnection, RestartRefused,
                  Reboot
    <3> QED
      BY <1>2, <2>1, <3>1
  <2> QED
    BY <1>6, <2>2, <2>3, <2>4 DEF CommandStep
<1>7. CASE ProcessRestarts
  <2>1. UNCHANGED <<inbound, posted>> /\ handled' = {} /\ net' = << >>
    BY <1>7 DEF ProcessRestarts
  <2> QED
    BY <1>1, <2>1 DEF InboundInv, InCommand
<1>8. CASE BrokerForgets
  <2>1. inbound' = << >> /\ DOMAIN inbound' = {} /\ subscribed' = FALSE
            /\ UNCHANGED <<posted, handled, net>>
    BY <1>8, EmptySeq DEF BrokerForgets
  <2> QED
    BY <1>1, <2>1 DEF InboundInv, InCommand, Arg
<1>9. ASSUME NEW c \in Command, Post(c)
      PROVE  InboundInv'
  <2>1. /\ subscribed /\ c \notin posted /\ posted' = posted \cup {c}
        /\ inbound' = Append(inbound, c) /\ UNCHANGED <<handled, subscribed, net>>
    BY <1>9 DEF Post
  <2>2. /\ inbound \in Seq(Command) /\ Len(inbound) \in Nat /\ DOMAIN inbound = 1 .. Len(inbound)
        /\ inbound' \in Seq(Command) /\ Len(inbound') = Len(inbound) + 1
        /\ \A i \in 1 .. Len(inbound) : inbound'[i] = inbound[i]
        /\ inbound'[Len(inbound) + 1] = c
    BY <1>1, <2>1, AppendedQueue, LenProperties DEF MqttTypeOK
  <2>3. DOMAIN inbound' = 1 .. Len(inbound) + 1 /\ inbound' # << >>
    BY <2>2, LenProperties, EmptySeq
  <2>4. ASSUME NEW i \in DOMAIN inbound'
        PROVE  inbound'[i] \in posted' /\ (inbound'[i] = c => i = Len(inbound) + 1)
    BY <1>1, <2>1, <2>2, <2>3 DEF InboundInv
  <2>5. ASSUME NEW i \in DOMAIN inbound', NEW j \in DOMAIN inbound', inbound'[i] = inbound'[j]
        PROVE  i = j
    <3>1. CASE inbound'[i] = c
      BY <2>4, <2>5, <3>1
    <3>2. CASE inbound'[i] # c
      <4>1. i \in DOMAIN inbound /\ j \in DOMAIN inbound
        BY <2>2, <2>3, <2>5, <3>2
      <4> QED
        BY <1>1, <2>2, <2>5, <4>1 DEF InboundInv
    <3> QED
      BY <3>1, <3>2
  <2>6. InCommand => Arg = inbound'[1]
    <3> SUFFICES ASSUME InCommand
                 PROVE  Arg = inbound'[1]
      OBVIOUS
    <3>1. inbound # << >> /\ Arg = inbound[1]
      BY <1>1, <2>1 DEF InboundInv
    <3>2. 1 \in 1 .. Len(inbound)
      BY <2>2, <3>1, TailOf
    <3> QED
      BY <3>1, <3>2, <2>2
  <2> QED
    BY <1>1, <2>1, <2>3, <2>4, <2>5, <2>6 DEF InboundInv, InCommand, Arg
<1>10. ReachChanges \/ LinkLost \/ LibraryReconnects \/ ForceReconnect \/ LoopStep \/ Stopping
           \/ WillPublished \/ StatusArrives \/ OnDisconnect
           \/ (\E p \in Publisher, m \in Msg : BeginPublish(p, m))
           \/ (\E p \in Publisher : Publish(p)) \/ (\E m \in Msg : Deliver(m))
           => UNCHANGED <<inbound, posted, handled, subscribed, net>>
  BY DEF ReachChanges, LinkLost, LibraryReconnects, ForceReconnect, LoopStep,
         ReconnectDecides, Reconnect, Stopping, StopAnnounces, StopDisconnects, StopEnds,
         WillPublished, StatusArrives, OnDisconnect, BeginPublish, Publish, Deliver
<1>11. UNCHANGED vars => UNCHANGED <<inbound, posted, handled, subscribed, net>>
  BY DEF vars
<1> QED
  BY <1>3, <1>4, <1>5, <1>6, <1>7, <1>8, <1>9, <1>10, <1>11
     DEF Next, NetStep, Callback, Environment, RestartService, Reboots, ConnectionStep, CommandStep

---------------------------------------------------------------------------
(* Of the commands that were handled, only the last can come again *)

LEMMA HandledNext ==
    ASSUME IInv, [Next]_vars
    PROVE  HandledInv'
<1> USE DEF broker, commands
<1>1. MqttTypeOK /\ NetShape /\ InboundInv /\ HandledInv
  BY DEF IInv
<1>2. CASE /\ UNCHANGED <<inbound, handled, processed>> /\ ~Does("handle")'
           /\ InCommand' => InCommand /\ Arg' = Arg
  BY <1>1, <1>2 DEF HandledInv, LastHandled
<1>3. CASE UNCHANGED <<inbound, handled, processed, net>>
  BY <1>1, <1>3 DEF HandledInv, LastHandled, InCommand, Arg, Does, Ignored
<1>4. CASE ConnectionStep
  <2>1. UNCHANGED <<inbound, processed, handled>>
    BY <1>4 DEF ConnectionStep, OnConnect, Announce, Resubscribe, Flush, Send, Notify
  <2>2. ~InCommand' /\ ~Does("handle")'
    BY <1>1, <1>4, ConnectionSteps
  <2> QED
    BY <1>2, <2>1, <2>2
<1>5. CASE OnMessage
  <2>1. /\ inbound # << >> /\ 1 \in DOMAIN inbound /\ ~Does("handle")'
        /\ InCommand' => Arg' = inbound[1]
        /\ UNCHANGED <<inbound, posted, subscribed, processed, handled>>
    BY <1>1, <1>5, MessageBegins
  <2> QED
    BY <1>1, <2>1 DEF HandledInv, LastHandled
<1>6. CASE CommandStep
  <2>1. /\ Arg \in Command /\ InCommand /\ (InCommand' => Arg' = Arg)
        /\ Does("handle")' => /\ processed' = Remembered(Arg) /\ Arg \notin Range(processed)
                              /\ ~Ignored(Arg) /\ UNCHANGED handled
        /\ Head(net).do = "ack" => net' = << >>
    BY <1>1, <1>6, CommandSteps
  <2>2. \A i \in DOMAIN inbound : inbound # << >> /\ Arg = inbound[1]
    <3>1. \A i \in DOMAIN inbound : inbound # << >>
      BY EmptySeq
    <3> QED
      BY <3>1, <1>1, <2>1 DEF InboundInv
  <2>3. \A c : LastHandled(c) => c \in Range(processed)
    <3> SUFFICES ASSUME NEW c, LastHandled(c)
                 PROVE  c \in Range(processed)
      OBVIOUS
    <3>1. Len(processed) \in Nat /\ DOMAIN processed = 1 .. Len(processed)
      BY <1>1, LenProperties DEF MqttTypeOK
    <3>2. Len(processed) \in DOMAIN processed /\ c = processed[Len(processed)]
      BY <3>1 DEF LastHandled
    <3> QED
      BY <3>2 DEF Range
  <2>4. CASE Receive /\ processed' = Remembered(Arg) /\ Arg \notin Range(processed) /\ ~Ignored(Arg)
    <3>1. UNCHANGED <<inbound, handled>>
      BY <2>4 DEF Receive
    <3>2. Arg \notin handled
      BY <1>1, <2>1, <2>3, <2>4 DEF HandledInv
    <3>3. /\ Len(processed') > 0 /\ processed'[Len(processed')] = Arg
      <4>1. Len(processed') \in 1 .. Window /\ processed'[Len(processed')] = Arg
        BY <1>1, <2>1, <2>4, RememberedType DEF MqttTypeOK
      <4> QED
        BY <4>1, MqttAssumption
    <3>4. Does("handle")' => Arg' = Arg
      <4>1. Does("handle")' => InCommand'
        BY DEF Does, InCommand, CommandTasks
      <4> QED
        BY <4>1, <2>1
    <3>5. ~Ignored(Arg) /\ (Arg' = Arg => ~Ignored(Arg)')
      BY <2>4 DEF Ignored
    <3>6. \A i \in DOMAIN inbound' : inbound'[i] \notin handled'
      BY <1>1, <2>2, <3>1, <3>2 DEF HandledInv
    <3> QED
      BY <2>1, <3>1, <3>2, <3>3, <3>4, <3>5, <3>6 DEF HandledInv, LastHandled
  <2>5. CASE UNCHANGED <<inbound, handled, processed>>
    <3>1. processed' = Remembered(Arg) => Arg \in Range(processed)
      <4> SUFFICES ASSUME processed' = Remembered(Arg)
                   PROVE  Arg \in Range(processed)
        OBVIOUS
      <4>1. Len(processed) \in 1 .. Window /\ processed[Len(processed)] = Arg
        BY <1>1, <2>1, <2>5, RememberedType DEF MqttTypeOK
      <4>2. LastHandled(Arg)
        BY <4>1, MqttAssumption DEF LastHandled
      <4> QED
        BY <2>3, <4>2
    <3> QED
      BY <1>2, <2>1, <2>5, <3>1
  <2>6. CASE Handle
    <3>1. UNCHANGED <<inbound, processed>> /\ handled' = handled \cup {Arg} /\ LastHandled(Arg)
      BY <1>1, <2>6 DEF Handle, HandledInv
    <3>2. ~Does("handle")'
      BY <2>1, <2>3, <3>1
    <3>3. \A i \in DOMAIN inbound : inbound[i] \in handled' => i = 1 /\ LastHandled(inbound[i])
      <4> SUFFICES ASSUME NEW i \in DOMAIN inbound, inbound[i] \in handled'
                   PROVE  i = 1 /\ LastHandled(inbound[i])
        OBVIOUS
      <4>1. CASE inbound[i] \in handled
        BY <1>1, <4>1 DEF HandledInv
      <4>2. CASE inbound[i] = Arg
        <5>1. inbound # << >> /\ 1 \in DOMAIN inbound /\ inbound[1] = Arg
          BY <1>1, <2>2, TailOf DEF MqttTypeOK
        <5>2. i = 1
          BY <1>1, <4>2, <5>1 DEF InboundInv
        <5> QED
          BY <3>1, <4>2, <5>2
      <4> QED
        BY <3>1, <4>1, <4>2
    <3> QED
      BY <2>1, <3>1, <3>2, <3>3 DEF HandledInv, LastHandled
  <2>7. CASE Acknowledge
    <3>1. net' = << >> /\ UNCHANGED <<processed, handled>>
      BY <2>1, <2>7 DEF Acknowledge, Does
    <3>2. ~InCommand' /\ ~Does("handle")'
      BY <3>1 DEF InCommand, Does
    <3>3. CASE UNCHANGED inbound
      BY <1>2, <3>1, <3>2, <3>3
    <3>4. CASE inbound # << >> /\ inbound' = Tail(inbound)
      <4>1. /\ Len(inbound) \in Nat \ {0} /\ DOMAIN inbound = 1 .. Len(inbound)
            /\ DOMAIN inbound' = 1 .. Len(inbound) - 1
            /\ \A i \in 1 .. Len(inbound) - 1 : inbound'[i] = inbound[i + 1]
        BY <1>1, <3>4, TailOf DEF MqttTypeOK
      <4>2. ASSUME NEW i \in DOMAIN inbound'
            PROVE  inbound'[i] \notin handled'
        <5>1. i + 1 \in DOMAIN inbound /\ i + 1 # 1 /\ inbound'[i] = inbound[i + 1]
          BY <4>1
        <5> QED
          BY <5>1, <3>1, <1>1 DEF HandledInv
      <4> QED
        BY <3>2, <4>2 DEF HandledInv
    <3> QED
      BY <2>7, <3>3, <3>4 DEF Acknowledge
  <2>8. CASE Receive
    <3>1. UNCHANGED <<inbound, handled>>
      BY <2>8 DEF Receive
    <3> QED
      BY <2>4, <2>5, <2>8, <3>1 DEF Receive
  <2>9. CASE GiveAnswer \/ Insist \/ AnswerAgain \/ RestartConnection \/ RestartRefused \/ Reboot
    <3>1. UNCHANGED <<inbound, handled, processed>>
      BY <2>9 DEF GiveAnswer, Insist, AnswerAgain, RestartConnection, RestartRefused, Reboot
    <3> QED
      BY <2>5, <3>1
  <2> QED
    BY <1>6, <2>6, <2>7, <2>8, <2>9 DEF CommandStep
<1>7. CASE ProcessRestarts
  <2>1. handled' = {} /\ net' = << >>
    BY <1>7 DEF ProcessRestarts
  <2> QED
    BY <2>1 DEF HandledInv, InCommand, Does
<1>8. CASE BrokerForgets
  <2>1. DOMAIN inbound' = {} /\ UNCHANGED <<processed, handled, net>>
    BY <1>8, EmptySeq DEF BrokerForgets
  <2> QED
    BY <1>1, <2>1 DEF HandledInv, LastHandled, InCommand, Arg, Does, Ignored
<1>9. ASSUME NEW c \in Command, Post(c)
      PROVE  HandledInv'
  <2>1. /\ c \notin posted /\ inbound' = Append(inbound, c)
        /\ UNCHANGED <<handled, processed, net>>
    BY <1>9 DEF Post
  <2>2. /\ Len(inbound) \in Nat /\ DOMAIN inbound = 1 .. Len(inbound)
        /\ DOMAIN inbound' = 1 .. Len(inbound) + 1
        /\ \A i \in 1 .. Len(inbound) : inbound'[i] = inbound[i]
        /\ inbound'[Len(inbound) + 1] = c
    BY <1>1, <2>1, AppendedQueue, LenProperties DEF MqttTypeOK
  <2>3. c \notin handled
    BY <1>1, <2>1 DEF InboundInv
  <2>4. \A i \in DOMAIN inbound' : inbound'[i] \in handled' => i = 1 /\ LastHandled(inbound'[i])
    <3> SUFFICES ASSUME NEW i \in DOMAIN inbound', inbound'[i] \in handled
                 PROVE  i = 1 /\ LastHandled(inbound'[i])
      BY <2>1
    <3>1. i \in DOMAIN inbound /\ inbound'[i] = inbound[i]
      BY <2>2, <2>3
    <3> QED
      BY <1>1, <3>1 DEF HandledInv
  <2> QED
    BY <1>1, <2>1, <2>4 DEF HandledInv, LastHandled, InCommand, Arg, Does, Ignored
<1>10. ReachChanges \/ LinkLost \/ LibraryReconnects \/ ForceReconnect \/ LoopStep \/ Stopping
           \/ WillPublished \/ StatusArrives \/ OnDisconnect
           \/ (\E p \in Publisher, m \in Msg : BeginPublish(p, m))
           \/ (\E p \in Publisher : Publish(p)) \/ (\E m \in Msg : Deliver(m))
           => UNCHANGED <<inbound, handled, processed, net>>
  BY DEF ReachChanges, LinkLost, LibraryReconnects, ForceReconnect, LoopStep,
         ReconnectDecides, Reconnect, Stopping, StopAnnounces, StopDisconnects, StopEnds,
         WillPublished, StatusArrives, OnDisconnect, BeginPublish, Publish, Deliver
<1>11. UNCHANGED vars => UNCHANGED <<inbound, handled, processed, net>>
  BY DEF vars
<1> QED
  BY <1>3, <1>4, <1>5, <1>6, <1>7, <1>8, <1>9, <1>10, <1>11
     DEF Next, NetStep, Callback, Environment, RestartService, Reboots, ConnectionStep, CommandStep

---------------------------------------------------------------------------
(* Theorems of the specification *)

LEMMA IInvInit == Init => IInv
<1> SUFFICES ASSUME Init
             PROVE  IInv
  OBVIOUS
<1>1. MqttTypeOK
  BY TypeInit
<1>2. /\ net = << >> /\ DOMAIN net = {} /\ handled = {}
      /\ DOMAIN inbound = {} /\ inbound = << >> /\ link = "down"
  BY EmptySeq DEF Init
<1>3. NetShape
  BY <1>2, EmptySeq DEF NetShape, ForConnection, Does
<1>4. InboundInv /\ HandledInv
  BY <1>2 DEF InboundInv, HandledInv, InCommand, Does
<1>5. ConnectedInv
  BY <1>2 DEF ConnectedInv
<1> QED
  BY <1>1, <1>3, <1>4, <1>5 DEF IInv

LEMMA IInvNext == IInv /\ [Next]_vars => IInv'
<1> SUFFICES ASSUME IInv, [Next]_vars
             PROVE  IInv'
  OBVIOUS
<1>1. MqttTypeOK /\ NetShape
  BY DEF IInv
<1>2. MqttTypeOK' /\ NetShape'
  BY <1>1, TypeNext, ShapeNext
<1>3. ConnectedInv'
  BY ConnectedNext
<1>4. InboundInv' /\ HandledInv'
  BY InboundNext, HandledNext
<1> QED
  BY <1>2, <1>3, <1>4 DEF IInv

LEMMA IInvAlways == Spec => []IInv
<1>1. Init => IInv
  BY IInvInit
<1>2. IInv /\ [Next]_vars => IInv'
  BY IInvNext
<1> QED
  BY <1>1, <1>2, PTL DEF Spec

\* Every variable of the manager keeps its type: in particular _pending_messages never holds two
\* messages of a topic, nor more than max_pending_messages, and no more command ids are
\* remembered than the window holds.
THEOREM MqttTypeCorrect == Spec => []MqttTypeOK
<1>1. IInv => MqttTypeOK
  BY DEF IInv
<1> QED
  BY <1>1, IInvAlways, PTL

\* A command with an id is handed to its handler at most once while the process lives, however
\* often its topic matches and the broker sends it again, and never if it carries the id of
\* another locker and that is checked.
THEOREM CommandsHandledOnce == Spec => []HandledOnce
<1>1. IInv => HandledOnce
  BY DEF IInv, HandledInv, HandledOnce
<1> QED
  BY <1>1, IInvAlways, PTL

\* The handler of a command runs on the only thread that could make a connection; it never has to
\* wait for one, since the manager counts as connected as long as the handler runs.
THEOREM HandlersNeverWait == Spec => []HandlerNeverWaits
<1>1. IInv => HandlerNeverWaits
  BY DEF IInv, ConnectedInv, HandlerNeverWaits, Does
<1> QED
  BY <1>1, IInvAlways, PTL

---------------------------------------------------------------------------
(* The manager implements Outbox *)

LEMMA ClientKeeps ==
    ASSUME NEW m, NEW ok \in BOOLEAN, ClientTakes(m, ok)
    PROVE  store' \in {store, store \cup {m}} /\ (ok => store' = store \cup {m})
BY DEF ClientTakes

\* A message goes to the library, or to the queue, or to both.
LEMMA Dispatched ==
    ASSUME MqttTypeOK, NEW m \in Msg, NEW ok \in BOOLEAN,
           ClientTakes(m, ok) \/ (~ok /\ UNCHANGED store),
           IF ok THEN UNCHANGED pending ELSE QueuePublish(m)
    PROVE  O!Dispatch(m)
<1>1. store' \in {store, store \cup {m}} /\ (ok => store' = store \cup {m})
  BY ClientKeeps
<1>2. CASE ok
  BY <1>1, <1>2 DEF O!Dispatch, Range
<1>3. CASE ~ok
  <2>1. O!Enqueue(m)
    BY <1>3, QueueTypeOK, Queued
  <2> QED
    BY <1>1, <2>1 DEF O!Dispatch
<1> QED
  BY <1>2, <1>3

\* publish() accepts its message.
LEMMA PublishAccepts ==
    ASSUME MqttTypeOK, NEW m \in Msg, NEW saw, NEW ok \in BOOLEAN,
           PublishAfter(m, saw, ok), InHand' = InHand, UNCHANGED lives
    PROVE  O!Accept(m)
<1>1. ClientTakes(m, ok) \/ (~ok /\ UNCHANGED store)
  BY DEF PublishAfter
<1>2. IF ok THEN UNCHANGED pending ELSE QueuePublish(m)
  BY DEF PublishAfter
<1>3. O!Dispatch(m)
  BY <1>1, <1>2, Dispatched
<1> QED
  BY <1>3 DEF O!Accept, PublishAfter

\* The flush takes a message from the queue, or ends.
LEMMA FlushTakes ==
    ASSUME IInv, Flush
    PROVE  [O!Next]_(O!outbox)
<1>1. MqttTypeOK /\ NetShape /\ NetShape'
  BY ConnectionSteps DEF IInv, ConnectionStep
<1>2. /\ InHand = IF Does("send") THEN {Arg} ELSE {}
      /\ InHand' = IF Does("send")' THEN {Arg'} ELSE {}
  BY <1>1, InHandIs, InHandWillBe
<1>3. InHand = {} /\ UNCHANGED <<store, accepted, delivered, lives>>
  BY <1>2 DEF Flush, Does, bounds
<1>4. net # << >> /\ Head(net).do \in ConnectTasks
  BY DEF Flush, Does, ConnectTasks
<1>5. CASE Done /\ UNCHANGED pending
  <2>1. InHand' = {}
    BY <1>1, <1>2, <1>4, <1>5, Current, ConnectionGoes
  <2> QED
    BY <1>3, <1>5, <2>1 DEF O!outbox, Range
<1>6. CASE /\ pending # << >> /\ pending' = Tail(pending)
           /\ Goes(<<With("send", Head(pending)), Task("flush")>>)
  <2>1. OneOfEach(pending)
    BY <1>1, QueueTypeOK
  <2>2. Head(pending) \in Range(pending) /\ Head(pending) \in Msg
    BY <1>6, <2>1, RangeTail, TailOf DEF OneOfEach
  <2>3. Range(pending') = Range(pending) \ {Head(pending)}
    BY <1>6, <2>1, Oldest
  <2>4. InHand' = {Head(pending)}
    BY <1>1, <1>2, <1>4, <1>6, <2>2, Current, FlushGoes
  <2>5. O!Take(Head(pending))
    BY <1>3, <2>2, <2>3, <2>4 DEF O!Take
  <2> QED
    BY <2>2, <2>5 DEF O!Next
<1> QED
  BY <1>5, <1>6 DEF Flush

\* The message that was taken is sent, or queued again.
LEMMA SendRetries ==
    ASSUME IInv, Send
    PROVE  O!Next
<1>1. MqttTypeOK /\ NetShape /\ NetShape'
  BY ConnectionSteps DEF IInv, ConnectionStep
<1>2. /\ InHand = IF Does("send") THEN {Arg} ELSE {}
      /\ InHand' = IF Does("send")' THEN {Arg'} ELSE {}
  BY <1>1, InHandIs, InHandWillBe
<1>3. Does("send") /\ ~Flush
  BY DEF Send, Does, Flush
<1>4. ~Does("send")'
  BY <1>1, <1>3, ConnectionSteps DEF ConnectionStep
<1>5. InHand = {Arg} /\ InHand' = {} /\ Arg \in Msg
  BY <1>1, <1>2, <1>3, <1>4, Current DEF Does
<1>6. PICK m \in Msg : m = Arg
  BY <1>5
<1>7. PICK ok \in BOOLEAN : /\ ClientTakes(m, ok)
                            /\ IF ok THEN Done /\ UNCHANGED pending
                               ELSE QueuePublish(m) /\ net' = Tail(Tail(net))
  BY <1>6 DEF Send
<1>8. O!Dispatch(m)
  BY <1>1, <1>7, Dispatched
<1>9. O!Retry(m)
  BY <1>5, <1>6, <1>8 DEF O!Retry, Send, bounds
<1> QED
  BY <1>9 DEF O!Next

\* Every step of the manager is a step of Outbox, or does not concern it.
LEMMA OutboxNext ==
    ASSUME IInv, [Next]_vars
    PROVE  [O!Next]_(O!outbox)
<1> USE DEF messages, bounds
<1>1. MqttTypeOK /\ NetShape /\ NetShape'
  BY ShapeNext DEF IInv
<1>2. /\ InHand = IF Does("send") THEN {Arg} ELSE {}
      /\ InHand' = IF Does("send")' THEN {Arg'} ELSE {}
  BY <1>1, InHandIs, InHandWillBe
<1>3. CASE UNCHANGED <<pending, store, accepted, delivered, lives>> /\ InHand' = InHand
  BY <1>3 DEF O!outbox, Range
<1>4. CASE UNCHANGED <<pending, store, accepted, delivered, lives, net>>
  BY <1>3, <1>4 DEF InHand
<1>5. CASE Flush \/ Send
  BY <1>5, FlushTakes, SendRetries
<1>6. CASE OnConnect \/ Announce \/ Resubscribe \/ Notify
  <2>1. ~Does("send")
    BY <1>6 DEF OnConnect, LoopRuns, Announce, Resubscribe, Notify, Does
  <2>2. ~Does("send")'
    <3>1. CASE OnConnect
      BY <3>1, ConnectionBegins DEF OnConnect
    <3>2. CASE Announce \/ Resubscribe \/ Notify
      <4>1. net # << >> /\ Head(net).do \in ConnectTasks /\ Done
        BY <3>2 DEF Announce, Resubscribe, Notify, Does, ConnectTasks
      <4> QED
        BY <1>1, <4>1, Current, ConnectionGoes
    <3> QED
      BY <1>6, <3>1, <3>2
  <2>3. UNCHANGED <<pending, store, accepted, delivered, lives>>
    BY <1>6 DEF OnConnect, Announce, Resubscribe, Notify
  <2> QED
    BY <1>2, <1>3, <2>1, <2>2, <2>3
<1>7. CASE OnMessage
  <2>1. ~Does("send") /\ ~Does("send")'
    BY <1>1, <1>7, MessageBegins DEF OnMessage, LoopRuns, Does
  <2> QED
    BY <1>2, <1>3, <1>7, <2>1 DEF OnMessage
<1>8. CASE CommandStep
  <2>1. Arg \in Command /\ InCommand /\ ~Does("send")'
    BY <1>1, <1>8, CommandSteps
  <2>2. InHand = {} /\ InHand' = {}
    BY <1>2, <2>1 DEF InCommand, Does, CommandTasks
  <2>3. CASE GiveAnswer \/ AnswerAgain
    <3>1. Answer[Arg] \in Msg /\ UNCHANGED lives
      BY <2>1, <2>3, MqttAssumption DEF GiveAnswer, AnswerAgain
    <3>2. PICK m \in Msg : m = Answer[Arg]
      BY <3>1
    <3>3. \E ok \in BOOLEAN : PublishAfter(m, connected, ok)
      BY <2>3, <3>2 DEF GiveAnswer, AnswerAgain
    <3>4. O!Accept(m)
      BY <1>1, <2>2, <3>1, <3>3, PublishAccepts
    <3> QED
      BY <3>4 DEF O!Next
  <2>4. CASE ~(GiveAnswer \/ AnswerAgain)
    <3>1. UNCHANGED <<pending, store, accepted, delivered, lives>>
      BY <1>8, <2>4 DEF CommandStep, Receive, Handle, Insist, Acknowledge, RestartConnection,
                        RestartRefused, Reboot
    <3> QED
      BY <1>3, <2>2, <3>1
  <2> QED
    BY <2>3, <2>4
<1>9. ASSUME NEW p \in Publisher, Publish(p)
      PROVE  O!Next
  <2>1. publishing[p] \in Msg \X BOOLEAN
    BY <1>1, <1>9 DEF Publish, MqttTypeOK
  <2>2. PICK m \in Msg : m = publishing[p][1]
    BY <2>1
  <2>3. PICK saw : saw = publishing[p][2]
    OBVIOUS
  <2>4. (\E ok \in BOOLEAN : PublishAfter(m, saw, ok)) /\ UNCHANGED <<lives, net>>
    BY <1>9, <2>2, <2>3 DEF Publish
  <2>5. InHand' = InHand
    BY <2>4 DEF InHand
  <2>6. O!Accept(m)
    BY <1>1, <2>4, <2>5, PublishAccepts
  <2> QED
    BY <2>6 DEF O!Next
<1>10. ASSUME NEW m \in Msg, Deliver(m)
       PROVE  [O!Next]_(O!outbox)
  <2>1. /\ m \in store /\ store' = store \ {m} /\ delivered' = delivered \cup {m}
        /\ UNCHANGED <<pending, accepted, lives, net>>
    BY <1>10 DEF Deliver
  <2>2. InHand' = InHand /\ Range(pending') = Range(pending)
    BY <2>1 DEF InHand, Range
  <2> QED
    BY <2>1, <2>2 DEF O!Next, O!Deliver
<1>11. CASE ProcessRestarts
  <2>1. /\ lives > 0 /\ lives' = lives - 1 /\ accepted' = {} /\ delivered' = {}
        /\ pending' = << >> /\ store' = {} /\ net' = << >>
    BY <1>11 DEF ProcessRestarts
  <2>2. Range(pending') = {} /\ InHand' = {}
    BY <2>1 DEF Range, InHand
  <2> QED
    BY <2>1, <2>2 DEF O!Next, O!Restart
<1>12. ReachChanges \/ LinkLost \/ BrokerForgets \/ LibraryReconnects \/ ForceReconnect
           \/ LoopStep \/ Stopping \/ WillPublished \/ StatusArrives \/ OnDisconnect
           \/ (\E c \in Command : Post(c)) \/ (\E p \in Publisher, m \in Msg : BeginPublish(p, m))
           => UNCHANGED <<pending, store, accepted, delivered, lives, net>>
  BY DEF ReachChanges, LinkLost, BrokerForgets, LibraryReconnects, ForceReconnect, LoopStep,
         ReconnectDecides, Reconnect, Stopping, StopAnnounces, StopDisconnects, StopEnds,
         WillPublished, StatusArrives, OnDisconnect, Post, BeginPublish
<1>13. UNCHANGED vars => UNCHANGED <<pending, store, accepted, delivered, lives, net>>
  BY DEF vars
<1> QED
  BY <1>4, <1>5, <1>6, <1>7, <1>8, <1>9, <1>10, <1>11, <1>12, <1>13
     DEF Next, NetStep, Callback, Environment, RestartService, Reboots, CommandStep

LEMMA OutboxInit == Init => O!Init
<1> SUFFICES ASSUME Init
             PROVE  O!Init
  OBVIOUS
<1>1. given.lives \in Nat
  BY MqttAssumption DEF Init
<1>2. Range(pending) = {} /\ InHand = {}
  BY DEF Init, Range, InHand
<1> QED
  BY <1>1, <1>2 DEF Init, O!Init

\* What publish() accepts is delivered, or kept while the process lives, until another message of
\* its topic is queued after it or it has to make room in a full queue, whatever the connection does
\* and however publishers, callbacks and the flush of the queue interleave.  What is queued after
\* it is newer, but for a message the flush took out before and could not send.
THEOREM ManagerImplementsOutbox == Spec => KeepsMessages
<1>1. Init => O!Init
  BY OutboxInit
<1>2. IInv /\ [Next]_vars => [O!Next]_(O!outbox)
  BY OutboxNext
<1> QED
  BY <1>1, <1>2, IInvAlways, PTL DEF Spec, KeepsMessages, O!Spec
=============================================================================
