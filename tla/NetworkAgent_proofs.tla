--------------------------- MODULE NetworkAgent_proofs ---------------------------
(***************************************************************************)
(* Types, the command lock of the network agent, and who is to give back   *)
(* what keeps others out: whatever the threads, the air and BLE do, for    *)
(* every set of networks and starts.                                       *)
(***************************************************************************)
EXTENDS NetworkAgent, FiniteSetTheorems, TLAPS

(* The calls of whoever holds the command lock.  After a closing one nothing of them remains. *)
Closing == {"tried", "release", "answered", "late", "failed", "answer"}
Owned   == Closing \cup {"drop", "join", "fell back"}

\* A phone's request makes these calls only, and so never touches the lock.
OfPhone == {"drop", "join", "response", "provisioned", "saw", "judge", "hold", "ensure",
            "start BLE", "BLE started", "stop BLE", "stop server", "restart BLE"}
OfThread(t) == IF t = "phone" THEN OfPhone ELSE Task

\* Calls about a network name one.
AboutNet == {"drop", "join", "try", "tried", "lock", "answered", "late", "fell back", "response",
             "provisioned", "judge", "hold"}

Sound(t, c) == c \in Calls /\ c.do \in OfThread(t) /\ (c.do \in AboutNet => c.net \in Net)

Owns(s)   == \E i \in DOMAIN s : s[i].do \in Owned
Closes(s) == \E i \in DOMAIN s : s[i].do \in Closing

\* The calls a thread may have before it: an activation passes its outcome to the next call.
Fits(t, s) ==
    /\ s \in Seq(Calls)
    /\ \A i \in DOMAIN s : Sound(t, s[i])
    /\ \A i \in DOMAIN s : s[i].do \in {"drop", "join"} => i + 1 \in DOMAIN s
    /\ \A i, j \in DOMAIN s : i < j /\ s[i].do \in Closing => s[j].do \notin Owned

WifiType  == /\ given \in Start /\ air \in [Net -> Air] /\ assoc \in Net \cup {NoNet, Setup}
             /\ autoJoin \in BOOLEAN /\ saved \subseteq Net
StateType == /\ networkState \in NetworkState /\ bleActive \in BOOLEAN /\ manual \in BOOLEAN
             /\ recovering \in BOOLEAN
RestType  == /\ backoff \subseteq Net /\ roamHold \in Net \cup {NoNet}
             /\ lastCheck \in {"stale", "online", "offline"} /\ server \in Server /\ events \in Nat
LockType  == commandLock \in Thread \cup {"free"}

\* The inductive part: every thread's calls fit, who makes calls of the lock holds it, and the
\* recovery thread has nothing to do when none is in progress.
TodoInv ==
    /\ DOMAIN todo = Thread /\ todo = [t \in Thread |-> todo[t]]
    /\ \A t \in Thread : Fits(t, todo[t])
    /\ \A t \in Thread \ {"phone"} : Owns(todo[t]) => commandLock = t
    /\ todo["recovery"] # << >> => recovering

NetworkInv == WifiType /\ StateType /\ RestType /\ LockType /\ TodoInv

LEMMA InvType == NetworkInv => NetworkTypeOK /\ OneNetworkCommand
<1> SUFFICES ASSUME NetworkInv
             PROVE  NetworkTypeOK /\ OneNetworkCommand
  OBVIOUS
<1>1. todo \in [Thread -> Seq(Calls)]
  BY DEF NetworkInv, TodoInv, Fits
<1>2. ASSUME NEW t \in Thread \ {"phone"}, NEW i \in DOMAIN todo[t],
             todo[t][i].do \in {"drop", "join", "tried", "fell back"}
      PROVE  commandLock = t
  BY <1>2 DEF NetworkInv, TodoInv, Owns, Owned, Closing
<1>3. OneNetworkCommand
  BY <1>2 DEF OneNetworkCommand
<1>4. NetworkTypeOK
  BY <1>1 DEF NetworkInv, WifiType, StateType, RestType, LockType, NetworkTypeOK
<1> QED
  BY <1>3, <1>4

---------------------------------------------------------------------------
(* Sequences of calls *)

LEMMA CallType ==
    ASSUME NEW task \in Task
    PROVE  Call(task) \in Calls
BY DEF Call, Calls, Source

LEMMA CallOnType ==
    ASSUME NEW task \in Task, NEW n \in Net \cup {NoNet, Setup}, NEW source \in Source
    PROVE  /\ CallOn(task, n, source) \in Calls
           /\ CallOn(task, n, source).do = task /\ CallOn(task, n, source).net = n
BY DEF CallOn, Call, Calls

LEMMA FitsEmpty ==
    ASSUME NEW t
    PROVE  Fits(t, << >>) /\ ~Owns(<< >>)
BY DEF Fits, Owns

LEMMA FitsOne ==
    ASSUME NEW t, NEW c, Sound(t, c), c.do \notin {"drop", "join"}
    PROVE  Fits(t, <<c>>) /\ (Owns(<<c>>) <=> c.do \in Owned)
BY DEF Fits, Owns, Sound

LEMMA FitsTail ==
    ASSUME NEW t, NEW s, Fits(t, s), s # << >>
    PROVE  /\ Fits(t, Tail(s)) /\ Sound(t, Head(s))
           /\ Owns(Tail(s)) => Owns(s)
           /\ Head(s).do \in Owned => Owns(s)
           /\ Head(s).do \in Closing => ~Owns(Tail(s))
           /\ Head(s).do \in {"drop", "join"} => Tail(s) # << >>
<1>1. s \in Seq(Calls) /\ Len(s) \in Nat \ {0} /\ DOMAIN s = 1 .. Len(s)
  BY DEF Fits
<1>2. /\ Tail(s) \in Seq(Calls) /\ DOMAIN Tail(s) = 1 .. (Len(s) - 1) /\ Head(s) = s[1]
      /\ \A i \in DOMAIN Tail(s) : i + 1 \in DOMAIN s /\ Tail(s)[i] = s[i + 1]
  BY <1>1
<1>3. Fits(t, Tail(s))
  <2>1. \A i \in DOMAIN Tail(s) : Sound(t, Tail(s)[i])
    BY <1>2 DEF Fits
  <2>2. ASSUME NEW i \in DOMAIN Tail(s), Tail(s)[i].do \in {"drop", "join"}
        PROVE  i + 1 \in DOMAIN Tail(s)
    BY <1>1, <1>2, <2>2 DEF Fits
  <2>3. ASSUME NEW i \in DOMAIN Tail(s), NEW j \in DOMAIN Tail(s), i < j, Tail(s)[i].do \in Closing
        PROVE  Tail(s)[j].do \notin Owned
    <3>1. i + 1 \in DOMAIN s /\ j + 1 \in DOMAIN s /\ i + 1 < j + 1
      BY <1>1, <1>2, <2>3
    <3> QED
      BY <1>2, <2>3, <3>1 DEF Fits
  <2> QED
    BY <1>2, <2>1, <2>2, <2>3 DEF Fits
<1>4. Sound(t, Head(s)) /\ 1 \in DOMAIN s
  BY <1>1, <1>2 DEF Fits
<1>5. Owns(Tail(s)) => Owns(s)
  BY <1>2 DEF Owns
<1>6. Head(s).do \in Owned => Owns(s)
  BY <1>2, <1>4 DEF Owns
<1>7. ASSUME Head(s).do \in Closing, NEW i \in DOMAIN Tail(s)
      PROVE  Tail(s)[i].do \notin Owned
  <2>1. 1 < i + 1 /\ i + 1 \in DOMAIN s
    BY <1>1, <1>2
  <2> QED
    BY <1>2, <1>4, <1>7, <2>1 DEF Fits
<1>8. Head(s).do \in {"drop", "join"} => Tail(s) # << >>
  <2>1. Head(s).do \in {"drop", "join"} => 1 + 1 \in DOMAIN s
    BY <1>2, <1>4 DEF Fits
  <2>2. 1 + 1 \in DOMAIN s => 1 \in DOMAIN Tail(s)
    BY <1>1, <1>2
  <2>3. Tail(s) = << >> => DOMAIN Tail(s) = {}
    OBVIOUS
  <2> QED
    BY <2>1, <2>2, <2>3
<1> QED
  BY <1>3, <1>4, <1>5, <1>6, <1>7, <1>8 DEF Owns

LEMMA FitsJoin ==
    ASSUME NEW t, NEW a, NEW b, Fits(t, a), Fits(t, b), ~Closes(a) \/ ~Owns(b)
    PROVE  Fits(t, a \o b) /\ (Owns(a \o b) <=> Owns(a) \/ Owns(b))
<1> DEFINE s == a \o b
<1>1. /\ a \in Seq(Calls) /\ b \in Seq(Calls) /\ s \in Seq(Calls)
      /\ Len(a) \in Nat /\ Len(b) \in Nat /\ Len(s) = Len(a) + Len(b)
      /\ DOMAIN a = 1 .. Len(a) /\ DOMAIN b = 1 .. Len(b) /\ DOMAIN s = 1 .. Len(s)
  BY DEF Fits
<1>2. \A i \in DOMAIN a : i \in DOMAIN s /\ s[i] = a[i]
  BY <1>1
<1>3. \A i \in DOMAIN b : Len(a) + i \in DOMAIN s /\ s[Len(a) + i] = b[i]
  BY <1>1
<1>4. \A i \in DOMAIN s : \/ i \in DOMAIN a /\ s[i] = a[i]
                          \/ i - Len(a) \in DOMAIN b /\ s[i] = b[i - Len(a)]
  BY <1>1
<1> HIDE DEF s
<1>5. \A i \in DOMAIN s : Sound(t, s[i])
  BY <1>4 DEF Fits
<1>6. ASSUME NEW i \in DOMAIN s, s[i].do \in {"drop", "join"}
      PROVE  i + 1 \in DOMAIN s
  <2>1. CASE i \in DOMAIN a /\ s[i] = a[i]
    BY <1>1, <1>2, <1>6, <2>1 DEF Fits
  <2>2. CASE i - Len(a) \in DOMAIN b /\ s[i] = b[i - Len(a)]
    <3>1. i - Len(a) + 1 \in DOMAIN b
      BY <1>6, <2>2 DEF Fits
    <3> QED
      BY <1>1, <3>1
  <2> QED
    BY <1>4, <2>1, <2>2
<1>7. ASSUME NEW i \in DOMAIN s, NEW j \in DOMAIN s, i < j, s[i].do \in Closing
      PROVE  s[j].do \notin Owned
  <2>1. CASE i \in DOMAIN a /\ s[i] = a[i]
    <3>1. ~Owns(b)
      BY <1>7, <2>1 DEF Closes
    <3>2. CASE j \in DOMAIN a /\ s[j] = a[j]
      BY <1>7, <2>1, <3>2 DEF Fits
    <3>3. CASE j - Len(a) \in DOMAIN b /\ s[j] = b[j - Len(a)]
      BY <3>1, <3>3 DEF Owns
    <3> QED
      BY <1>4, <3>2, <3>3
  <2>2. CASE i - Len(a) \in DOMAIN b /\ s[i] = b[i - Len(a)]
    <3>1. j - Len(a) \in DOMAIN b /\ s[j] = b[j - Len(a)] /\ i - Len(a) < j - Len(a)
      BY <1>1, <1>4, <1>7, <2>2
    <3> QED
      BY <1>7, <2>2, <3>1 DEF Fits
  <2> QED
    BY <1>4, <2>1, <2>2
<1>8. Owns(s) <=> Owns(a) \/ Owns(b)
  BY <1>2, <1>3, <1>4 DEF Owns
<1>9. Fits(t, s)
  BY <1>1, <1>5, <1>6, <1>7 DEF Fits
<1> QED
  BY <1>8, <1>9 DEF s

LEMMA FitsConcat ==
    ASSUME NEW t, NEW a, NEW b, Fits(t, a), Fits(t, b), ~Owns(a) \/ ~Owns(b)
    PROVE  Fits(t, a \o b) /\ (Owns(a \o b) <=> Owns(a) \/ Owns(b))
<1>1. ~Closes(a) \/ ~Owns(b)
  BY DEF Closes, Owns, Owned
<1> QED
  BY <1>1, FitsJoin

\* An activation, and the call that is to follow it.
LEMMA FitsActivate ==
    ASSUME NEW t, NEW n \in Net, NEW source \in Source, NEW c, Sound(t, c), c.do \notin {"drop", "join"}
    PROVE  /\ Fits(t, Activate(n, source, c)) /\ Owns(Activate(n, source, c))
           /\ c.do \notin Closing => ~Closes(Activate(n, source, c))
<1> DEFINE d == CallOn("drop", n, source)
           j == CallOn("join", n, source)
<1>1. Sound(t, d) /\ Sound(t, j) /\ d.do = "drop" /\ j.do = "join"
  <2>0. "drop" \in Task /\ "join" \in Task
    BY DEF Task
  <2>1. d \in Calls /\ d.do = "drop" /\ d.net = n
    BY <2>0, CallOnType
  <2>2. j \in Calls /\ j.do = "join" /\ j.net = n
    BY <2>0, CallOnType
  <2> HIDE DEF d, j
  <2>3. "drop" \in OfThread(t) /\ "join" \in OfThread(t)
    BY DEF OfThread, OfPhone, Task
  <2> QED
    BY <2>1, <2>2, <2>3 DEF Sound
<1>2. Activate(n, source, c) = <<d, j, c>>
  BY DEF Activate
<1> HIDE DEF d, j
<1> DEFINE s == <<d, j, c>>
<1>3. /\ s \in Seq(Calls) /\ DOMAIN s = 1 .. 3 /\ s[1] = d /\ s[2] = j /\ s[3] = c
  BY <1>1 DEF Sound
<1> HIDE DEF s
<1>4. \A i \in DOMAIN s : i = 1 \/ i = 2 \/ i = 3
  BY <1>3
<1>5. \A i \in DOMAIN s : Sound(t, s[i])
  BY <1>1, <1>3, <1>4
<1>6. ASSUME NEW i \in DOMAIN s, s[i].do \in {"drop", "join"}
      PROVE  i + 1 \in DOMAIN s
  BY <1>3, <1>4, <1>6
<1>7. ASSUME NEW i \in DOMAIN s, NEW k \in DOMAIN s, i < k, s[i].do \in Closing
      PROVE  s[k].do \notin Owned
  BY <1>1, <1>3, <1>4, <1>7 DEF Closing
<1>8. Fits(t, s)
  BY <1>3, <1>5, <1>6, <1>7 DEF Fits
<1>9. Owns(s)
  <2>1. 1 \in DOMAIN s /\ s[1].do = "drop"
    BY <1>1, <1>3
  <2> QED
    BY <2>1 DEF Owns, Owned
<1>10. c.do \notin Closing => ~Closes(s)
  BY <1>1, <1>3, <1>4 DEF Closes, Closing
<1> QED
  BY <1>2, <1>8, <1>9, <1>10 DEF s

---------------------------------------------------------------------------
(* What a thread makes of its calls *)

LEMMA PassType ==
    ASSUME NEW t \in Thread
    PROVE  Fits(t, Pass(t)) /\ ~Owns(Pass(t))
<1>1. CASE t = "watchdog"
  <2>0. "look" \in Task /\ "watchdog" \in Source
    BY DEF Task, Source
  <2>1. Look("watchdog") \in Calls /\ Look("watchdog").do = "look"
    BY <2>0, CallOnType DEF Look
  <2>2. Sound(t, Look("watchdog"))
    BY <1>1, <2>1 DEF Sound, OfThread, Task, AboutNet
  <2>3. Pass(t) = <<Look("watchdog")>>
    BY <1>1 DEF Pass
  <2> QED
    BY <2>1, <2>2, <2>3, FitsOne DEF Owned, Closing
<1>2. CASE t = "scan" /\ "scan" \in given.actors
  <2>1. Call("roam") \in Calls /\ Call("roam").do = "roam"
    BY CallType DEF Call, Task
  <2>2. Sound(t, Call("roam"))
    BY <1>2, <2>1 DEF Sound, OfThread, Task, AboutNet
  <2>3. Pass(t) = <<Call("roam")>>
    BY <1>2 DEF Pass
  <2> QED
    BY <2>1, <2>2, <2>3, FitsOne DEF Owned, Closing
<1>3. CASE t # "watchdog" /\ ~(t = "scan" /\ "scan" \in given.actors)
  <2>1. Pass(t) = << >>
    BY <1>3 DEF Pass
  <2> QED
    BY <2>1, FitsEmpty
<1> QED
  BY <1>1, <1>2, <1>3

LEMMA LeftType ==
    ASSUME NEW t \in Thread, NEW s, Fits(t, s)
    PROVE  Fits(t, Left(t, s)) /\ (Owns(Left(t, s)) <=> Owns(s))
BY PassType, FitsEmpty DEF Left

\* The call at hand of a thread.
LEMMA HeadType ==
    ASSUME TodoInv, NEW t \in Thread, todo[t] # << >>
    PROVE  /\ Sound(t, Head(todo[t])) /\ Fits(t, Tail(todo[t]))
           /\ t # "phone" /\ Owns(Tail(todo[t])) => commandLock = t
           /\ t # "phone" /\ Head(todo[t]).do \in Owned => commandLock = t
           /\ Head(todo[t]).do \in Closing => ~Owns(Tail(todo[t]))
           /\ Head(todo[t]).do \in {"drop", "join"} => Tail(todo[t]) # << >>
           /\ t = "recovery" => recovering
BY FitsTail DEF TodoInv

\* A thread goes on with calls that fit, and holds the lock if they ask for it.
LEMMA GoesOn ==
    ASSUME TodoInv, NEW t \in Thread, NEW s, Fits(t, s), todo' = [todo EXCEPT ![t] = s],
           t # "phone" /\ Owns(s) => commandLock' = t,
           \A u \in Thread \ {t, "phone"} : Owns(todo[u]) => commandLock' = u,
           t = "recovery" /\ s # << >> => recovering',
           todo["recovery"] # << >> /\ t # "recovery" => recovering'
    PROVE  TodoInv'
<1>1. /\ DOMAIN todo' = Thread /\ todo' = [u \in Thread |-> todo'[u]]
      /\ todo'[t] = s /\ \A u \in Thread \ {t} : todo'[u] = todo[u]
  BY DEF TodoInv
<1>2. \A u \in Thread : Fits(u, todo'[u])
  BY <1>1 DEF TodoInv
<1>3. \A u \in Thread \ {"phone"} : Owns(todo'[u]) => commandLock' = u
  BY <1>1
<1>4. todo'["recovery"] # << >> => recovering'
  BY <1>1 DEF Thread
<1> QED
  BY <1>1, <1>2, <1>3, <1>4 DEF TodoInv

\* Calls that do not ask for the lock.
LEMMA GoesPlain ==
    ASSUME TodoInv, NEW t \in Thread, todo[t] # << >>, NEW calls, Fits(t, calls), ~Owns(calls),
           Goes(t, calls), UNCHANGED <<commandLock, recovering>>
    PROVE  TodoInv'
<1> DEFINE s == calls \o Tail(todo[t])
<1>1. Fits(t, Tail(todo[t])) /\ (t # "phone" /\ Owns(Tail(todo[t])) => commandLock = t)
  BY HeadType
<1>2. Fits(t, s) /\ (Owns(s) <=> Owns(calls) \/ Owns(Tail(todo[t])))
  BY <1>1, FitsConcat
<1>3. Fits(t, Left(t, s)) /\ (Owns(Left(t, s)) <=> Owns(s))
  BY <1>2, LeftType
<1>4. todo' = [todo EXCEPT ![t] = Left(t, s)]
  BY DEF Goes, TodoInv
<1>5. todo["recovery"] # << >> => recovering
  BY DEF TodoInv
<1>6. \A u \in Thread \ {t, "phone"} : Owns(todo[u]) => commandLock' = u
  BY DEF TodoInv
<1> HIDE DEF s
<1> QED
  BY <1>1, <1>2, <1>3, <1>4, <1>5, <1>6, GoesOn

\* The holder of the lock, or who takes it while it is free, goes on with calls that ask for it.
LEMMA GoesOwning ==
    ASSUME TodoInv, NEW t \in Thread \ {"phone"}, todo[t] # << >>, NEW calls, Fits(t, calls),
           Goes(t, calls), ~Owns(Tail(todo[t])), commandLock \in {"free", t}, commandLock' = t,
           UNCHANGED recovering
    PROVE  TodoInv'
<1> DEFINE s == calls \o Tail(todo[t])
<1>1. Fits(t, Tail(todo[t]))
  BY HeadType
<1>2. Fits(t, s)
  BY <1>1, FitsConcat
<1>3. Fits(t, Left(t, s))
  BY <1>2, LeftType
<1>4. todo' = [todo EXCEPT ![t] = Left(t, s)]
  BY DEF Goes, TodoInv
<1>5. todo["recovery"] # << >> => recovering
  BY DEF TodoInv
<1>6. \A u \in Thread \ {t, "phone"} : ~Owns(todo[u])
  BY DEF TodoInv, Thread
<1> HIDE DEF s
<1> QED
  BY <1>3, <1>4, <1>5, <1>6, GoesOn

\* Nobody is about to work on the Wi-Fi while the lock is free.
LEMMA FreeMeansIdle ==
    ASSUME TodoInv, commandLock = "free", NEW t \in Thread \ {"phone"}
    PROVE  ~Owns(todo[t])
BY DEF TodoInv, Thread

LEMMA TodoKept ==
    ASSUME TodoInv, UNCHANGED <<todo, commandLock, recovering>>
    PROVE  TodoInv'
BY DEF TodoInv

---------------------------------------------------------------------------
(* The calls that steps make *)

LEMMA PlainCall ==
    ASSUME NEW t, NEW task \in OfThread(t), task \in Task, task \notin Owned, task \notin AboutNet,
           NEW ok \in BOOLEAN
    PROVE  /\ Fits(t, <<Call(task)>>) /\ ~Owns(<<Call(task)>>)
           /\ Fits(t, <<[Call(task) EXCEPT !.ok = ok]>>) /\ ~Owns(<<[Call(task) EXCEPT !.ok = ok]>>)
<1>1. Sound(t, Call(task)) /\ Call(task).do = task
  BY CallType DEF Sound, Call
<1>2. Sound(t, [Call(task) EXCEPT !.ok = ok]) /\ [Call(task) EXCEPT !.ok = ok].do = task
  BY CallType DEF Sound, Call, Calls
<1>3. task \notin {"drop", "join"}
  BY DEF AboutNet
<1> QED
  BY <1>1, <1>2, <1>3, FitsOne

\* A call of every thread but a phone's.
LEMMA AgentCall ==
    ASSUME NEW t \in Thread \ {"phone"}, NEW task \in Task, task \notin Owned, task \notin AboutNet
    PROVE  Fits(t, <<Call(task)>>) /\ ~Owns(<<Call(task)>>)
<1>1. task \in OfThread(t)
  BY DEF OfThread
<1> QED
  BY <1>1, PlainCall

LEMMA NamedCall ==
    ASSUME NEW t, NEW task \in OfThread(t), task \in Task, task \notin {"drop", "join"},
           NEW n \in Net \cup {NoNet, Setup}, NEW source \in Source, task \in AboutNet => n \in Net
    PROVE  /\ Fits(t, <<CallOn(task, n, source)>>)
           /\ Owns(<<CallOn(task, n, source)>>) <=> task \in Owned
<1>1. Sound(t, CallOn(task, n, source)) /\ CallOn(task, n, source).do = task
  BY CallOnType DEF Sound
<1> QED
  BY <1>1, FitsOne

LEMMA SawCall ==
    ASSUME NEW t, NEW n \in Net \cup {NoNet, Setup}, NEW source \in Source
    PROVE  Fits(t, <<Saw(n, source)>>) /\ ~Owns(<<Saw(n, source)>>)
<1>1. /\ "saw" \in Task /\ "saw" \in OfThread(t) /\ "saw" \notin {"drop", "join"}
      /\ "saw" \notin AboutNet /\ "saw" \notin Owned
  BY DEF Task, OfThread, OfPhone, AboutNet, Owned, Closing
<1> QED
  BY <1>1, NamedCall DEF Saw

LEMMA LookCall ==
    ASSUME NEW t \in Thread \ {"phone"}, NEW source \in Source
    PROVE  Fits(t, <<Look(source)>>) /\ ~Owns(<<Look(source)>>)
<1>1. /\ "look" \in Task /\ "look" \in OfThread(t) /\ "look" \notin {"drop", "join"}
      /\ "look" \notin AboutNet /\ "look" \notin Owned
  BY DEF Task, OfThread, AboutNet, Owned, Closing
<1> QED
  BY <1>1, NamedCall DEF Look

\* The call at hand with another name, and maybe another outcome or network.
LEMMA RecastCall ==
    ASSUME NEW t, NEW c, Sound(t, c), NEW task \in OfThread(t), task \in Task,
           task \notin {"drop", "join"}, NEW n \in Net, NEW ok \in BOOLEAN
    PROVE  /\ Fits(t, <<[c EXCEPT !.do = task, !.net = n, !.ok = ok]>>)
           /\ Owns(<<[c EXCEPT !.do = task, !.net = n, !.ok = ok]>>) <=> task \in Owned
<1> DEFINE d == [c EXCEPT !.do = task, !.net = n, !.ok = ok]
<1>1. d \in Calls /\ d.do = task /\ d.net = n
  BY DEF Sound, Calls
<1> HIDE DEF d
<1>2. Sound(t, d)
  BY <1>1 DEF Sound
<1>3. Fits(t, <<d>>) /\ (Owns(<<d>>) <=> task \in Owned)
  BY <1>1, <1>2, FitsOne
<1> QED
  BY <1>3 DEF d

LEMMA RenamedCall ==
    ASSUME NEW t, NEW c, Sound(t, c), NEW task \in OfThread(t), task \in Task,
           task \notin {"drop", "join"}, task \in AboutNet => c.net \in Net
    PROVE  /\ Sound(t, [c EXCEPT !.do = task]) /\ [c EXCEPT !.do = task].do = task
           /\ [c EXCEPT !.do = task].do \notin {"drop", "join"}
           /\ Fits(t, <<[c EXCEPT !.do = task]>>)
           /\ Owns(<<[c EXCEPT !.do = task]>>) <=> task \in Owned
<1> DEFINE d == [c EXCEPT !.do = task]
<1>1. d \in Calls /\ d.do = task /\ d.net = c.net
  BY DEF Sound, Calls
<1> HIDE DEF d
<1>2. Sound(t, d)
  BY <1>1 DEF Sound
<1>3. Fits(t, <<d>>) /\ (Owns(<<d>>) <=> task \in Owned)
  BY <1>1, <1>2, FitsOne
<1> QED
  BY <1>1, <1>2, <1>3 DEF d

LEMMA TwoCalls ==
    ASSUME NEW t, NEW c, NEW d, Fits(t, <<c>>), Fits(t, <<d>>), ~Owns(<<c>>) \/ ~Owns(<<d>>)
    PROVE  Fits(t, <<c, d>>) /\ (Owns(<<c, d>>) <=> Owns(<<c>>) \/ Owns(<<d>>))
<1>1. Fits(t, <<c>> \o <<d>>) /\ (Owns(<<c>> \o <<d>>) <=> Owns(<<c>>) \/ Owns(<<d>>))
  BY FitsConcat
<1>2. <<c>> \o <<d>> = <<c, d>>
  <2>1. <<c>> \in Seq(Calls) /\ <<d>> \in Seq(Calls) /\ <<c, d>> \in Seq(Calls)
    BY DEF Fits
  <2> DEFINE s == <<c>> \o <<d>>
             r == <<c, d>>
  <2>2. s \in Seq(Calls) /\ Len(s) = 2 /\ s[1] = c /\ s[2] = d
    BY <2>1
  <2>3. r \in Seq(Calls) /\ Len(r) = 2 /\ r[1] = c /\ r[2] = d
    BY <2>1
  <2> HIDE DEF s, r
  <2>4. \A i \in 1 .. 2 : i = 1 \/ i = 2
    OBVIOUS
  <2>5. s = r
    BY <2>2, <2>3, <2>4
  <2> QED
    BY <2>5 DEF s, r
<1> QED
  BY <1>1, <1>2

LEMMA ThreeCalls ==
    ASSUME NEW t, NEW c, NEW d, NEW e, Fits(t, <<c>>), Fits(t, <<d>>), Fits(t, <<e>>),
           ~Owns(<<c>>), ~Owns(<<d>>)
    PROVE  Fits(t, <<c, d, e>>) /\ (Owns(<<c, d, e>>) <=> Owns(<<e>>))
<1>1. Fits(t, <<d, e>>) /\ (Owns(<<d, e>>) <=> Owns(<<e>>))
  BY TwoCalls
<1>2. Fits(t, <<c>> \o <<d, e>>) /\ (Owns(<<c>> \o <<d, e>>) <=> Owns(<<e>>))
  BY <1>1, FitsConcat
<1>3. <<c>> \o <<d, e>> = <<c, d, e>>
  <2>1. <<c>> \in Seq(Calls) /\ <<d, e>> \in Seq(Calls) /\ <<c, d, e>> \in Seq(Calls)
    BY DEF Fits
  <2> DEFINE s == <<c>> \o <<d, e>>
             r == <<c, d, e>>
  <2>2. s \in Seq(Calls) /\ Len(s) = 3 /\ s[1] = c /\ s[2] = d /\ s[3] = e
    BY <2>1
  <2>3. r \in Seq(Calls) /\ Len(r) = 3 /\ r[1] = c /\ r[2] = d /\ r[3] = e
    BY <2>1
  <2> HIDE DEF s, r
  <2>4. \A i \in 1 .. 3 : i = 1 \/ i = 2 \/ i = 3
    OBVIOUS
  <2>5. s = r
    BY <2>2, <2>3, <2>4
  <2> QED
    BY <2>5 DEF s, r
<1> QED
  BY <1>2, <1>3

\* What entering a state takes.
LEMMA OnEnterType ==
    ASSUME NEW t, NEW new
    PROVE  Fits(t, OnEnter(new)) /\ ~Owns(OnEnter(new))
<1>1. ASSUME NEW task \in {"start BLE", "stop BLE", "restart BLE"}
      PROVE  Fits(t, <<Call(task)>>) /\ ~Owns(<<Call(task)>>)
  <2>1. task \in OfThread(t) /\ task \in Task /\ task \notin Owned /\ task \notin AboutNet
    BY DEF OfThread, OfPhone, Task, Owned, Closing, AboutNet
  <2> QED
    BY <2>1, PlainCall
<1>2. OnEnter(new) \in {<< >>, <<Call("start BLE")>>, <<Call("stop BLE")>>, <<Call("restart BLE")>>}
  BY DEF OnEnter
<1> QED
  BY <1>1, <1>2, FitsEmpty

LEMMA TransitionPlain ==
    ASSUME TodoInv, NEW t \in Thread, todo[t] # << >>, NEW new \in NetworkState,
           NEW rest, Fits(t, rest), ~Owns(rest), Transition(t, new, rest),
           UNCHANGED <<commandLock, recovering>>
    PROVE  TodoInv' /\ networkState' \in NetworkState
<1>1. Fits(t, OnEnter(new) \o rest) /\ ~Owns(OnEnter(new) \o rest)
  BY OnEnterType, FitsConcat
<1> QED
  BY <1>1, GoesPlain DEF Transition

LEMMA TransitionOwning ==
    ASSUME TodoInv, NEW t \in Thread \ {"phone"}, todo[t] # << >>, NEW new \in NetworkState,
           NEW rest, Fits(t, rest), Transition(t, new, rest), ~Owns(Tail(todo[t])),
           commandLock \in {"free", t}, commandLock' = t, UNCHANGED recovering
    PROVE  TodoInv' /\ networkState' \in NetworkState
<1>1. Fits(t, OnEnter(new) \o rest)
  BY OnEnterType, FitsConcat
<1> QED
  BY <1>1, GoesOwning DEF Transition

\* A call whose name a phone's request never has belongs to another thread.
LEMMA NotAPhone ==
    ASSUME TodoInv, NEW t \in Thread, todo[t] # << >>, Head(todo[t]).do \notin OfPhone
    PROVE  t # "phone"
BY HeadType DEF Sound, OfThread

LEMMA CheckType ==
    ASSUME RestType, NEW online \in BOOLEAN, NEW force, NEW associated,
           InternetIs(online, force) \/ Validated(associated, online, force)
    PROVE  lastCheck' \in {"stale", "online", "offline"}
BY DEF RestType, InternetIs, Validated, Answer

---------------------------------------------------------------------------
(* BLE and NetworkManager *)

LEMMA BleNext ==
    ASSUME NetworkInv, NEW t \in Thread, BleStep(t)
    PROVE  NetworkInv'
<1>0. WifiType /\ StateType /\ RestType /\ LockType /\ TodoInv /\ todo[t] # << >>
  BY DEF NetworkInv, BleStep, Is
<1>1. ASSUME NEW ok \in BOOLEAN
      PROVE  /\ Fits(t, <<[Call("BLE started") EXCEPT !.ok = ok]>>)
             /\ ~Owns(<<[Call("BLE started") EXCEPT !.ok = ok]>>)
  <2>1. /\ "BLE started" \in OfThread(t) /\ "BLE started" \in Task
        /\ "BLE started" \notin Owned /\ "BLE started" \notin AboutNet
    BY DEF OfThread, OfPhone, Task, Owned, Closing, AboutNet
  <2> QED
    BY <2>1, PlainCall
<1>2. Fits(t, <<Call("stop server")>>) /\ ~Owns(<<Call("stop server")>>)
  <2>1. /\ "stop server" \in OfThread(t) /\ "stop server" \in Task
        /\ "stop server" \notin Owned /\ "stop server" \notin AboutNet
    BY DEF OfThread, OfPhone, Task, Owned, Closing, AboutNet
  <2> QED
    BY <2>1, PlainCall
<1>3. Fits(t, << >>) /\ ~Owns(<< >>)
  BY FitsEmpty
<1>4. CASE StartBle(t)
  <2>1. PICK ok \in BOOLEAN : \/ Done(t)
                              \/ Goes(t, <<[Call("BLE started") EXCEPT !.ok = ok]>>)
    BY <1>4 DEF StartBle
  <2>2. UNCHANGED <<commandLock, recovering>>
    BY <1>4 DEF StartBle, agent, flags
  <2>3. TodoInv'
    BY <1>0, <1>1, <1>3, <2>1, <2>2, GoesPlain DEF Done
  <2>4. server' \in Server
    BY <1>0, <1>4 DEF StartBle, RestType, Server
  <2> QED
    BY <1>0, <1>4, <2>3, <2>4 DEF StartBle, NetworkInv, WifiType, StateType, RestType, LockType,
                                 wifi, agent, flags
<1>5. CASE BleStarted(t)
  <2>1. TodoInv'
    BY <1>0, <1>3, <1>5, GoesPlain DEF BleStarted, Done, flags
  <2>2. bleActive' \in BOOLEAN
    BY <1>0, <1>5, HeadType DEF BleStarted, Sound, Calls
  <2> QED
    BY <1>0, <1>5, <2>1, <2>2 DEF BleStarted, NetworkInv, WifiType, StateType, RestType, LockType,
                                 wifi, flags
<1>6. CASE StopBle(t)
  <2>1. Goes(t, << >>) \/ Goes(t, <<Call("stop server")>>)
    BY <1>6 DEF StopBle
  <2>2. TodoInv'
    BY <1>0, <1>2, <1>3, <1>6, <2>1, GoesPlain DEF StopBle, flags
  <2> QED
    BY <1>0, <1>6, <2>2 DEF StopBle, NetworkInv, WifiType, StateType, RestType, LockType,
                           wifi, flags
<1>7. CASE RestartBle(t)
  <2>1. PICK ok \in BOOLEAN : Goes(t, <<[Call("BLE started") EXCEPT !.ok = ok]>>)
    BY <1>7 DEF RestartBle
  <2>2. TodoInv'
    BY <1>0, <1>1, <1>7, <2>1, GoesPlain DEF RestartBle, flags
  <2>3. server' \in Server
    BY <1>0, <1>7 DEF RestartBle, RestType, Server
  <2> QED
    BY <1>0, <1>7, <2>2, <2>3 DEF RestartBle, NetworkInv, WifiType, StateType, RestType, LockType,
                                 wifi, flags
<1>8. CASE StopServer(t)
  <2>1. TodoInv'
    BY <1>0, <1>3, <1>8, GoesPlain DEF StopServer, Done, agent, flags
  <2>2. server' \in Server
    BY <1>0, <1>8 DEF StopServer, RestType, Server
  <2> QED
    BY <1>0, <1>8, <2>1, <2>2 DEF StopServer, NetworkInv, WifiType, StateType, RestType, LockType,
                                 wifi, agent, flags
<1> QED
  BY <1>4, <1>5, <1>6, <1>7, <1>8 DEF BleStep

\* A call that passes its outcome to the next one is followed by one.
LEMMA ReturnsKeepsTodo ==
    ASSUME TodoInv, NEW t \in Thread, Does(t, "join"), NEW ok \in BOOLEAN, Returns(t, ok),
           UNCHANGED <<commandLock, recovering>>
    PROVE  TodoInv'
<1> DEFINE q == Tail(todo[t])
           d == [Head(q) EXCEPT !.ok = ok]
<1>1. todo[t] # << >> /\ Head(todo[t]).do = "join"
  BY DEF Does
<1>2. /\ Fits(t, q) /\ q # << >> /\ (t # "phone" /\ Owns(q) => commandLock = t)
      /\ t = "recovery" => recovering
  BY <1>1, HeadType
<1>3. todo' = [todo EXCEPT ![t] = <<d>> \o Tail(q)]
  BY DEF Returns, TodoInv
<1> HIDE DEF q
<1> DEFINE s == <<d>> \o Tail(q)
<1>4. /\ q \in Seq(Calls) /\ Len(q) \in Nat \ {0} /\ DOMAIN q = 1 .. Len(q) /\ Head(q) = q[1]
      /\ \A i \in DOMAIN q : q[i] \in Calls /\ Sound(t, q[i])
  BY <1>2 DEF Fits
<1>5. d \in Calls /\ d.do = q[1].do /\ d.net = q[1].net
  <2>1. Head(q) \in Calls /\ Head(q) = q[1]
    BY <1>4
  <2> QED
    BY <2>1 DEF Calls
<1> HIDE DEF d
<1>6. /\ s \in Seq(Calls) /\ DOMAIN s = DOMAIN q /\ s[1] = d
      /\ \A i \in DOMAIN q : i # 1 => s[i] = q[i]
  BY <1>4, <1>5
<1> HIDE DEF s
<1>7. \A i \in DOMAIN s : s[i].do = q[i].do /\ Sound(t, s[i])
  BY <1>4, <1>5, <1>6 DEF Sound
<1>8. Fits(t, s)
  BY <1>2, <1>6, <1>7 DEF Fits
<1>9. Owns(s) <=> Owns(q)
  BY <1>6, <1>7 DEF Owns
<1>10. todo' = [todo EXCEPT ![t] = s]
  BY <1>3 DEF s
<1>11. \A u \in Thread \ {t, "phone"} : Owns(todo[u]) => commandLock' = u
  BY DEF TodoInv
<1>12. todo["recovery"] # << >> => recovering'
  BY DEF TodoInv
<1> QED
  BY <1>2, <1>8, <1>9, <1>10, <1>11, <1>12, GoesOn

LEMMA WifiNext ==
    ASSUME NetworkInv, NEW t \in Thread, WifiStep(t)
    PROVE  NetworkInv'
<1>0. WifiType /\ StateType /\ RestType /\ LockType /\ TodoInv /\ todo[t] # << >>
  BY DEF NetworkInv, WifiStep, Is
<1>1. Head(todo[t]).do \in {"drop", "join"} => Head(todo[t]).net \in Net
  BY <1>0, HeadType DEF Sound, AboutNet
<1>2. CASE Drop(t)
  <2>1. TodoInv'
    BY <1>0, <1>2, FitsEmpty, GoesPlain DEF Drop, Done, agent, flags
  <2>2. assoc' \in Net \cup {NoNet, Setup}
    BY <1>0, <1>2 DEF Drop, WifiType
  <2> QED
    BY <1>0, <1>2, <2>1, <2>2 DEF Drop, NetworkInv, WifiType, StateType, RestType, LockType,
                                 agent, flags
<1>3. CASE JoinWorks(t)
  <2>1. TodoInv'
    BY <1>0, <1>3, ReturnsKeepsTodo DEF JoinWorks, agent, flags
  <2>2. assoc' \in Net \cup {NoNet, Setup} /\ saved' \subseteq Net /\ autoJoin' \in BOOLEAN
    BY <1>0, <1>1, <1>3 DEF JoinWorks, NewProfile, WifiType, Does
  <2> QED
    BY <1>0, <1>3, <2>1, <2>2 DEF JoinWorks, NetworkInv, WifiType, StateType, RestType, LockType,
                                 agent, flags
<1>4. CASE JoinFails(t)
  <2>1. TodoInv'
    BY <1>0, <1>4, ReturnsKeepsTodo DEF JoinFails, agent, flags
  <2>2. assoc' \in Net \cup {NoNet, Setup} /\ saved' \subseteq Net /\ autoJoin' \in BOOLEAN
    BY <1>0, <1>1, <1>4 DEF JoinFails, NewProfile, CleanedUp, WifiType, Does
  <2> QED
    BY <1>0, <1>4, <2>1, <2>2 DEF JoinFails, NetworkInv, WifiType, StateType, RestType, LockType,
                                 agent, flags
<1> QED
  BY <1>2, <1>3, <1>4 DEF WifiStep

---------------------------------------------------------------------------
(* Observations *)

LEMMA EnsureCall ==
    ASSUME NEW t
    PROVE  Fits(t, <<Call("ensure")>>) /\ ~Owns(<<Call("ensure")>>)
<1>1. /\ "ensure" \in OfThread(t) /\ "ensure" \in Task
      /\ "ensure" \notin Owned /\ "ensure" \notin AboutNet
  BY DEF OfThread, OfPhone, Task, Owned, Closing, AboutNet
<1> QED
  BY <1>1, PlainCall

\* The recovery thread begins with nothing to do.
LEMMA RecoveryBegins ==
    ASSUME TodoInv, ~recovering, recovering' = TRUE, UNCHANGED commandLock,
           \/ todo' = [todo EXCEPT !["recovery"] = <<Call("recover")>>]
           \/ \E t \in Thread : /\ todo[t] # << >>
                                /\ todo' = [todo EXCEPT ![t] = Left(t, Tail(@)),
                                                        !["recovery"] = <<Call("recover")>>]
    PROVE  TodoInv'
<1> DEFINE r == <<Call("recover")>>
<1>1. Fits("recovery", r) /\ ~Owns(r)
  <2>1. /\ "recovery" \in Thread \ {"phone"} /\ "recover" \in Task
        /\ "recover" \notin Owned /\ "recover" \notin AboutNet
    BY DEF Thread, Task, Owned, Closing, AboutNet
  <2> QED
    BY <2>1, AgentCall
<1> HIDE DEF r
<1>2. "recovery" \in Thread /\ todo["recovery"] = << >>
  BY DEF TodoInv, Thread
<1>3. CASE todo' = [todo EXCEPT !["recovery"] = r]
  BY <1>1, <1>2, <1>3, GoesOn DEF TodoInv
<1>4. ASSUME NEW t \in Thread, todo[t] # << >>,
             todo' = [todo EXCEPT ![t] = Left(t, Tail(@)), !["recovery"] = r]
      PROVE  TodoInv'
  <2>1. t # "recovery"
    BY <1>2, <1>4
  <2>2. Fits(t, Tail(todo[t])) /\ (t # "phone" /\ Owns(Tail(todo[t])) => commandLock = t)
    BY <1>4, HeadType
  <2>3. Fits(t, Left(t, Tail(todo[t]))) /\ (Owns(Left(t, Tail(todo[t]))) <=> Owns(Tail(todo[t])))
    BY <2>2, LeftType
  <2>4. /\ DOMAIN todo' = Thread /\ todo' = [u \in Thread |-> todo'[u]]
        /\ todo'["recovery"] = r /\ todo'[t] = Left(t, Tail(todo[t]))
        /\ \A u \in Thread \ {t, "recovery"} : todo'[u] = todo[u]
    <3> DEFINE s == Left(t, Tail(todo[t]))
    <3>1. todo' = [todo EXCEPT ![t] = s, !["recovery"] = r]
      BY <1>4
    <3>2. DOMAIN todo = Thread /\ todo = [u \in Thread |-> todo[u]]
      BY DEF TodoInv
    <3> HIDE DEF s
    <3>3. /\ DOMAIN todo' = Thread /\ todo' = [u \in Thread |-> todo'[u]]
          /\ todo'["recovery"] = r /\ todo'[t] = s
          /\ \A u \in Thread \ {t, "recovery"} : todo'[u] = todo[u]
      BY ONLY <1>2, <2>1, <3>1, <3>2
    <3> QED
      BY <3>3 DEF s
  <2>5. \A u \in Thread : Fits(u, todo'[u])
    BY <1>1, <2>3, <2>4 DEF TodoInv
  <2>6. \A u \in Thread \ {"phone"} : Owns(todo'[u]) => commandLock' = u
    BY <1>1, <2>2, <2>3, <2>4 DEF TodoInv
  <2> QED
    BY <2>4, <2>5, <2>6 DEF TodoInv
<1> QED
  BY <1>3, <1>4 DEF r

LEMMA ObservationNext ==
    ASSUME NetworkInv, NEW t \in Thread, Observation(t)
    PROVE  NetworkInv'
<1>0. WifiType /\ StateType /\ RestType /\ LockType /\ TodoInv /\ todo[t] # << >>
  BY DEF NetworkInv, Observation, Is
<1>1. Fits(t, << >>) /\ ~Owns(<< >>)
  BY FitsEmpty
<1>2. Fits(t, <<Call("ensure")>>) /\ ~Owns(<<Call("ensure")>>)
  BY EnsureCall
<1>3. {"BLE_PROVISIONING", "DISCONNECTED", "CONNECTED"} \subseteq NetworkState
  BY DEF NetworkState
<1>4. Sound(t, Head(todo[t])) /\ Head(todo[t]) \in Calls
  BY <1>0, HeadType DEF Sound
<1>5. CASE SawHotspot(t) \/ SawNothing(t) \/ JudgeOffline(t)
  <2>1. UNCHANGED <<commandLock, recovering>>
    BY <1>5 DEF SawHotspot, SawNothing, JudgeOffline, flags
  <2>2. \/ Goes(t, << >>) /\ UNCHANGED networkState
        \/ Goes(t, <<Call("ensure")>>) /\ UNCHANGED networkState
        \/ Transition(t, "BLE_PROVISIONING", << >>)
        \/ Transition(t, "DISCONNECTED", <<Call("ensure")>>)
    BY <1>5 DEF SawHotspot, SawNothing, JudgeOffline, Done
  <2>3. TodoInv' /\ networkState' \in NetworkState
    BY <1>0, <1>1, <1>2, <1>3, <2>1, <2>2, GoesPlain, TransitionPlain DEF StateType
  <2> QED
    BY <1>0, <1>5, <2>3 DEF SawHotspot, SawNothing, JudgeOffline, NetworkInv, WifiType, StateType,
                           RestType, LockType, wifi, flags
<1>6. CASE JudgeOnline(t)
  <2>0. Fits(t, <<Call("stop BLE")>>) /\ ~Owns(<<Call("stop BLE")>>)
    <3>1. /\ "stop BLE" \in OfThread(t) /\ "stop BLE" \in Task
          /\ "stop BLE" \notin Owned /\ "stop BLE" \notin AboutNet
      BY DEF OfThread, OfPhone, Task, Owned, Closing, AboutNet
    <3> QED
      BY <3>1, PlainCall
  <2>1. UNCHANGED <<commandLock, recovering>>
    BY <1>6 DEF JudgeOnline, flags
  <2>2. \/ Goes(t, <<Call("stop BLE")>>) /\ UNCHANGED networkState
        \/ Transition(t, "CONNECTED", << >>)
    BY <1>6 DEF JudgeOnline
  <2>3. TodoInv' /\ networkState' \in NetworkState
    BY <1>0, <1>1, <1>3, <2>0, <2>1, <2>2, GoesPlain, TransitionPlain DEF StateType
  <2>4. backoff' \subseteq Net
    BY <1>0, <1>6 DEF JudgeOnline, RestType
  <2> QED
    BY <1>0, <1>6, <2>3, <2>4 DEF JudgeOnline, NetworkInv, WifiType, StateType, RestType, LockType,
                                 wifi, flags
<1>7. ASSUME NEW n \in Net, SawNetwork(t, n)
      PROVE  NetworkInv'
  <2>1. PICK online \in BOOLEAN :
          /\ InternetIs(online, Head(todo[t]).source \in Forced)
          /\ \/ Goes(t, << >>)
             \/ Goes(t, <<[Head(todo[t]) EXCEPT !.do = "judge", !.net = n, !.ok = online]>>)
    BY <1>7 DEF SawNetwork
  <2>2. /\ Fits(t, <<[Head(todo[t]) EXCEPT !.do = "judge", !.net = n, !.ok = online]>>)
        /\ ~Owns(<<[Head(todo[t]) EXCEPT !.do = "judge", !.net = n, !.ok = online]>>)
    <3>1. /\ "judge" \in OfThread(t) /\ "judge" \in Task /\ "judge" \notin {"drop", "join"}
          /\ "judge" \notin Owned
      BY DEF OfThread, OfPhone, Task, Owned, Closing
    <3> QED
      BY <1>4, <3>1, RecastCall
  <2>3. TodoInv'
    BY <1>0, <1>1, <1>7, <2>1, <2>2, GoesPlain DEF SawNetwork, agent, flags
  <2>4. lastCheck' \in {"stale", "online", "offline"}
    BY <1>0, <2>1, CheckType
  <2> QED
    BY <1>0, <1>7, <2>3, <2>4 DEF SawNetwork, NetworkInv, WifiType, StateType, RestType, LockType,
                                 wifi, agent, flags
<1>8. CASE EnsureRecovery(t)
  <2>1. TodoInv'
    <3>1. CASE recovering
      BY <1>0, <1>1, <1>8, <3>1, GoesPlain DEF EnsureRecovery, Done, StateType
    <3>2. CASE ~recovering
      BY <1>0, <1>8, <3>2, RecoveryBegins DEF EnsureRecovery
    <3> QED
      BY <3>1, <3>2
  <2> QED
    BY <1>0, <1>8, <2>1 DEF EnsureRecovery, NetworkInv, WifiType, StateType, RestType, LockType, wifi
<1> QED
  BY <1>5, <1>6, <1>7, <1>8 DEF Observation

---------------------------------------------------------------------------
(* Attempts with saved networks *)

LEMMA FiniteRange ==
    ASSUME NEW S, IsFiniteSet(S), NEW T, NEW f \in [S -> T], \A y \in T : \E x \in S : f[x] = y
    PROVE  IsFiniteSet(T)
<1>1. f \in Surjection(S, T)
  BY DEF Surjection
<1> QED
  BY <1>1, FS_Surjection

LEMMA CandidatesType ==
    ASSUME WifiType, NEW order \in Ranked(SavedCandidates)
    PROVE  \E n \in Nat : DOMAIN order = 1 .. n /\ \A i \in 1 .. n : order[i].ssid \in Net
<1> DEFINE near == {n \in Net : air[n] # "out"}
           strong == {m \in Deduplicated(InRange) : m.ssid \in saved \ backoff /\ NormalizeRssi(m.rssi) >= MinSignal}
<1>1. IsFiniteSet(near)
  BY NetworkAssumption, FS_Subset
<1>2. InRange = {[ssid |-> n, rssi |-> Rssi[n]] : n \in near}
  BY DEF InRange
<1> HIDE DEF near
<1>3. IsFiniteSet(InRange)
  <2> DEFINE f == [n \in near |-> [ssid |-> n, rssi |-> Rssi[n]]]
  <2>1. f \in [near -> InRange] /\ \A y \in InRange : \E x \in near : f[x] = y
    BY <1>2
  <2> HIDE DEF f
  <2> QED
    BY <1>1, <2>1, FiniteRange
<1>4. strong \subseteq InRange
  BY DEF Deduplicated
<1>5. IsFiniteSet(strong)
  BY <1>3, <1>4, FS_Subset
<1>6. SavedCandidates = {[ssid |-> n.ssid, rssi |-> NormalizeRssi(n.rssi)] : n \in strong}
  BY DEF SavedCandidates, Candidates
<1>7. \A m \in strong : m.ssid \in Net
  BY DEF WifiType
<1> HIDE DEF strong
<1>8. IsFiniteSet(SavedCandidates)
  <2> DEFINE f == [n \in strong |-> [ssid |-> n.ssid, rssi |-> NormalizeRssi(n.rssi)]]
  <2>1. f \in [strong -> SavedCandidates] /\ \A y \in SavedCandidates : \E x \in strong : f[x] = y
    BY <1>6
  <2> HIDE DEF f
  <2> QED
    BY <1>5, <2>1, FiniteRange
<1>9. Cardinality(SavedCandidates) \in Nat
  BY <1>8, FS_CardinalityType
<1>10. order \in [1 .. Cardinality(SavedCandidates) -> SavedCandidates]
  BY DEF Ranked
<1>11. \A c \in SavedCandidates : c.ssid \in Net
  BY <1>6, <1>7
<1> QED
  BY <1>9, <1>10, <1>11

\* A call of the lock's holder that is about no network.
LEMMA HolderCall ==
    ASSUME NEW t \in Thread \ {"phone"}, NEW task \in {"release", "failed", "answer"}
    PROVE  Fits(t, <<Call(task)>>)
<1>1. task \in OfThread(t) /\ task \in Task /\ task \notin AboutNet /\ task \notin {"drop", "join"}
  BY DEF OfThread, Task, AboutNet
<1>2. Sound(t, Call(task)) /\ Call(task).do = task
  BY <1>1, CallType DEF Sound, Call
<1> QED
  BY <1>1, <1>2, FitsOne

LEMMA BestNext ==
    ASSUME NetworkInv, NEW t \in Thread, Best(t)
    PROVE  NetworkInv'
<1>0. WifiType /\ StateType /\ RestType /\ LockType /\ TodoInv /\ todo[t] # << >>
  BY DEF NetworkInv, Best, Does
<1>1. Head(todo[t]).do = "best"
  BY DEF Best, Does
<1>2. t # "phone"
  BY <1>0, <1>1, NotAPhone DEF OfPhone
<1>3. PICK c : c = Head(todo[t]) /\ Sound(t, c) /\ c \in Calls
  BY <1>0, HeadType DEF Sound
<1>4. PICK ok \in BOOLEAN : \/ Goes(t, << >>)
                            \/ Goes(t, <<[c EXCEPT !.do = "scanned", !.ok = ok]>>)
  <2>1. (networkState = "BLE_PROVISIONING" /\ c.source \in OfRecovery) \in BOOLEAN
    OBVIOUS
  <2> QED
    BY <1>3, <2>1 DEF Best
<1>5. /\ Fits(t, <<[c EXCEPT !.do = "scanned", !.ok = ok]>>)
      /\ ~Owns(<<[c EXCEPT !.do = "scanned", !.ok = ok]>>)
  <2> DEFINE d == [c EXCEPT !.do = "scanned", !.ok = ok]
  <2>1. d \in Calls /\ d.do = "scanned"
    <3>1. "scanned" \in Task
      BY DEF Task
    <3> QED
      BY <1>3, <3>1 DEF Calls
  <2> HIDE DEF d
  <2>2. Sound(t, d)
    BY <1>2, <2>1 DEF Sound, OfThread, Task, AboutNet
  <2>3. Fits(t, <<d>>) /\ ~Owns(<<d>>)
    BY <2>1, <2>2, FitsOne DEF Owned, Closing
  <2> QED
    BY <2>3 DEF d
<1>6. UNCHANGED <<commandLock, recovering>>
  BY DEF Best, agent, flags
<1>7. TodoInv'
  BY <1>0, <1>4, <1>5, <1>6, FitsEmpty, GoesPlain
<1> QED
  BY <1>0, <1>7 DEF Best, NetworkInv, WifiType, StateType, RestType, LockType, wifi, agent, flags

LEMMA ListedType ==
    ASSUME WifiType, RestType, Listed
    PROVE  backoff' \subseteq Net
BY DEF Listed, WifiType, RestType

LEMMA ScannedNext ==
    ASSUME NetworkInv, NEW t \in Thread, Scanned(t)
    PROVE  NetworkInv'
<1>0. WifiType /\ StateType /\ RestType /\ LockType /\ TodoInv /\ todo[t] # << >>
  BY DEF NetworkInv, Scanned, Does
<1>1. t # "phone"
  <2>1. Head(todo[t]).do = "scanned"
    BY DEF Scanned, Does
  <2> QED
    BY <1>0, <2>1, NotAPhone DEF OfPhone
<1>2. PICK c : c = Head(todo[t]) /\ c \in Calls /\ c.source \in Source
  BY <1>0, HeadType DEF Sound, Calls
<1>3. UNCHANGED <<commandLock, recovering>>
  BY DEF Scanned, flags
<1>4. TodoInv' /\ networkState' \in NetworkState
  <2>1. CASE Done(t) /\ UNCHANGED networkState
    BY <1>0, <1>3, <2>1, FitsEmpty, GoesPlain DEF Done, StateType
  <2>2. ASSUME NEW order \in Ranked(SavedCandidates),
               Transition(t, "SCANNING_SAVED_NETWORKS",
                          [i \in DOMAIN order |-> CallOn("try", order[i].ssid, c.source)])
        PROVE  TodoInv' /\ networkState' \in NetworkState
    <3> DEFINE s == [i \in DOMAIN order |-> CallOn("try", order[i].ssid, c.source)]
    <3>1. PICK n \in Nat : DOMAIN order = 1 .. n /\ \A i \in 1 .. n : order[i].ssid \in Net
      BY <1>0, CandidatesType
    <3>2. ASSUME NEW i \in 1 .. n
          PROVE  Sound(t, s[i]) /\ s[i].do = "try"
      <4>1. "try" \in Task /\ "try" \in OfThread(t)
        BY <1>1 DEF Task, OfThread
      <4>2. /\ CallOn("try", order[i].ssid, c.source) \in Calls
            /\ CallOn("try", order[i].ssid, c.source).do = "try"
            /\ CallOn("try", order[i].ssid, c.source).net = order[i].ssid
        BY <1>2, <3>1, <4>1, CallOnType
      <4>3. s[i] = CallOn("try", order[i].ssid, c.source)
        BY <3>1
      <4> QED
        BY <3>1, <4>1, <4>2, <4>3 DEF Sound
    <3>3. DOMAIN s = 1 .. n /\ \A i \in 1 .. n : s[i] \in Calls
      BY <3>1, <3>2 DEF Sound
    <3>4. s = [i \in 1 .. n |-> s[i]]
      BY <3>1
    <3> HIDE DEF s
    <3>5. s \in Seq(Calls)
      BY <3>3, <3>4
    <3>6. Fits(t, s) /\ ~Owns(s)
      BY <3>2, <3>3, <3>5 DEF Fits, Owns, Owned, Closing
    <3>7. "SCANNING_SAVED_NETWORKS" \in NetworkState
      BY DEF NetworkState
    <3> QED
      BY <1>0, <1>3, <2>2, <3>6, <3>7, TransitionPlain DEF s
  <2> QED
    BY <1>2, <2>1, <2>2 DEF Scanned
<1>5. backoff' \subseteq Net
  BY <1>0, ListedType DEF Scanned
<1> QED
  BY <1>0, <1>4, <1>5 DEF Scanned, NetworkInv, WifiType, StateType, RestType, LockType, wifi, flags

LEMMA TryNext ==
    ASSUME NetworkInv, NEW t \in Thread, Try(t)
    PROVE  NetworkInv'
<1>0. WifiType /\ StateType /\ RestType /\ LockType /\ TodoInv /\ todo[t] # << >>
  BY DEF NetworkInv, Try, Does
<1>1. Head(todo[t]).do = "try"
  BY DEF Try, Does
<1>2. t # "phone"
  BY <1>0, <1>1, NotAPhone DEF OfPhone
<1>3. PICK c : c = Head(todo[t]) /\ Sound(t, c) /\ c.net \in Net
  BY <1>0, <1>1, HeadType DEF Sound, AboutNet
<1>4. UNCHANGED recovering
  BY DEF Try
<1>5. CASE commandLock = "free"
  <2>1. /\ Sound(t, [c EXCEPT !.do = "tried"])
        /\ [c EXCEPT !.do = "tried"].do \notin {"drop", "join"}
    <3>1. "tried" \in OfThread(t) /\ "tried" \in Task /\ "tried" \notin {"drop", "join"}
      BY <1>2 DEF OfThread, Task
    <3> QED
      BY <1>3, <3>1, RenamedCall
  <2>2. Fits(t, Activate(c.net, "saved", [c EXCEPT !.do = "tried"]))
    <3>1. "saved" \in Source
      BY DEF Source
    <3> QED
      BY <1>3, <2>1, <3>1, FitsActivate
  <2>3. /\ commandLock' = t
        /\ Transition(t, "RECONNECTING", Activate(c.net, "saved", [c EXCEPT !.do = "tried"]))
    BY <1>3, <1>5 DEF Try
  <2>4. ~Owns(Tail(todo[t]))
    BY <1>0, <1>2, <1>5, HeadType DEF Thread
  <2>5. "RECONNECTING" \in NetworkState
    BY DEF NetworkState
  <2>6. TodoInv' /\ networkState' \in NetworkState
    BY <1>0, <1>2, <1>4, <1>5, <2>2, <2>3, <2>4, <2>5, TransitionOwning
  <2> QED
    BY <1>0, <2>3, <2>6 DEF Try, NetworkInv, WifiType, StateType, RestType, LockType, wifi
<1>6. CASE commandLock # "free"
  <2>1. TodoInv'
    BY <1>0, <1>6, FitsEmpty, GoesPlain DEF Try, Done
  <2> QED
    BY <1>0, <1>6, <2>1 DEF Try, NetworkInv, WifiType, StateType, RestType, LockType, wifi
<1> QED
  BY <1>5, <1>6

\* What has been tried is recorded, and the lock is released.
LEMMA TriedNext ==
    ASSUME NetworkInv, NEW t \in Thread, TriedAndOnline(t) \/ TriedInVain(t)
    PROVE  NetworkInv'
<1>0. WifiType /\ StateType /\ RestType /\ LockType /\ TodoInv /\ todo[t] # << >>
  BY DEF NetworkInv, TriedAndOnline, TriedInVain, Does
<1>1. Head(todo[t]).do = "tried"
  BY DEF TriedAndOnline, TriedInVain, Does
<1>2. t # "phone"
  BY <1>0, <1>1, NotAPhone DEF OfPhone
<1>3. PICK c : c = Head(todo[t]) /\ c.net \in Net /\ c.source \in Source
  BY <1>0, <1>1, HeadType DEF Sound, AboutNet, Calls
<1>4. commandLock = t /\ ~Owns(Tail(todo[t])) /\ (t = "recovery" => recovering)
  BY <1>0, <1>1, <1>2, HeadType DEF Owned, Closing
<1>5. UNCHANGED <<commandLock, recovering>> /\ backoff' \subseteq Net
  BY <1>0, <1>3 DEF TriedAndOnline, TriedInVain, agent, flags, RestType
<1>6. Fits(t, <<Call("release")>>)
  BY <1>2, HolderCall
<1>7. ASSUME TriedInVain(t)
      PROVE  TodoInv' /\ lastCheck' \in {"stale", "online", "offline"}
  <2>1. FailureOf(c.source) \in Source
    BY DEF FailureOf, Source
  <2>2. Fits(t, <<Look(FailureOf(c.source)), Call("release")>>)
    BY <1>2, <1>6, <2>1, LookCall, TwoCalls
  <2>3. Goes(t, <<Look(FailureOf(c.source)), Call("release")>>)
    BY <1>3, <1>7 DEF TriedInVain
  <2>4. TodoInv'
    BY <1>0, <1>2, <1>4, <1>5, <2>2, <2>3, GoesOwning
  <2>5. InternetIs(FALSE, TRUE) \/ UNCHANGED lastCheck
    BY <1>3, <1>7 DEF TriedInVain
  <2> QED
    BY <1>0, <2>4, <2>5, CheckType DEF RestType
<1>8. ASSUME TriedAndOnline(t)
      PROVE  TodoInv' /\ lastCheck' \in {"stale", "online", "offline"}
  <2> DEFINE saw == <<Saw(c.net, c.source), Call("release")>>
             s   == saw \o Finish(t)
  <2>1. Fits(t, saw)
    BY <1>3, <1>6, SawCall, TwoCalls
  <2>2. Fits(t, Finish(t)) /\ ~Owns(Finish(t))
    <3>1. ASSUME NEW task \in {"start loops", "recovered"}
          PROVE  Fits(t, <<Call(task)>>) /\ ~Owns(<<Call(task)>>)
      <4>1. task \in Task /\ task \notin Owned /\ task \notin AboutNet
        BY DEF Task, Owned, Closing, AboutNet
      <4> QED
        BY <1>2, <4>1, AgentCall
    <3>2. Finish(t) \in {<< >>, <<Call("start loops")>>, <<Call("recovered")>>}
      BY DEF Finish
    <3> QED
      BY <3>1, <3>2, FitsEmpty
  <2>3. todo' = [todo EXCEPT ![t] = s]
    BY <1>3, <1>8 DEF TriedAndOnline
  <2> HIDE DEF saw
  <2>4. Fits(t, s)
    BY <2>1, <2>2, FitsConcat
  <2>5. \A u \in Thread \ {t, "phone"} : Owns(todo[u]) => commandLock' = u
    BY <1>0, <1>5 DEF TodoInv
  <2>6. todo["recovery"] # << >> => recovering'
    BY <1>0, <1>5 DEF TodoInv
  <2> HIDE DEF s
  <2>7. TodoInv'
    BY <1>0, <1>4, <1>5, <2>3, <2>4, <2>5, <2>6, GoesOn
  <2>8. InternetIs(TRUE, TRUE)
    BY <1>8 DEF TriedAndOnline
  <2> QED
    BY <1>0, <2>7, <2>8, CheckType
<1> QED
  BY <1>0, <1>5, <1>7, <1>8 DEF TriedAndOnline, TriedInVain, NetworkInv, WifiType, StateType,
                               RestType, LockType, wifi, agent, flags

\* Who releases the lock has no more calls of its holder, and nobody else had any.
LEMMA Releases ==
    ASSUME TodoInv, NEW t \in Thread \ {"phone"}, todo[t] # << >>,
           Head(todo[t]).do \in {"release", "answer"}, Done(t), commandLock' = "free",
           UNCHANGED recovering
    PROVE  TodoInv'
<1>1. /\ commandLock = t /\ ~Owns(Tail(todo[t])) /\ Fits(t, Tail(todo[t]))
      /\ t = "recovery" => recovering
  BY HeadType DEF Owned, Closing
<1>2. Fits(t, Left(t, Tail(todo[t]))) /\ ~Owns(Left(t, Tail(todo[t])))
  BY <1>1, LeftType
<1>3. todo' = [todo EXCEPT ![t] = Left(t, Tail(todo[t]))]
  <2>1. << >> \o Tail(todo[t]) = Tail(todo[t])
    BY <1>1 DEF Fits
  <2> QED
    BY <2>1 DEF Done, Goes, TodoInv
<1>4. \A u \in Thread \ {t, "phone"} : ~Owns(todo[u])
  BY <1>1 DEF TodoInv
<1>5. todo["recovery"] # << >> => recovering'
  BY DEF TodoInv
<1> QED
  BY <1>1, <1>2, <1>3, <1>4, <1>5, GoesOn

LEMMA RoamNext ==
    ASSUME NetworkInv, NEW t \in Thread, Roam(t)
    PROVE  NetworkInv'
<1>0. WifiType /\ StateType /\ RestType /\ LockType /\ TodoInv /\ todo[t] # << >>
  BY DEF NetworkInv, Roam, Does
<1>1. t # "phone"
  <2>1. Head(todo[t]).do = "roam"
    BY DEF Roam, Does
  <2> QED
    BY <1>0, <2>1, NotAPhone DEF OfPhone
<1>2. UNCHANGED <<commandLock, recovering>>
  BY DEF Roam, agent, flags
<1>3. backoff' \subseteq Net
  BY <1>0, ListedType DEF Roam, RestType
<1>4. CASE Done(t)
  <2>1. TodoInv'
    BY <1>0, <1>2, <1>4, FitsEmpty, GoesPlain DEF Done
  <2> QED
    BY <1>0, <1>3, <2>1 DEF Roam, NetworkInv, WifiType, StateType, RestType, LockType, wifi, agent,
                           flags
<1>5. ASSUME NEW order \in Ranked(SavedCandidates), DOMAIN order # {},
             Goes(t, <<CallOn("try", order[1].ssid, "priority")>>)
      PROVE  NetworkInv'
  <2>1. PICK n \in Nat : DOMAIN order = 1 .. n /\ \A i \in 1 .. n : order[i].ssid \in Net
    BY <1>0, CandidatesType
  <2>2. order[1].ssid \in Net
    BY <1>5, <2>1
  <2>3. /\ "try" \in OfThread(t) /\ "try" \in Task /\ "try" \notin {"drop", "join"}
        /\ "try" \notin Owned /\ "priority" \in Source
    BY <1>1 DEF OfThread, Task, Owned, Closing, Source
  <2>4. /\ Fits(t, <<CallOn("try", order[1].ssid, "priority")>>)
        /\ ~Owns(<<CallOn("try", order[1].ssid, "priority")>>)
    BY <2>2, <2>3, NamedCall
  <2>5. TodoInv'
    BY <1>0, <1>2, <1>5, <2>4, GoesPlain
  <2> QED
    BY <1>0, <1>3, <2>5 DEF Roam, NetworkInv, WifiType, StateType, RestType, LockType, wifi, agent,
                           flags
<1> QED
  BY <1>4, <1>5 DEF Roam

LEMMA AttemptNext ==
    ASSUME NetworkInv, NEW t \in Thread, Attempt(t)
    PROVE  NetworkInv'
<1>0. WifiType /\ StateType /\ RestType /\ LockType /\ TodoInv /\ todo[t] # << >>
  BY DEF NetworkInv, Attempt, Is
<1>1. CASE Release(t)
  <2>1. Head(todo[t]).do = "release"
    BY <1>1 DEF Release, Does
  <2>2. t # "phone"
    BY <1>0, <2>1, NotAPhone DEF OfPhone
  <2>3. TodoInv'
    BY <1>0, <1>1, <2>1, <2>2, Releases DEF Release
  <2> QED
    BY <1>0, <1>1, <2>3 DEF Release, NetworkInv, WifiType, StateType, RestType, LockType, wifi
<1>2. CASE Hold(t)
  <2>1. TodoInv'
    BY <1>0, <1>2, FitsEmpty, GoesPlain DEF Hold, Done
  <2>2. backoff' \subseteq Net
    BY <1>0, <1>2, ListedType DEF Hold
  <2>3. roamHold' \in Net
    BY <1>0, <1>2, HeadType DEF Hold, Does, Sound, AboutNet
  <2> QED
    BY <1>0, <1>2, <2>1, <2>2, <2>3 DEF Hold, NetworkInv, WifiType, StateType, RestType, LockType, wifi
<1> QED
  BY <1>1, <1>2, BestNext, ScannedNext, TryNext, TriedNext, RoamNext DEF Attempt

---------------------------------------------------------------------------
(* Startup and recovery *)

\* "best" for one of the agent's purposes.
LEMMA BestCall ==
    ASSUME NEW t \in Thread \ {"phone"}, NEW source \in Source
    PROVE  Fits(t, <<CallOn("best", NoNet, source)>>) /\ ~Owns(<<CallOn("best", NoNet, source)>>)
<1>1. /\ "best" \in OfThread(t) /\ "best" \in Task /\ "best" \notin {"drop", "join"}
      /\ "best" \notin AboutNet /\ "best" \notin Owned
  BY DEF OfThread, Task, AboutNet, Owned, Closing
<1> QED
  BY <1>1, NamedCall

\* The calls of the startup flow and of the recovery loop.
OfLoops == {"startup check", "startup failed", "start loops", "ensure", "rescan", "fall back",
            "loop", "loop online", "timers", "retry failed", "BLE timers", "give up", "BLE check",
            "recovered", "restart BLE", "stop BLE"}

LEMMA LoopCall ==
    ASSUME NEW t \in Thread \ {"phone"}, NEW task \in OfLoops
    PROVE  Fits(t, <<Call(task)>>) /\ ~Owns(<<Call(task)>>)
<1>1. task \in Task
  BY DEF OfLoops, Task
<1>2. task \notin Owned
  BY DEF OfLoops, Owned, Closing
<1>3. task \notin AboutNet
  BY DEF OfLoops, AboutNet
<1> QED
  BY <1>1, <1>2, <1>3, AgentCall

LEMMA StartupNext ==
    ASSUME NetworkInv, StartupStep
    PROVE  NetworkInv'
<1>0. WifiType /\ StateType /\ RestType /\ LockType /\ TodoInv /\ todo["watchdog"] # << >>
  BY DEF NetworkInv, StartupStep, Startup, StartupCheck, StartupFailed, StartLoops, Does
<1>1. "watchdog" \in Thread \ {"phone"}
  BY DEF Thread
<1>2. {"CHECKING_INTERNET", "DISCONNECTED", "BLE_PROVISIONING"} \subseteq NetworkState
  BY DEF NetworkState
<1>3. /\ "startup check" \in OfLoops /\ "startup failed" \in OfLoops /\ "start loops" \in OfLoops
      /\ "ensure" \in OfLoops /\ "startup" \in Source
  BY DEF OfLoops, Source
<1>4. CASE Startup \/ StartupFailed
  <2>1. UNCHANGED <<commandLock, recovering>>
    BY <1>4 DEF Startup, StartupFailed, flags
  <2>2. \/ Transition("watchdog", "CHECKING_INTERNET", <<Call("startup check")>>)
        \/ Transition("watchdog", "DISCONNECTED", << >>)
        \/ Transition("watchdog", "BLE_PROVISIONING", <<Call("ensure")>>)
    BY <1>4 DEF Startup, StartupFailed
  <2>3. TodoInv' /\ networkState' \in NetworkState
    BY <1>0, <1>1, <1>2, <1>3, <2>1, <2>2, LoopCall, FitsEmpty, TransitionPlain
  <2> QED
    BY <1>0, <1>4, <2>3 DEF Startup, StartupFailed, NetworkInv, WifiType, StateType, RestType,
                           LockType, wifi, flags
<1>5. CASE StartupCheck
  <2>1. PICK online \in BOOLEAN :
          /\ Validated(ConnectedSsid \in Net, online, TRUE)
          /\ \/ Goes("watchdog", <<Saw(ConnectedSsid, "startup"), Call("start loops")>>)
             \/ Goes("watchdog", <<CallOn("best", NoNet, "startup"), Call("startup failed"),
                                   Call("start loops")>>)
    BY <1>5 DEF StartupCheck
  <2>2. ConnectedSsid \in Net \cup {NoNet, Setup}
    BY <1>0 DEF ConnectedSsid, WifiType
  <2>3. /\ Fits("watchdog", <<Saw(ConnectedSsid, "startup"), Call("start loops")>>)
        /\ ~Owns(<<Saw(ConnectedSsid, "startup"), Call("start loops")>>)
    BY <1>1, <1>3, <2>2, SawCall, LoopCall, TwoCalls
  <2>4. /\ Fits("watchdog", <<CallOn("best", NoNet, "startup"), Call("startup failed"),
                              Call("start loops")>>)
        /\ ~Owns(<<CallOn("best", NoNet, "startup"), Call("startup failed"), Call("start loops")>>)
    BY <1>1, <1>3, BestCall, LoopCall, ThreeCalls
  <2>5. UNCHANGED <<commandLock, recovering>>
    BY <1>5 DEF StartupCheck, agent, flags
  <2>6. TodoInv'
    BY <1>0, <1>1, <2>1, <2>3, <2>4, <2>5, GoesPlain
  <2>7. lastCheck' \in {"stale", "online", "offline"}
    BY <1>0, <2>1, CheckType
  <2> QED
    BY <1>0, <1>5, <2>6, <2>7 DEF StartupCheck, NetworkInv, WifiType, StateType, RestType, LockType,
                                 wifi, agent, flags
<1>6. CASE StartLoops
  <2>1. /\ DOMAIN todo' = Thread /\ todo' = [u \in Thread |-> todo'[u]]
        /\ todo'["watchdog"] = Pass("watchdog") /\ todo'["scan"] = Pass("scan")
        /\ \A u \in Thread \ {"watchdog", "scan"} : todo'[u] = todo[u]
    BY <1>0, <1>6 DEF StartLoops, TodoInv, Thread
  <2>2. /\ Fits("watchdog", Pass("watchdog")) /\ ~Owns(Pass("watchdog"))
        /\ Fits("scan", Pass("scan")) /\ ~Owns(Pass("scan"))
    BY PassType DEF Thread
  <2>3. UNCHANGED <<commandLock, recovering>>
    BY <1>6 DEF StartLoops, agent, flags
  <2>4. \A u \in Thread : Fits(u, todo'[u])
    BY <1>0, <2>1, <2>2 DEF TodoInv
  <2>5. \A u \in Thread \ {"phone"} : Owns(todo'[u]) => commandLock' = u
    BY <1>0, <2>1, <2>2, <2>3 DEF TodoInv
  <2>6. todo'["recovery"] = todo["recovery"]
    BY <2>1 DEF Thread
  <2>7. TodoInv'
    BY <1>0, <2>1, <2>3, <2>4, <2>5, <2>6 DEF TodoInv
  <2> QED
    BY <1>0, <1>6, <2>7 DEF StartLoops, NetworkInv, WifiType, StateType, RestType, LockType,
                           wifi, agent, flags
<1> QED
  BY <1>4, <1>5, <1>6 DEF StartupStep

\* The calls that the recovery loop makes of a round.
RoundOfRecovery ==
    {<<Call("recovered")>>, <<Call("rescan")>>, <<Call("timers")>>, <<Call("loop")>>,
     <<Look("recovery-ble"), Call("loop online")>>,
     <<CallOn("best", NoNet, "recovery-retry"), Call("retry failed")>>,
     <<Call("stop BLE"), Call("BLE check")>>, <<Call("stop BLE"), Call("give up")>>,
     <<Call("restart BLE"), Call("loop")>>}

LEMMA RoundType ==
    ASSUME NEW calls \in RoundOfRecovery
    PROVE  Fits("recovery", calls) /\ ~Owns(calls)
<1>1. "recovery" \in Thread \ {"phone"}
  BY DEF Thread
<1>2. /\ "recovered" \in OfLoops /\ "rescan" \in OfLoops /\ "timers" \in OfLoops
      /\ "loop" \in OfLoops /\ "loop online" \in OfLoops /\ "retry failed" \in OfLoops
      /\ "stop BLE" \in OfLoops /\ "BLE check" \in OfLoops /\ "give up" \in OfLoops
      /\ "restart BLE" \in OfLoops /\ "recovery-ble" \in Source /\ "recovery-retry" \in Source
  BY DEF OfLoops, Source
<1>3. CASE calls \in {<<Call("recovered")>>, <<Call("rescan")>>, <<Call("timers")>>, <<Call("loop")>>}
  BY <1>1, <1>2, <1>3, LoopCall
<1>4. CASE calls = <<Look("recovery-ble"), Call("loop online")>>
  BY <1>1, <1>2, <1>4, LookCall, LoopCall, TwoCalls
<1>5. CASE calls = <<CallOn("best", NoNet, "recovery-retry"), Call("retry failed")>>
  BY <1>1, <1>2, <1>5, BestCall, LoopCall, TwoCalls
<1>6. CASE calls = <<Call("stop BLE"), Call("BLE check")>>
  BY <1>1, <1>2, <1>6, LoopCall, TwoCalls
<1>7. CASE calls = <<Call("restart BLE"), Call("loop")>>
  BY <1>1, <1>2, <1>7, LoopCall, TwoCalls
<1>8. CASE calls = <<Call("stop BLE"), Call("give up")>>
  BY <1>1, <1>2, <1>8, LoopCall, TwoCalls
<1> QED
  BY <1>3, <1>4, <1>5, <1>6, <1>7, <1>8 DEF RoundOfRecovery

LEMMA RecoveryNext ==
    ASSUME NetworkInv, RecoveryStep
    PROVE  NetworkInv'
<1>0. WifiType /\ StateType /\ RestType /\ LockType /\ TodoInv /\ todo["recovery"] # << >>
  BY DEF NetworkInv, RecoveryStep, Recover, Rescan, FallBack, Loop, LoopOnline, RetryDue, RetryFailed,
         BleTimesOut, BleRestartDue, NothingDue, GiveUp, Recovered, AtTimers, AtBleTimers,
         AtBleCheck, Recovering, Does
<1>1. "recovery" \in Thread \ {"phone"}
  BY DEF Thread
<1>2. Finish("recovery") = <<Call("recovered")>>
  BY DEF Finish
<1>3. ASSUME NEW calls \in RoundOfRecovery, Recovery(calls),
             UNCHANGED <<wifi, backoff, agent, server, events>>,
             lastCheck' \in {"stale", "online", "offline"}
      PROVE  NetworkInv'
  <2>1. TodoInv'
    BY <1>0, <1>1, <1>3, RoundType, GoesPlain DEF Recovery, agent, flags
  <2> QED
    BY <1>0, <1>3, <2>1 DEF NetworkInv, WifiType, StateType, RestType, LockType, wifi, agent, flags
<1>4. ASSUME NEW calls \in RoundOfRecovery, Recovery(calls),
             UNCHANGED <<wifi, backoff, agent, lastCheck, server, events>>
      PROVE  NetworkInv'
  BY <1>0, <1>3, <1>4 DEF RestType
<1>5. ASSUME NEW new \in NetworkState, NEW rest, Fits("recovery", rest), ~Owns(rest),
             Transition("recovery", new, rest),
             UNCHANGED <<wifi, backoff, bleActive, flags, lastCheck, server, events>>
      PROVE  NetworkInv'
  <2>1. TodoInv' /\ networkState' \in NetworkState
    BY <1>0, <1>1, <1>5, TransitionPlain DEF flags
  <2> QED
    BY <1>0, <1>5, <2>1 DEF NetworkInv, WifiType, StateType, RestType, LockType, wifi, flags
<1>6. CASE Recover \/ LoopOnline
  <2>1. PICK online \in BOOLEAN :
          /\ Validated(ConnectedSsid \in Net, online, FALSE) \/ InternetIs(online, FALSE)
          /\ \/ Recovery(<<Call("recovered")>>) \/ Recovery(<<Call("rescan")>>)
             \/ Recovery(<<Call("timers")>>)
    BY <1>2, <1>6 DEF Recover, LoopOnline
  <2>2. lastCheck' \in {"stale", "online", "offline"}
    BY <1>0, <2>1, CheckType
  <2> QED
    BY <1>3, <1>6, <2>1, <2>2 DEF Recover, LoopOnline, RoundOfRecovery
<1>7. CASE Rescan
  <2>1. CASE manual
    BY <1>2, <1>4, <1>7, <2>1 DEF Rescan, RoundOfRecovery, agent
  <2>2. CASE ~manual
    <3>1. /\ "fall back" \in OfLoops /\ "recovery" \in Source
          /\ "SCANNING_SAVED_NETWORKS" \in NetworkState
      BY DEF OfLoops, Source, NetworkState
    <3>2. /\ Fits("recovery", <<CallOn("best", NoNet, "recovery"), Call("fall back")>>)
          /\ ~Owns(<<CallOn("best", NoNet, "recovery"), Call("fall back")>>)
      BY <1>1, <3>1, BestCall, LoopCall, TwoCalls
    <3> QED
      BY <1>5, <1>7, <2>2, <3>1, <3>2 DEF Rescan
  <2> QED
    BY <2>1, <2>2 DEF StateType
<1>8. ASSUME NEW task \in {"loop", "BLE timers"}, NEW new \in {"BLE_PROVISIONING", "ERROR_BACKOFF"},
             Transition("recovery", new, <<Call(task)>>),
             UNCHANGED <<wifi, backoff, bleActive, flags, lastCheck, server, events>>
      PROVE  NetworkInv'
  <2>1. task \in OfLoops /\ new \in NetworkState
    BY DEF OfLoops, NetworkState
  <2> QED
    BY <1>1, <1>5, <1>8, <2>1, LoopCall
<1>9. CASE FallBack
  <2>1. CASE manual
    BY <1>2, <1>4, <1>9, <2>1 DEF FallBack, RoundOfRecovery, agent
  <2>2. CASE ~manual
    BY <1>8, <1>9, <2>2 DEF FallBack
  <2> QED
    BY <2>1, <2>2
<1>10. CASE RetryFailed \/ GiveUp
  BY <1>8, <1>10 DEF RetryFailed, GiveUp
<1>11. CASE Loop \/ RetryDue \/ BleTimesOut \/ BleRestartDue \/ NothingDue
  <2>1. /\ \E calls \in RoundOfRecovery : Recovery(calls)
        /\ UNCHANGED <<wifi, backoff, agent, lastCheck, server, events>>
    BY <1>11 DEF Loop, RetryDue, BleTimesOut, BleRestartDue, NothingDue, RoundOfRecovery
  <2> QED
    BY <1>4, <2>1
<1>12. CASE Recovered
  <2>1. /\ todo' = [todo EXCEPT !["recovery"] = << >>] /\ recovering' = FALSE
        /\ UNCHANGED commandLock
    BY <1>12 DEF Recovered
  <2>2. \A u \in Thread \ {"recovery", "phone"} : Owns(todo[u]) => commandLock' = u
    BY <1>0, <2>1 DEF TodoInv
  <2>3. TodoInv'
    BY <1>0, <1>1, <2>1, <2>2, FitsEmpty, GoesOn
  <2> QED
    BY <1>0, <1>12, <2>3 DEF Recovered, NetworkInv, WifiType, StateType, RestType, LockType, wifi
<1> QED
  BY <1>6, <1>7, <1>9, <1>10, <1>11, <1>12 DEF RecoveryStep

---------------------------------------------------------------------------
(* Remote commands and phones *)

\* "hold" for the network at hand, of a remote command or a phone.
LEMMA HoldCall ==
    ASSUME NEW t, NEW n \in Net
    PROVE  Fits(t, <<CallOn("hold", n, "none")>>) /\ ~Owns(<<CallOn("hold", n, "none")>>)
<1>1. /\ "hold" \in OfThread(t) /\ "hold" \in Task /\ "hold" \notin {"drop", "join"}
      /\ "hold" \notin Owned /\ "none" \in Source
  BY DEF OfThread, OfPhone, Task, Owned, Closing, Source
<1> QED
  BY <1>1, NamedCall

\* The calls of a remote command that has found the locker online.
LEMMA OnlineCalls ==
    ASSUME WifiType, NEW n \in Net, NEW source \in Source
    PROVE  Fits("remote", <<Saw(ConnectedSsid, source), CallOn("hold", n, "none"), Call("answer")>>)
<1>1. ConnectedSsid \in Net \cup {NoNet, Setup} /\ "remote" \in Thread \ {"phone"}
  BY DEF ConnectedSsid, WifiType, Thread
<1> QED
  BY <1>1, SawCall, HoldCall, HolderCall, ThreeCalls

LEMMA RemoteLocksNext ==
    ASSUME NetworkInv, RemoteLocks
    PROVE  NetworkInv'
<1>0. WifiType /\ StateType /\ RestType /\ LockType /\ TodoInv /\ todo["remote"] # << >>
  BY DEF NetworkInv, RemoteLocks, Does
<1>1. "remote" \in Thread \ {"phone"} /\ "CONNECTING" \in NetworkState /\ "new" \in Source
  BY DEF Thread, NetworkState, Source
<1>2. PICK c : c = Head(todo["remote"]) /\ Sound("remote", c) /\ c.net \in Net
  <2>1. Head(todo["remote"]).do = "lock"
    BY DEF RemoteLocks, Does
  <2> QED
    BY <1>0, <1>1, <2>1, HeadType DEF Sound, AboutNet
<1>3. /\ Sound("remote", [c EXCEPT !.do = "answered"])
      /\ [c EXCEPT !.do = "answered"].do \notin {"drop", "join"}
  <2>1. "answered" \in OfThread("remote") /\ "answered" \in Task /\ "answered" \notin {"drop", "join"}
    BY DEF OfThread, Task
  <2> QED
    BY <1>2, <2>1, RenamedCall
<1>4. Fits("remote", Activate(c.net, "new", [c EXCEPT !.do = "answered"]))
  BY <1>1, <1>2, <1>3, FitsActivate
<1>5. /\ commandLock = "free" /\ commandLock' = "remote" /\ UNCHANGED recovering
      /\ Transition("remote", "CONNECTING", Activate(c.net, "new", [c EXCEPT !.do = "answered"]))
  BY <1>2 DEF RemoteLocks
<1>6. ~Owns(Tail(todo["remote"]))
  BY <1>0, <1>1, <1>5, HeadType DEF Thread
<1>7. TodoInv' /\ networkState' \in NetworkState
  BY <1>0, <1>1, <1>4, <1>5, <1>6, TransitionOwning
<1> QED
  BY <1>0, <1>1, <1>5, <1>7 DEF RemoteLocks, NetworkInv, WifiType, StateType, RestType, LockType, wifi

\* What a remote command goes on with while it holds the lock.
LEMMA RemoteHolds ==
    ASSUME TodoInv, todo["remote"] # << >>, Head(todo["remote"]).do \in Closing
    PROVE  commandLock = "remote" /\ ~Owns(Tail(todo["remote"]))
<1>1. "remote" \in Thread /\ "remote" # "phone" /\ Head(todo["remote"]).do \in Owned
  BY DEF Thread, Owned
<1> QED
  BY <1>1, HeadType

LEMMA RemoteAnsweredNext ==
    ASSUME NetworkInv, RemoteAnswered
    PROVE  NetworkInv'
<1>0. WifiType /\ StateType /\ RestType /\ LockType /\ TodoInv /\ todo["remote"] # << >>
  BY DEF NetworkInv, RemoteAnswered, Does
<1>1. "remote" \in Thread \ {"phone"} /\ "remote" \in Source
  BY DEF Thread, Source
<1>2. Head(todo["remote"]).do = "answered"
  BY DEF RemoteAnswered, Does
<1>3. PICK c : c = Head(todo["remote"]) /\ Sound("remote", c) /\ c.net \in Net
  BY <1>0, <1>1, <1>2, HeadType DEF Sound, AboutNet
<1>4. commandLock = "remote" /\ ~Owns(Tail(todo["remote"]))
  BY <1>0, <1>2, RemoteHolds DEF Closing
<1>5. PICK online \in BOOLEAN :
        /\ Validated(c.ok /\ ConnectedSsid # NoNet, online, TRUE)
        /\ \/ /\ UNCHANGED backoff
              /\ Goes("remote", <<Saw(ConnectedSsid, "remote"), CallOn("hold", c.net, "none"),
                                  Call("answer")>>)
           \/ /\ backoff' = backoff \cup {c.net}
              /\ Goes("remote", <<[c EXCEPT !.do = "late"]>>)
  BY <1>3 DEF RemoteAnswered
<1>6. Fits("remote", <<Saw(ConnectedSsid, "remote"), CallOn("hold", c.net, "none"), Call("answer")>>)
  BY <1>0, <1>1, <1>3, OnlineCalls
<1>7. Fits("remote", <<[c EXCEPT !.do = "late"]>>)
  <2>1. "late" \in OfThread("remote") /\ "late" \in Task /\ "late" \notin {"drop", "join"}
    BY DEF OfThread, Task
  <2> QED
    BY <1>3, <2>1, RenamedCall
<1>8. UNCHANGED <<commandLock, recovering>>
  BY DEF RemoteAnswered, agent, flags
<1>9. TodoInv'
  BY <1>0, <1>1, <1>4, <1>5, <1>6, <1>7, <1>8, GoesOwning
<1>10. lastCheck' \in {"stale", "online", "offline"}
  BY <1>0, <1>5, CheckType
<1>11. backoff' \subseteq Net
  BY <1>0, <1>3, <1>5 DEF RestType
<1> QED
  BY <1>0, <1>9, <1>10, <1>11 DEF RemoteAnswered, NetworkInv, WifiType, StateType, RestType, LockType,
                                 wifi, agent, flags

LEMMA RemoteLateNext ==
    ASSUME NetworkInv, RemoteLate
    PROVE  NetworkInv'
<1>0. WifiType /\ StateType /\ RestType /\ LockType /\ TodoInv /\ todo["remote"] # << >>
  BY DEF NetworkInv, RemoteLate, Does
<1>1. "remote" \in Thread \ {"phone"} /\ "remote-late" \in Source /\ "saved" \in Source
  BY DEF Thread, Source
<1>2. Head(todo["remote"]).do = "late"
  BY DEF RemoteLate, Does
<1>3. PICK c : c = Head(todo["remote"]) /\ Sound("remote", c) /\ c.net \in Net
  BY <1>0, <1>1, <1>2, HeadType DEF Sound, AboutNet
<1>4. commandLock = "remote" /\ ~Owns(Tail(todo["remote"]))
  BY <1>0, <1>2, RemoteHolds DEF Closing
<1> DEFINE back   == Activate(c.from, "saved", [c EXCEPT !.do = "fell back"])
           failed == <<Call("failed")>>
<1>5. PICK online \in BOOLEAN :
        /\ Validated(ConnectedSsid = c.net, online, TRUE)
        /\ \/ Goes("remote", <<Saw(ConnectedSsid, "remote-late"), CallOn("hold", c.net, "none"),
                               Call("answer")>>)
           \/ c.from \in Net /\ Goes("remote", back \o failed)
           \/ Goes("remote", << >> \o failed)
  BY <1>3 DEF RemoteLate
<1>6. Fits("remote", <<Saw(ConnectedSsid, "remote-late"), CallOn("hold", c.net, "none"), Call("answer")>>)
  BY <1>0, <1>1, <1>3, OnlineCalls
<1>7. Fits("remote", failed)
  BY <1>1, HolderCall
<1>8. Fits("remote", << >> \o failed)
  BY <1>7, FitsEmpty, FitsConcat
<1>9. ASSUME c.from \in Net
      PROVE  Fits("remote", back \o failed)
  <2>1. /\ "fell back" \in OfThread("remote") /\ "fell back" \in Task
        /\ "fell back" \notin {"drop", "join"} /\ "fell back" \notin Closing
    BY DEF OfThread, Task, Closing
  <2>2. /\ Sound("remote", [c EXCEPT !.do = "fell back"])
        /\ [c EXCEPT !.do = "fell back"].do = "fell back"
    BY <1>3, <2>1, RenamedCall
  <2>3. Fits("remote", back) /\ ~Closes(back)
    BY <1>1, <1>9, <2>1, <2>2, FitsActivate
  <2> HIDE DEF back, failed
  <2> QED
    BY <1>7, <2>3, FitsJoin
<1> HIDE DEF back, failed
<1>10. UNCHANGED <<commandLock, recovering>>
  BY DEF RemoteLate, agent, flags
<1>11. TodoInv'
  BY <1>0, <1>1, <1>4, <1>5, <1>6, <1>8, <1>9, <1>10, GoesOwning
<1>12. lastCheck' \in {"stale", "online", "offline"}
  BY <1>0, <1>5, CheckType
<1> QED
  BY <1>0, <1>11, <1>12 DEF RemoteLate, NetworkInv, WifiType, StateType, RestType, LockType, wifi,
                           agent, flags

LEMMA RemoteFellBackNext ==
    ASSUME NetworkInv, RemoteFellBack
    PROVE  NetworkInv'
<1>0. WifiType /\ StateType /\ RestType /\ LockType /\ TodoInv /\ todo["remote"] # << >>
  BY DEF NetworkInv, RemoteFellBack, Does
<1>1. "remote" \in Thread /\ "remote-fallback" \in Source /\ ConnectedSsid \in Net \cup {NoNet, Setup}
  BY <1>0 DEF Thread, Source, ConnectedSsid, WifiType
<1>2. PICK online \in BOOLEAN :
        /\ Validated(Head(todo["remote"]).ok /\ ConnectedSsid # NoNet, online, TRUE)
        /\ \/ Goes("remote", <<Saw(ConnectedSsid, "remote-fallback")>>)
           \/ Goes("remote", << >>)
  BY DEF RemoteFellBack
<1>3. UNCHANGED <<commandLock, recovering>>
  BY DEF RemoteFellBack, agent, flags
<1>4. TodoInv'
  BY <1>0, <1>1, <1>2, <1>3, SawCall, FitsEmpty, GoesPlain
<1>5. lastCheck' \in {"stale", "online", "offline"}
  BY <1>0, <1>2, CheckType
<1> QED
  BY <1>0, <1>4, <1>5 DEF RemoteFellBack, NetworkInv, WifiType, StateType, RestType, LockType, wifi,
                         agent, flags

LEMMA RemoteFailedNext ==
    ASSUME NetworkInv, RemoteFailed
    PROVE  NetworkInv'
<1>0. WifiType /\ StateType /\ RestType /\ LockType /\ TodoInv /\ todo["remote"] # << >>
  BY DEF NetworkInv, RemoteFailed, Does
<1>1. /\ "remote" \in Thread \ {"phone"} /\ "ERROR_BACKOFF" \in NetworkState
      /\ "BLE_PROVISIONING" \in NetworkState
  BY DEF Thread, NetworkState
<1>2. commandLock = "remote" /\ ~Owns(Tail(todo["remote"]))
  BY <1>0, RemoteHolds DEF RemoteFailed, Does, Closing
<1>3. UNCHANGED <<commandLock, recovering>>
  BY DEF RemoteFailed, flags
<1>4. PICK new \in NetworkState : Transition("remote", new, <<Call("answer")>>)
  BY <1>1 DEF RemoteFailed
<1>5. TodoInv' /\ networkState' \in NetworkState
  BY <1>0, <1>1, <1>2, <1>3, <1>4, HolderCall, TransitionOwning
<1>6. backoff' \subseteq Net
  BY <1>0, ListedType DEF RemoteFailed
<1> QED
  BY <1>0, <1>5, <1>6 DEF RemoteFailed, NetworkInv, WifiType, StateType, RestType, LockType, wifi, flags

LEMMA RemoteNext ==
    ASSUME NetworkInv, RemoteStep
    PROVE  NetworkInv'
<1>1. CASE RemoteAnswer
  <2>0. WifiType /\ StateType /\ RestType /\ LockType /\ TodoInv /\ todo["remote"] # << >>
    BY <1>1 DEF NetworkInv, RemoteAnswer, Does
  <2>1. Head(todo["remote"]).do = "answer" /\ "remote" \in Thread \ {"phone"}
    BY <1>1 DEF RemoteAnswer, Does, Thread
  <2>2. TodoInv'
    BY <1>1, <2>0, <2>1, Releases DEF RemoteAnswer
  <2> QED
    BY <1>1, <2>0, <2>2 DEF RemoteAnswer, NetworkInv, WifiType, StateType, RestType, LockType, wifi
<1> QED
  BY <1>1, RemoteLocksNext, RemoteAnsweredNext, RemoteLateNext, RemoteFellBackNext, RemoteFailedNext
     DEF RemoteStep

LEMMA PhoneNext ==
    ASSUME NetworkInv, PhoneStep
    PROVE  NetworkInv'
<1>0. WifiType /\ StateType /\ RestType /\ LockType /\ TodoInv /\ todo["phone"] # << >>
  BY DEF NetworkInv, PhoneStep, PhoneAnswered, Provisioned, Does
<1>1. "phone" \in Thread /\ "phone" \in Source /\ ConnectedSsid \in Net \cup {NoNet, Setup}
  BY <1>0 DEF Thread, Source, ConnectedSsid, WifiType
<1>2. PICK c : c = Head(todo["phone"]) /\ Sound("phone", c) /\ c.net \in Net
  <2>1. Head(todo["phone"]).do \in {"response", "provisioned"}
    BY DEF PhoneStep, PhoneAnswered, Provisioned, Does
  <2> QED
    BY <1>0, <1>1, <2>1, HeadType DEF Sound, AboutNet
<1>3. UNCHANGED <<commandLock, recovering>>
  BY DEF PhoneStep, PhoneAnswered, Provisioned, agent, flags
<1>4. CASE PhoneAnswered
  <2>1. /\ Fits("phone", <<[c EXCEPT !.do = "provisioned"]>>)
        /\ ~Owns(<<[c EXCEPT !.do = "provisioned"]>>)
    <3>1. /\ "provisioned" \in OfThread("phone") /\ "provisioned" \in Task
          /\ "provisioned" \notin {"drop", "join"} /\ "provisioned" \notin Owned
      BY DEF OfThread, OfPhone, Task, Owned, Closing
    <3> QED
      BY <1>2, <3>1, RenamedCall
  <2>2. Goes("phone", <<[c EXCEPT !.do = "provisioned"]>>) \/ Goes("phone", << >>)
    BY <1>2, <1>4 DEF PhoneAnswered
  <2>3. TodoInv'
    BY <1>0, <1>1, <1>3, <2>1, <2>2, FitsEmpty, GoesPlain
  <2> QED
    BY <1>0, <1>4, <2>3 DEF PhoneAnswered, NetworkInv, WifiType, StateType, RestType, LockType, wifi,
                           agent, flags
<1>5. CASE Provisioned
  <2>1. PICK online \in BOOLEAN :
          /\ Validated(ConnectedSsid # NoNet, online, TRUE)
          /\ \/ /\ UNCHANGED backoff
                /\ Goes("phone", <<Saw(ConnectedSsid, "phone"), CallOn("hold", c.net, "none")>>)
             \/ /\ backoff' = backoff \cup {c.net}
                /\ Goes("phone", <<Call("ensure")>>)
    BY <1>2, <1>5 DEF Provisioned
  <2>2. /\ Fits("phone", <<Saw(ConnectedSsid, "phone"), CallOn("hold", c.net, "none")>>)
        /\ ~Owns(<<Saw(ConnectedSsid, "phone"), CallOn("hold", c.net, "none")>>)
    BY <1>1, <1>2, SawCall, HoldCall, TwoCalls
  <2>3. Fits("phone", <<Call("ensure")>>) /\ ~Owns(<<Call("ensure")>>)
    BY <1>1, EnsureCall
  <2>4. TodoInv'
    BY <1>0, <1>1, <1>3, <2>1, <2>2, <2>3, GoesPlain
  <2>5. lastCheck' \in {"stale", "online", "offline"}
    BY <1>0, <2>1, CheckType
  <2>6. backoff' \subseteq Net
    BY <1>0, <1>2, <2>1 DEF RestType
  <2> QED
    BY <1>0, <1>5, <2>4, <2>5, <2>6 DEF Provisioned, NetworkInv, WifiType, StateType, RestType,
                                       LockType, wifi, agent, flags
<1> QED
  BY <1>4, <1>5 DEF PhoneStep

---------------------------------------------------------------------------
(* The environment *)

LEMMA RemoteConnectNext ==
    ASSUME NetworkInv, NEW n \in Net, RemoteConnect(n)
    PROVE  NetworkInv'
<1>0. WifiType /\ StateType /\ RestType /\ LockType /\ TodoInv
  BY DEF NetworkInv
<1> DEFINE from == IF ConnectedSsid = n THEN NoNet ELSE ConnectedSsid
           c    == [Call("lock") EXCEPT !.net = n, !.from = from]
<1>1. c \in Calls /\ c.do = "lock" /\ c.net = n
  <2>1. from \in Net \cup {NoNet, Setup} /\ "lock" \in Task
    BY <1>0 DEF ConnectedSsid, WifiType, Task
  <2> HIDE DEF from
  <2> QED
    BY <2>1, CallType DEF Calls, Call
<1>2. todo' = [todo EXCEPT !["remote"] = <<c>>]
  BY DEF RemoteConnect
<1> HIDE DEF c
<1>3. Fits("remote", <<c>>) /\ ~Owns(<<c>>)
  <2>1. Sound("remote", c) /\ "lock" \notin {"drop", "join"} /\ "lock" \notin Owned
    BY <1>1 DEF Sound, OfThread, Task, Owned, Closing
  <2> QED
    BY <1>1, <2>1, FitsOne
<1>4. UNCHANGED <<commandLock, recovering>> /\ "remote" \in Thread
  BY DEF RemoteConnect, Thread
<1>5. /\ \A u \in Thread \ {"remote", "phone"} : Owns(todo[u]) => commandLock' = u
      /\ todo["recovery"] # << >> => recovering'
  BY <1>0, <1>4 DEF TodoInv
<1>6. TodoInv'
  BY <1>0, <1>2, <1>3, <1>4, <1>5, GoesOn
<1>7. events' \in Nat
  BY <1>0 DEF RemoteConnect, RestType
<1> QED
  BY <1>0, <1>6, <1>7 DEF RemoteConnect, NetworkInv, WifiType, StateType, RestType, LockType, wifi

LEMMA PhoneConnectsNext ==
    ASSUME NetworkInv, NEW n \in Net, PhoneConnects(n)
    PROVE  NetworkInv'
<1>0. WifiType /\ StateType /\ RestType /\ LockType /\ TodoInv
  BY DEF NetworkInv
<1> DEFINE c == CallOn("response", n, "none")
           s == Activate(n, "new", c)
<1>1. todo' = [todo EXCEPT !["phone"] = s]
  BY DEF PhoneConnects
<1>2. Sound("phone", c) /\ c.do \notin {"drop", "join"}
  <2>1. "response" \in Task /\ "response" \in OfThread("phone") /\ "none" \in Source
    BY DEF Task, OfThread, OfPhone, Source
  <2>2. c \in Calls /\ c.do = "response" /\ c.net = n
    BY <2>1, CallOnType
  <2> HIDE DEF c
  <2> QED
    BY <2>1, <2>2 DEF Sound
<1> HIDE DEF c
<1>3. Fits("phone", s)
  <2>1. "new" \in Source
    BY DEF Source
  <2> QED
    BY <1>2, <2>1, FitsActivate
<1> HIDE DEF s
<1>4. UNCHANGED <<commandLock, recovering>> /\ "phone" \in Thread
  BY DEF PhoneConnects, Thread, agent, flags
<1>5. /\ \A u \in Thread \ {"phone"} : Owns(todo[u]) => commandLock' = u
      /\ todo["recovery"] # << >> => recovering'
  BY <1>0, <1>4 DEF TodoInv
<1>6. TodoInv'
  BY <1>0, <1>1, <1>3, <1>4, <1>5, GoesOn
<1>7. events' \in Nat
  BY <1>0 DEF PhoneConnects, RestType
<1> QED
  BY <1>0, <1>6, <1>7 DEF PhoneConnects, NetworkInv, WifiType, StateType, RestType, LockType, wifi,
                         agent, flags

\* What the air, the BLE server and time do; none of it changes what threads have to do.
LEMMA OutsideNext ==
    ASSUME NetworkInv,
           \/ ServerStep \/ Timers \/ HotspotStarts \/ ServerFails
           \/ \E n \in Net, a \in Air : AirChanges(n, a)
           \/ \E n \in Net : AutoJoin(n)
    PROVE  NetworkInv'
<1>0. WifiType /\ StateType /\ RestType /\ LockType /\ TodoInv
  BY DEF NetworkInv
<1>1. CASE ServerStep \/ ServerFails
  <2>1. UNCHANGED <<wifi, backoff, agent, lastCheck, todo>> /\ server' \in Server /\ events' \in Nat
    BY <1>0, <1>1 DEF ServerStep, ServerRuns, ServerReady, ServerEnds, ServerFails, Server, RestType
  <2>2. TodoInv'
    BY <1>0, <2>1, TodoKept DEF agent, flags
  <2> QED
    BY <1>0, <2>1, <2>2 DEF NetworkInv, WifiType, StateType, RestType, LockType, wifi, agent, flags
<1>2. CASE Timers
  <2>1. /\ UNCHANGED <<wifi, networkState, bleActive, recovering, manual, commandLock, server, todo, events>>
        /\ backoff' \subseteq Net /\ roamHold' \in Net \cup {NoNet}
        /\ lastCheck' \in {"stale", "online", "offline"}
    BY <1>0, <1>2 DEF Timers, CheckExpires, HoldEnds, BackoffExpires, RestType, agent, flags
  <2>2. TodoInv'
    BY <1>0, <2>1, TodoKept
  <2> QED
    BY <1>0, <2>1, <2>2 DEF NetworkInv, WifiType, StateType, RestType, LockType, wifi
<1>3. CASE \/ HotspotStarts \/ \E n \in Net, a \in Air : AirChanges(n, a)
           \/ \E n \in Net : AutoJoin(n)
  <2>1. /\ UNCHANGED <<given, saved, backoff, agent, lastCheck, server, todo>> /\ events' \in Nat
        /\ air' \in [Net -> Air] /\ assoc' \in Net \cup {NoNet, Setup} /\ autoJoin' \in BOOLEAN
    <3>1. CASE HotspotStarts
      <4>1. events' \in Nat
        BY <1>0, <3>1 DEF HotspotStarts, RestType
      <4>2. /\ assoc' = Setup /\ autoJoin' = FALSE
            /\ UNCHANGED <<given, air, saved, backoff, agent, lastCheck, server, todo>>
        BY <3>1 DEF HotspotStarts
      <4> QED
        BY <1>0, <4>1, <4>2 DEF WifiType
    <3>2. ASSUME NEW n \in Net, NEW a \in Air, AirChanges(n, a)
          PROVE  <2>1
      <4>1. air' \in [Net -> Air] /\ assoc' \in Net \cup {NoNet, Setup} /\ events' \in Nat
        BY <1>0, <3>2 DEF AirChanges, WifiType, RestType
      <4> QED
        BY <1>0, <3>2, <4>1 DEF AirChanges, WifiType
    <3>3. ASSUME NEW n \in Net, AutoJoin(n)
          PROVE  <2>1
      BY <1>0, <3>3 DEF AutoJoin, WifiType, RestType
    <3> QED
      BY <1>3, <3>1, <3>2, <3>3
  <2>2. TodoInv'
    BY <1>0, <2>1, TodoKept DEF agent, flags
  <2> QED
    BY <1>0, <2>1, <2>2 DEF NetworkInv, WifiType, StateType, RestType, LockType, agent, flags
<1> QED
  BY <1>1, <1>2, <1>3

LEMMA EnvironmentNext ==
    ASSUME NetworkInv, ServerStep \/ Timers \/ Environment
    PROVE  NetworkInv'
<1>1. CASE ReconnectPressure
  <2>0. WifiType /\ StateType /\ RestType /\ LockType /\ TodoInv
    BY DEF NetworkInv
  <2>1. TodoInv'
    BY <1>1, <2>0, RecoveryBegins DEF ReconnectPressure
  <2> QED
    BY <1>1, <2>0, <2>1 DEF ReconnectPressure, NetworkInv, WifiType, StateType, RestType, LockType, wifi
<1> QED
  BY <1>1, OutsideNext, RemoteConnectNext, PhoneConnectsNext DEF Environment

---------------------------------------------------------------------------
(* The system *)

LEMMA InitInv == Init => NetworkInv
<1> SUFFICES ASSUME Init
             PROVE  NetworkInv
  OBVIOUS
<1>1. /\ given \in Start /\ given.air \in [Net -> Air] /\ given.saved \subseteq Net
      /\ given.events \in Nat
  BY NetworkAssumption DEF Init
<1>2. WifiType /\ StateType /\ RestType /\ LockType
  BY <1>1 DEF Init, WifiType, StateType, RestType, LockType, NetworkState, Server
<1>3. /\ DOMAIN todo = Thread /\ todo = [t \in Thread |-> todo[t]]
      /\ todo["watchdog"] = <<Call("startup")>> /\ todo["scan"] = <<Call("start loops")>>
      /\ \A t \in Thread \ {"watchdog", "scan"} : todo[t] = << >>
  BY DEF Init, Thread
<1>4. /\ Fits("watchdog", <<Call("startup")>>) /\ ~Owns(<<Call("startup")>>)
      /\ Fits("scan", <<Call("start loops")>>) /\ ~Owns(<<Call("start loops")>>)
  <2>1. /\ "watchdog" \in Thread \ {"phone"} /\ "scan" \in Thread \ {"phone"}
        /\ "startup" \in Task /\ "startup" \notin Owned /\ "startup" \notin AboutNet
        /\ "start loops" \in Task /\ "start loops" \notin Owned /\ "start loops" \notin AboutNet
    BY DEF Thread, Task, Owned, Closing, AboutNet
  <2> QED
    BY <2>1, AgentCall
<1>5. ASSUME NEW t \in Thread
      PROVE  Fits(t, todo[t]) /\ ~Owns(todo[t])
  <2>1. CASE t = "watchdog"
    BY <1>3, <1>4, <2>1
  <2>2. CASE t = "scan"
    BY <1>3, <1>4, <2>2
  <2>3. CASE t \notin {"watchdog", "scan"}
    <3>1. todo[t] = << >>
      BY <1>3, <2>3
    <3> QED
      BY <3>1, FitsEmpty
  <2> QED
    BY <2>1, <2>2, <2>3
<1>6. todo["recovery"] = << >>
  BY <1>3 DEF Thread
<1> QED
  BY <1>2, <1>3, <1>5, <1>6 DEF NetworkInv, TodoInv

LEMMA NextInv == NetworkInv /\ [Next]_vars => NetworkInv'
<1> SUFFICES ASSUME NetworkInv, [Next]_vars
             PROVE  NetworkInv'
  OBVIOUS
<1>1. ASSUME NEW t \in Thread, Step(t)
      PROVE  NetworkInv'
  BY <1>1, BleNext, WifiNext, ObservationNext, AttemptNext, StartupNext, RecoveryNext, RemoteNext,
     PhoneNext DEF Step
<1>2. CASE ServerStep \/ Timers \/ Environment
  BY <1>2, EnvironmentNext
<1>3. CASE UNCHANGED vars
  <2>1. TodoInv'
    BY <1>3, TodoKept DEF NetworkInv, vars, agent, flags
  <2> QED
    BY <1>3, <2>1 DEF NetworkInv, WifiType, StateType, RestType, LockType, vars, wifi, agent, flags
<1> QED
  BY <1>1, <1>2, <1>3 DEF Next

\* NetworkAgent (hardware agent): all variables keep their types and a thread its calls, with
\* any number of networks, starts and events: a call about a network always names one, an
\* activation always has a call that takes its outcome, and no network is ever "no network".
THEOREM NetworkTypeCorrect == Spec => []NetworkTypeOK
<1>1. NetworkInv => NetworkTypeOK
  BY InvType
<1> QED
  BY <1>1, InitInv, NextInv, PTL DEF Spec

\* _command_lock: the watchdog, the scan loop, the recovery and a remote wifi.connect never work
\* on the Wi-Fi at once, although the remote command waits for the lock and the others give up.
THEOREM CommandLockHeld == Spec => []OneNetworkCommand
<1>1. NetworkInv => OneNetworkCommand
  BY InvType
<1> QED
  BY <1>1, InitInv, NextInv, PTL DEF Spec

(***************************************************************************)
(* What keeps others out has an owner.  An attempt, a recovery and a       *)
(* remote command each take a flag, and no flag says who is to give it     *)
(* back: that is in the calls the threads still have before them.          *)
(***************************************************************************)
(* The calls before a thread, whatever their order. *)
Tasks(s) == {s[i].do : i \in DOMAIN s}

StartupCalls == {"startup", "startup check", "startup failed", "start loops"}
LoopCalls    == {"recover", "rescan", "fall back", "loop", "loop online", "timers", "retry failed",
                 "BLE timers", "give up", "BLE check", "recovered"}
RemoteCalls  == {"lock", "answered", "late", "failed", "answer"}
Attempting   == {"best", "scanned", "try", "tried", "roam"}

\* The calls a startup or a recovery consists of; what one of them does comes in front of it.
Base == StartupCalls \cup LoopCalls

\* What keeps others out is always about to be given back: who holds the command lock has a call
\* before it that ends with its release, a recovery that is taken to be in progress a thread that
\* is still in it, a remote command that makes the others wait the steps that lead to its answer.
FlagsHaveOwners ==
    /\ commandLock # "free" => Tasks(todo[commandLock]) \cap Closing # {}
    /\ recovering => Tasks(todo["recovery"]) \cap LoopCalls # {}
    /\ manual => Tasks(todo["remote"]) \cap RemoteCalls # {}

\* What an attempt still has to do is never behind a call of the startup or the recovery.
Orderly(s) == \A i, j \in DOMAIN s : i < j /\ s[i].do \in Base => s[j].do \notin Owned

\* What the scan loop has before it until the startup is over.
Waiting == <<Call("start loops")>>

\* Only the loops and the startup make attempts with saved networks, a remote command none; and
\* as long as the startup may make them the scan loop has not begun.
Apart ==
    /\ \A t \in Thread : Orderly(todo[t])
    /\ Tasks(todo["remote"]) \cap Attempting = {}
    /\ Tasks(todo["watchdog"]) \cap (StartupCalls \cup Attempting) # {}
           => todo["scan"] = Waiting

OwnerInv == FlagsHaveOwners /\ Apart

LEMMA TasksFew ==
    ASSUME NEW c, NEW d, NEW e
    PROVE  /\ Tasks(<< >>) = {} /\ Tasks(<<c>>) = {c.do} /\ Tasks(<<c, d>>) = {c.do, d.do}
           /\ Tasks(<<c, d, e>>) = {c.do, d.do, e.do}
<1>1. Tasks(<< >>) = {}
  BY DEF Tasks
<1>2. Tasks(<<c>>) = {c.do}
  BY DEF Tasks
<1>3. Tasks(<<c, d>>) = {c.do, d.do}
  <2>1. DOMAIN <<c, d>> = {1, 2} /\ <<c, d>>[1] = c /\ <<c, d>>[2] = d
    OBVIOUS
  <2> QED
    BY <2>1 DEF Tasks
<1>4. Tasks(<<c, d, e>>) = {c.do, d.do, e.do}
  <2>1. DOMAIN <<c, d, e>> = {1, 2, 3} /\ <<c, d, e>>[1] = c /\ <<c, d, e>>[2] = d /\ <<c, d, e>>[3] = e
    OBVIOUS
  <2> QED
    BY <2>1 DEF Tasks
<1> QED
  BY <1>1, <1>2, <1>3, <1>4

LEMMA FewInSeq ==
    ASSUME NEW c, NEW d, NEW e
    PROVE  /\ << >> \in Seq({c}) /\ <<c>> \in Seq({c}) /\ <<c, d>> \in Seq({c, d})
           /\ <<c, d, e>> \in Seq({c, d, e})
OBVIOUS

LEMMA TasksJoin ==
    ASSUME NEW A, NEW a \in Seq(A), NEW B, NEW b \in Seq(B)
    PROVE  /\ Tasks(a \o b) = Tasks(a) \cup Tasks(b)
           /\ Orderly(b) /\ Tasks(a) \cap Base = {} => Orderly(a \o b)
           /\ Tasks(a) \cap Owned = {} /\ Tasks(b) \cap Owned = {} => Orderly(a \o b)
<1> DEFINE s == a \o b
<1>0. a \in Seq(A \cup B) /\ b \in Seq(A \cup B)
  <2>1. /\ Len(a) \in Nat /\ a = [i \in 1 .. Len(a) |-> a[i]] /\ \A i \in 1 .. Len(a) : a[i] \in A \cup B
        /\ Len(b) \in Nat /\ b = [i \in 1 .. Len(b) |-> b[i]] /\ \A i \in 1 .. Len(b) : b[i] \in A \cup B
    OBVIOUS
  <2> QED
    BY <2>1
<1>1. /\ s \in Seq(A \cup B) /\ Len(a) \in Nat /\ Len(b) \in Nat
      /\ DOMAIN a = 1 .. Len(a) /\ DOMAIN b = 1 .. Len(b) /\ DOMAIN s = 1 .. (Len(a) + Len(b))
  BY <1>0
<1>2. \A i \in DOMAIN a : i \in DOMAIN s /\ s[i] = a[i]
  BY <1>0, <1>1
<1>3. \A i \in DOMAIN b : Len(a) + i \in DOMAIN s /\ s[Len(a) + i] = b[i]
  BY <1>0, <1>1
<1>4. \A i \in DOMAIN s : \/ i \in DOMAIN a /\ s[i] = a[i]
                          \/ i - Len(a) \in DOMAIN b /\ s[i] = b[i - Len(a)]
  BY <1>0, <1>1
<1> HIDE DEF s
<1>5. Tasks(s) = Tasks(a) \cup Tasks(b)
  BY <1>2, <1>3, <1>4 DEF Tasks
<1>6. ASSUME Orderly(b), Tasks(a) \cap Base = {}
      PROVE  Orderly(s)
  <2> SUFFICES ASSUME NEW i \in DOMAIN s, NEW j \in DOMAIN s, i < j, s[i].do \in Base
               PROVE  s[j].do \notin Owned
    BY DEF Orderly
  <2>1. i - Len(a) \in DOMAIN b /\ s[i] = b[i - Len(a)]
    BY <1>4, <1>6 DEF Tasks
  <2>2. j - Len(a) \in DOMAIN b /\ s[j] = b[j - Len(a)] /\ i - Len(a) < j - Len(a)
    BY <1>1, <1>4, <2>1
  <2> QED
    BY <1>6, <2>1, <2>2 DEF Orderly
<1>7. ASSUME Tasks(a) \cap Owned = {}, Tasks(b) \cap Owned = {}
      PROVE  Orderly(s)
  <2>1. Tasks(s) \cap Owned = {}
    BY <1>5, <1>7
  <2> QED
    BY <2>1 DEF Orderly, Tasks
<1> QED
  BY <1>1, <1>5, <1>6, <1>7 DEF s

LEMMA TasksTail ==
    ASSUME NEW A, NEW s \in Seq(A), s # << >>
    PROVE  /\ Tail(s) \in Seq(A) /\ Tasks(s) = {Head(s).do} \cup Tasks(Tail(s))
           /\ Orderly(s) => Orderly(Tail(s))
           /\ Orderly(s) /\ Head(s).do \in Base => Tasks(Tail(s)) \cap Owned = {}
<1> DEFINE q == Tail(s)
<1>1. /\ q \in Seq(A) /\ Len(s) \in Nat \ {0} /\ DOMAIN s = 1 .. Len(s)
      /\ DOMAIN q = 1 .. (Len(s) - 1) /\ Head(s) = s[1]
  OBVIOUS
<1>2. \A i \in DOMAIN q : i + 1 \in DOMAIN s /\ q[i] = s[i + 1]
  BY <1>1
<1>3. \A i \in DOMAIN s : i = 1 \/ (i - 1 \in DOMAIN q /\ s[i] = q[i - 1])
  BY <1>1
<1> HIDE DEF q
<1>4. 1 \in DOMAIN s
  BY <1>1
<1>5. Tasks(s) = {Head(s).do} \cup Tasks(q)
  BY <1>1, <1>2, <1>3, <1>4 DEF Tasks
<1>6. ASSUME Orderly(s), NEW i \in DOMAIN q, NEW j \in DOMAIN q, i < j, q[i].do \in Base
      PROVE  q[j].do \notin Owned
  <2>1. i + 1 \in DOMAIN s /\ j + 1 \in DOMAIN s /\ i + 1 < j + 1
    BY <1>1, <1>2, <1>6
  <2> QED
    BY <1>2, <1>6, <2>1 DEF Orderly
<1>7. ASSUME Orderly(s), Head(s).do \in Base, NEW j \in DOMAIN q
      PROVE  q[j].do \notin Owned
  <2>1. j + 1 \in DOMAIN s /\ 1 < j + 1
    BY <1>1, <1>2
  <2> QED
    BY <1>1, <1>2, <1>4, <1>7, <2>1 DEF Orderly
<1>8. Orderly(s) => Orderly(q)
  BY <1>6 DEF Orderly
<1>9. Orderly(s) /\ Head(s).do \in Base => Tasks(q) \cap Owned = {}
  BY <1>7 DEF Tasks
<1> QED
  BY <1>1, <1>5, <1>8, <1>9 DEF q

LEMMA OrderlyOne ==
    ASSUME NEW c
    PROVE  Orderly(<< >>) /\ Orderly(<<c>>)
BY DEF Orderly

LEMMA TasksLeft ==
    ASSUME NEW t \in Thread, NEW s
    PROVE  /\ Tasks(s) \subseteq Tasks(Left(t, s)) /\ (Orderly(s) => Orderly(Left(t, s)))
           /\ Tasks(Left(t, s)) \subseteq Tasks(s) \cup (IF t = "watchdog" THEN {"look"}
                                                         ELSE IF t = "scan" THEN {"roam"} ELSE {})
<1>1. Look("watchdog").do = "look" /\ Call("roam").do = "roam"
  BY DEF Look, CallOn, Call
<1>2. Pass(t) \in {<< >>, <<Look("watchdog")>>, <<Call("roam")>>}
      /\ (t = "watchdog" => Pass(t) = <<Look("watchdog")>>)
      /\ (t \notin {"watchdog", "scan"} => Pass(t) = << >>)
      /\ (t = "scan" => Pass(t) \in {<< >>, <<Call("roam")>>})
  BY DEF Pass
<1>3. /\ Tasks(<< >>) = {} /\ Tasks(<<Look("watchdog")>>) = {"look"}
      /\ Tasks(<<Call("roam")>>) = {"roam"}
  BY <1>1, TasksFew
<1>4. Orderly(Pass(t))
  BY <1>2, OrderlyOne
<1>5. CASE s = << >>
  BY <1>2, <1>3, <1>4, <1>5 DEF Left
<1>6. CASE s # << >>
  BY <1>6 DEF Left
<1> QED
  BY <1>5, <1>6

LEMMA WaitingIs ==
    /\ Waiting # << >> /\ Head(Waiting).do \in StartupCalls
    /\ Tasks(Waiting) \subseteq StartupCalls /\ Orderly(Waiting)
<1>1. PICK c : Waiting = <<c>> /\ c.do \in StartupCalls
  <2>1. Call("start loops").do \in StartupCalls
    BY Zenon DEF StartupCalls, Call
  <2> QED
    BY <2>1 DEF Waiting
<1>2. <<c>> # << >> /\ Head(<<c>>) = c
  OBVIOUS
<1> QED
  BY <1>1, <1>2, TasksFew, OrderlyOne

\* One thread goes on; the flags are left alone, given back, or taken with a call to give them back.
LEMMA OwnersStay ==
    ASSUME TodoInv, OwnerInv, LockType, NEW t \in Thread, NEW s, todo' = [todo EXCEPT ![t] = s],
           Orderly(s),
           commandLock' = t => Tasks(s) \cap Closing # {},
           commandLock' \in {commandLock, t, "free"},
           recovering' => recovering /\ (t = "recovery" => Tasks(s) \cap LoopCalls # {}),
           t # "remote" => (manual' => manual),
           t = "remote" /\ manual' => Tasks(s) \cap RemoteCalls # {},
           t = "remote" => Tasks(s) \cap Attempting = {},
           t = "watchdog" /\ Tasks(s) \cap (StartupCalls \cup Attempting) # {} =>
               Tasks(todo["watchdog"]) \cap (StartupCalls \cup Attempting) # {},
           t = "scan" => todo["scan"] # Waiting
    PROVE  OwnerInv'
<1>1. todo'[t] = s /\ \A u \in Thread \ {t} : todo'[u] = todo[u]
  BY DEF TodoInv
<1>2. {"watchdog", "scan", "recovery", "remote"} \subseteq Thread
  BY DEF Thread
<1>3. commandLock' # "free" => Tasks(todo'[commandLock']) \cap Closing # {}
  BY <1>1 DEF OwnerInv, FlagsHaveOwners, LockType
<1>4. recovering' => Tasks(todo'["recovery"]) \cap LoopCalls # {}
  BY <1>1, <1>2 DEF OwnerInv, FlagsHaveOwners
<1>5. manual' => Tasks(todo'["remote"]) \cap RemoteCalls # {}
  BY <1>1, <1>2 DEF OwnerInv, FlagsHaveOwners
<1>6. \A u \in Thread : Orderly(todo'[u])
  BY <1>1 DEF OwnerInv, Apart
<1>7. Tasks(todo'["remote"]) \cap Attempting = {}
  BY <1>1, <1>2 DEF OwnerInv, Apart
<1>8. ASSUME Tasks(todo'["watchdog"]) \cap (StartupCalls \cup Attempting) # {}
      PROVE  todo'["scan"] = Waiting
  <2>1. Tasks(todo["watchdog"]) \cap (StartupCalls \cup Attempting) # {}
    BY <1>1, <1>2, <1>8
  <2>2. todo["scan"] = Waiting
    BY <2>1 DEF OwnerInv, Apart
  <2> QED
    BY <1>1, <1>2, <2>2
<1> QED
  BY <1>3, <1>4, <1>5, <1>6, <1>7, <1>8 DEF OwnerInv, FlagsHaveOwners, Apart

\* A call of a thread is replaced by others that still lead to what has to be given back.
LEMMA OwnersGoOn ==
    ASSUME TodoInv, OwnerInv, LockType, NEW t \in Thread, todo[t] # << >>, NEW A,
           NEW calls \in Seq(A), Goes(t, calls), NEW h, h = Head(todo[t]).do,
           \/ Tasks(calls) \cap Base = {}
           \/ h \in Base /\ Tasks(calls) \cap Owned = {},
           \/ UNCHANGED commandLock /\ (h \in Closing => Tasks(calls) \cap Closing # {})
           \/ commandLock' = t /\ Tasks(calls) \cap Closing # {}
           \/ commandLock' = "free",
           recovering' => recovering,
           t = "recovery" /\ h \in LoopCalls => Tasks(calls) \cap LoopCalls # {},
           manual' => manual,
           t = "remote" /\ h \in RemoteCalls /\ manual' => Tasks(calls) \cap RemoteCalls # {},
           t = "remote" => Tasks(calls) \cap Attempting = {},
           t = "watchdog" /\ Tasks(calls) \cap (StartupCalls \cup Attempting) # {} =>
               h \in StartupCalls \cup Attempting,
           t = "scan" => h \notin StartupCalls
    PROVE  OwnerInv'
<1> DEFINE q == Tail(todo[t])
           r == calls \o q
           s == Left(t, r)
<1>1. todo[t] \in Seq(Calls) /\ Orderly(todo[t])
  BY DEF TodoInv, Fits, OwnerInv, Apart
<1>2. /\ q \in Seq(Calls) /\ Tasks(todo[t]) = {h} \cup Tasks(q) /\ Orderly(q)
      /\ h \in Base => Tasks(q) \cap Owned = {}
  BY <1>1, TasksTail
<1>3. todo' = [todo EXCEPT ![t] = s]
  BY DEF Goes, TodoInv
<1> HIDE DEF q
<1>4. Tasks(r) = Tasks(calls) \cup Tasks(q) /\ Orderly(r)
  <2>1. /\ Tasks(calls \o q) = Tasks(calls) \cup Tasks(q)
        /\ Orderly(q) /\ Tasks(calls) \cap Base = {} => Orderly(calls \o q)
        /\ Tasks(calls) \cap Owned = {} /\ Tasks(q) \cap Owned = {} => Orderly(calls \o q)
    BY <1>2, TasksJoin
  <2> QED
    BY <1>2, <2>1
<1> HIDE DEF r
<1>5. /\ Orderly(s) /\ Tasks(r) \subseteq Tasks(s)
      /\ Tasks(s) \subseteq Tasks(r) \cup (IF t = "watchdog" THEN {"look"}
                                           ELSE IF t = "scan" THEN {"roam"} ELSE {})
  BY <1>4, TasksLeft
<1> HIDE DEF s
<1>6. commandLock' = t => Tasks(s) \cap Closing # {}
  <2>1. ASSUME UNCHANGED commandLock, commandLock = t, h \notin Closing
        PROVE  Tasks(q) \cap Closing # {}
    <3>1. "free" \notin Thread
      BY DEF Thread
    <3> QED
      BY <1>2, <2>1, <3>1 DEF OwnerInv, FlagsHaveOwners
  <2>2. "free" \notin Thread
    BY DEF Thread
  <2> QED
    BY <1>4, <1>5, <2>1, <2>2
<1>7. t = "recovery" /\ recovering' => Tasks(s) \cap LoopCalls # {}
  BY <1>2, <1>4, <1>5 DEF OwnerInv, FlagsHaveOwners
<1>8. t = "remote" /\ manual' => Tasks(s) \cap RemoteCalls # {}
  BY <1>2, <1>4, <1>5 DEF OwnerInv, FlagsHaveOwners
<1>9. t = "remote" => Tasks(s) \cap Attempting = {}
  BY <1>2, <1>4, <1>5 DEF OwnerInv, Apart
<1>10. t = "watchdog" /\ Tasks(s) \cap (StartupCalls \cup Attempting) # {} =>
           Tasks(todo["watchdog"]) \cap (StartupCalls \cup Attempting) # {}
  <2>1. "look" \notin StartupCalls \cup Attempting
    BY DEF StartupCalls, Attempting
  <2> QED
    BY <1>2, <1>4, <1>5, <2>1
<1>11. t = "scan" => todo["scan"] # Waiting
  BY WaitingIs
<1> QED
  BY <1>3, <1>5, <1>6, <1>7, <1>8, <1>9, <1>10, <1>11, OwnersStay

\* Calls that touch no flag but bleActive, and lead to no attempt.
Light == {"start BLE", "BLE started", "stop BLE", "stop server", "restart BLE",
          "look", "saw", "judge", "ensure", "hold", "response", "provisioned"}
Activating == {"drop", "join", "fell back"}

LEMMA Kinds ==
    /\ Light \cap Base = {} /\ Light \cap Owned = {} /\ Light \cap RemoteCalls = {}
    /\ Light \cap Attempting = {}
    /\ Attempting \cap Base = {} /\ (Attempting \ {"tried"}) \cap Owned = {}
    /\ Attempting \cap RemoteCalls = {} /\ "best" \in Attempting /\ "best" \notin Owned
    /\ Base \cap Owned = {} /\ Base \cap RemoteCalls = {} /\ StartupCalls \cap LoopCalls = {}
    /\ Activating \cap Base = {} /\ Activating \cap Attempting = {}
    /\ Activating \cap Closing = {} /\ Activating \cap RemoteCalls = {}
<1>1. Light \cap StartupCalls = {}
  BY Zenon DEF Light, StartupCalls
<1>2. Light \cap LoopCalls = {}
  BY Zenon DEF Light, LoopCalls
<1>3. Light \cap Owned = {} /\ Light \cap RemoteCalls = {}
  BY Zenon DEF Light, Owned, Closing, RemoteCalls
<1>4. Light \cap Attempting = {}
  BY Zenon DEF Light, Attempting
<1>5. Attempting \cap StartupCalls = {}
  BY Zenon DEF Attempting, StartupCalls
<1>6. Attempting \cap LoopCalls = {}
  BY Zenon DEF Attempting, LoopCalls
<1>7. (Attempting \ {"tried"}) \cap Owned = {} /\ "best" \in Attempting /\ "best" \notin Owned
  BY Zenon DEF Attempting, Owned, Closing
<1>8. Attempting \cap RemoteCalls = {}
  BY Zenon DEF Attempting, RemoteCalls
<1>9. StartupCalls \cap Owned = {} /\ LoopCalls \cap Owned = {}
  BY Zenon DEF StartupCalls, LoopCalls, Owned, Closing
<1>10. StartupCalls \cap RemoteCalls = {} /\ LoopCalls \cap RemoteCalls = {}
  BY Zenon DEF StartupCalls, LoopCalls, RemoteCalls
<1>11. StartupCalls \cap LoopCalls = {}
  BY Zenon DEF StartupCalls, LoopCalls
<1>12. Activating \cap StartupCalls = {} /\ Activating \cap LoopCalls = {}
  BY Zenon DEF Activating, StartupCalls, LoopCalls
<1>13. /\ Activating \cap Attempting = {} /\ Activating \cap Closing = {}
       /\ Activating \cap RemoteCalls = {}
  BY Zenon DEF Activating, Attempting, Closing, RemoteCalls
<1> QED
  BY <1>1, <1>2, <1>3, <1>4, <1>5, <1>6, <1>7, <1>8, <1>9, <1>10, <1>11, <1>12, <1>13 DEF Base

\* A thread goes on with calls of these names, and with others that touch nothing.
Leads(t, T) ==
    \E A : \E calls \in Seq(A) : /\ Goes(t, calls)
                                 /\ T \subseteq Tasks(calls) /\ Tasks(calls) \subseteq T \cup Light

LEMMA LeadsFew ==
    ASSUME NEW t, NEW c, NEW d, NEW e
    PROVE  /\ Goes(t, << >>) => Leads(t, {})
           /\ Goes(t, <<c>>) => Leads(t, {c.do})
           /\ Goes(t, <<c, d>>) => Leads(t, {c.do, d.do})
           /\ Goes(t, <<c, d, e>>) => Leads(t, {c.do, d.do, e.do})
<1>1. /\ << >> \in Seq({c}) /\ <<c>> \in Seq({c}) /\ <<c, d>> \in Seq({c, d})
      /\ <<c, d, e>> \in Seq({c, d, e})
  BY FewInSeq
<1>2. /\ Tasks(<< >>) = {} /\ Tasks(<<c>>) = {c.do} /\ Tasks(<<c, d>>) = {c.do, d.do}
      /\ Tasks(<<c, d, e>>) = {c.do, d.do, e.do}
  BY TasksFew
<1>3. ASSUME NEW A, NEW calls \in Seq(A), Goes(t, calls)
      PROVE  Leads(t, Tasks(calls))
  BY <1>3 DEF Leads
<1> QED
  BY <1>1, <1>2, <1>3

LEMMA JoinInSeq ==
    ASSUME NEW A, NEW a \in Seq(A), NEW B, NEW b \in Seq(B)
    PROVE  a \o b \in Seq(A \cup B)
<1>1. /\ Len(a) \in Nat /\ a = [i \in 1 .. Len(a) |-> a[i]] /\ \A i \in 1 .. Len(a) : a[i] \in A \cup B
      /\ Len(b) \in Nat /\ b = [i \in 1 .. Len(b) |-> b[i]] /\ \A i \in 1 .. Len(b) : b[i] \in A \cup B
  OBVIOUS
<1>2. a \in Seq(A \cup B) /\ b \in Seq(A \cup B)
  BY <1>1
<1> QED
  BY <1>2

LEMMA CallDo ==
    ASSUME NEW task, NEW n, NEW source, NEW ok
    PROVE  /\ Call(task).do = task /\ [Call(task) EXCEPT !.ok = ok].do = task
           /\ CallOn(task, n, source).do = task
BY DEF Call, CallOn

LEMMA RecastDo ==
    ASSUME NEW c \in Calls, NEW task, NEW n, NEW ok
    PROVE  /\ [c EXCEPT !.do = task].do = task
           /\ [c EXCEPT !.do = task, !.ok = ok].do = task
           /\ [c EXCEPT !.do = task, !.net = n, !.ok = ok].do = task
BY DEF Calls

\* Entering a state puts only light calls in front.
LEMMA EnterLight ==
    ASSUME NEW new
    PROVE  OnEnter(new) \in Seq(Calls) /\ Tasks(OnEnter(new)) \subseteq Light
<1>1. OnEnter(new) \in {<< >>, <<Call("start BLE")>>, <<Call("stop BLE")>>, <<Call("restart BLE")>>}
  BY DEF OnEnter
<1>2. ASSUME NEW task \in Light
      PROVE  Tasks(<<Call(task)>>) \subseteq Light
  <2>1. Call(task).do = task
    BY CallDo
  <2>2. Tasks(<<Call(task)>>) = {Call(task).do}
    BY TasksFew
  <2> QED
    BY <2>1, <2>2
<1>3. Tasks(<< >>) = {}
  BY TasksFew
<1>4. "start BLE" \in Light /\ "stop BLE" \in Light /\ "restart BLE" \in Light
  BY Zenon DEF Light
<1>5. Tasks(OnEnter(new)) \subseteq Light
  BY <1>1, <1>2, <1>3, <1>4, Zenon
<1>6. OnEnter(new) \in Seq(Calls)
  BY OnEnterType DEF Fits
<1> QED
  BY <1>5, <1>6

LEMMA TransitionLeads ==
    ASSUME NEW t, NEW new, NEW B, NEW rest \in Seq(B), Transition(t, new, rest)
    PROVE  Leads(t, Tasks(rest))
<1> DEFINE calls == OnEnter(new) \o rest
<1>1. calls \in Seq(Calls \cup B)
  BY EnterLight, JoinInSeq
<1>2. Tasks(calls) = Tasks(OnEnter(new)) \cup Tasks(rest) /\ Tasks(OnEnter(new)) \subseteq Light
  BY EnterLight, TasksJoin
<1>3. Goes(t, calls)
  BY DEF Transition
<1> HIDE DEF calls
<1> QED
  BY <1>1, <1>2, <1>3 DEF Leads

LEMMA TransitionFew ==
    ASSUME NEW t, NEW new, NEW c, NEW d, NEW e
    PROVE  /\ Transition(t, new, << >>) => Leads(t, {})
           /\ Transition(t, new, <<c>>) => Leads(t, {c.do})
           /\ Transition(t, new, <<c, d>>) => Leads(t, {c.do, d.do})
           /\ Transition(t, new, <<c, d, e>>) => Leads(t, {c.do, d.do, e.do})
<1>1. /\ << >> \in Seq({c}) /\ <<c>> \in Seq({c}) /\ <<c, d>> \in Seq({c, d})
      /\ <<c, d, e>> \in Seq({c, d, e})
  BY FewInSeq
<1>2. /\ Tasks(<< >>) = {} /\ Tasks(<<c>>) = {c.do} /\ Tasks(<<c, d>>) = {c.do, d.do}
      /\ Tasks(<<c, d, e>>) = {c.do, d.do, e.do}
  BY TasksFew
<1>3. ASSUME NEW B, NEW rest \in Seq(B), Transition(t, new, rest)
      PROVE  Leads(t, Tasks(rest))
  BY <1>3, TransitionLeads
<1> QED
  BY <1>1, <1>2, <1>3

\* No flag changes.
LEMMA OwnersLight ==
    ASSUME TodoInv, OwnerInv, LockType, NEW t \in Thread, todo[t] # << >>, Leads(t, {}),
           NEW h, h = Head(todo[t]).do,
           h \in Light \/ h \in Activating \/ h \in Attempting \ {"tried"},
           UNCHANGED <<commandLock, recovering, manual>>
    PROVE  OwnerInv'
<1>0. PICK A : \E calls \in Seq(A) : Goes(t, calls) /\ Tasks(calls) \subseteq Light
  BY DEF Leads
<1>1. PICK calls \in Seq(A) : Goes(t, calls) /\ Tasks(calls) \subseteq Light
  BY <1>0
<1>2. /\ Tasks(calls) \cap Base = {} /\ Tasks(calls) \cap Attempting = {}
      /\ Tasks(calls) \cap StartupCalls = {}
      /\ h \notin Closing /\ h \notin Base /\ h \notin RemoteCalls
  BY <1>1, Kinds DEF Base, Owned
<1> QED
  BY <1>1, <1>2, OwnersGoOn DEF Base

LEMMA OwnersAttempt ==
    ASSUME TodoInv, OwnerInv, LockType, NEW t \in Thread, todo[t] # << >>,
           NEW T, Leads(t, T), T \subseteq Attempting,
           NEW h, h = Head(todo[t]).do, h \in Attempting \ {"tried"},
           UNCHANGED <<commandLock, recovering, manual>>
    PROVE  OwnerInv'
<1>0. PICK A : \E calls \in Seq(A) : Goes(t, calls) /\ Tasks(calls) \subseteq Attempting \cup Light
  BY DEF Leads
<1>1. PICK calls \in Seq(A) : Goes(t, calls) /\ Tasks(calls) \subseteq Attempting \cup Light
  BY <1>0
<1>2. /\ Tasks(calls) \cap Base = {}
      /\ h \notin Closing /\ h \notin Base /\ h \notin RemoteCalls
  BY <1>1, Kinds DEF Owned
<1>3. t # "remote"
  <2>1. todo[t] \in Seq(Calls)
    BY DEF TodoInv, Fits
  <2>2. h \in Tasks(todo[t])
    BY <2>1, TasksTail
  <2> QED
    BY <2>2 DEF OwnerInv, Apart
<1> QED
  BY <1>1, <1>2, <1>3, OwnersGoOn DEF Base

\* The startup and the recovery.
LEMMA OwnersRound ==
    ASSUME TodoInv, OwnerInv, LockType, NEW t \in {"watchdog", "recovery"}, todo[t] # << >>,
           NEW T, Leads(t, T), T \subseteq Base \cup Light \cup {"best"},
           NEW h, h = Head(todo[t]).do,
           \/ t = "watchdog" /\ h \in StartupCalls
           \/ t = "recovery" /\ h \in LoopCalls /\ T \cap LoopCalls # {},
           UNCHANGED <<commandLock, recovering, manual>>
    PROVE  OwnerInv'
<1>0. PICK A : \E calls \in Seq(A) : /\ Goes(t, calls) /\ T \subseteq Tasks(calls)
                                 /\ Tasks(calls) \subseteq Base \cup Light \cup {"best"}
  BY DEF Leads
<1>1. PICK calls \in Seq(A) : /\ Goes(t, calls) /\ T \subseteq Tasks(calls)
                                 /\ Tasks(calls) \subseteq Base \cup Light \cup {"best"}
  BY <1>0
<1>2. /\ Tasks(calls) \cap Owned = {} /\ h \in Base
      /\ h \notin Closing /\ h \notin RemoteCalls
  BY <1>1, Kinds DEF Owned, Base
<1>3. t \in Thread /\ t # "remote" /\ t # "scan"
  BY DEF Thread
<1>4. t = "recovery" => Tasks(calls) \cap LoopCalls # {}
  BY <1>1
<1>5. t = "watchdog" => h \in StartupCalls
  OBVIOUS
<1> QED
  BY <1>1, <1>2, <1>3, <1>4, <1>5, OwnersGoOn

\* A remote command, until it is answered.
LEMMA OwnersRemote ==
    ASSUME TodoInv, OwnerInv, LockType, todo["remote"] # << >>,
           NEW T, Leads("remote", T), T \subseteq RemoteCalls \cup Light \cup Activating,
           T \cap Closing # {}, commandLock' \in {commandLock, "remote"},
           UNCHANGED <<recovering, manual>>
    PROVE  OwnerInv'
<1>0. PICK A : \E calls \in Seq(A) : /\ Goes("remote", calls) /\ T \subseteq Tasks(calls)
                                 /\ Tasks(calls) \subseteq RemoteCalls \cup Light \cup Activating
  BY DEF Leads
<1>1. PICK calls \in Seq(A) : /\ Goes("remote", calls) /\ T \subseteq Tasks(calls)
                                 /\ Tasks(calls) \subseteq RemoteCalls \cup Light \cup Activating
  BY <1>0
<1>2. Tasks(calls) \cap Base = {} /\ Tasks(calls) \cap Attempting = {}
  BY <1>1, Kinds
<1>3. Tasks(calls) \cap Closing # {} /\ Tasks(calls) \cap RemoteCalls # {}
  BY <1>1, Kinds DEF Owned
<1>4. "remote" \in Thread
  BY DEF Thread
<1>5. PICK h : h = Head(todo["remote"]).do
  OBVIOUS
<1> QED
  BY <1>1, <1>2, <1>3, <1>4, <1>5, OwnersGoOn

LEMMA LeadsLight ==
    ASSUME NEW t, NEW new, NEW c, c.do \in Light, NEW d, d.do \in Light
    PROVE  /\ Goes(t, << >>) => Leads(t, {})
           /\ Goes(t, <<c>>) => Leads(t, {})
           /\ Goes(t, <<c, d>>) => Leads(t, {})
           /\ Transition(t, new, << >>) => Leads(t, {})
           /\ Transition(t, new, <<c>>) => Leads(t, {})
<1>1. ASSUME NEW T, Leads(t, T), T \subseteq Light
      PROVE  Leads(t, {})
  BY <1>1 DEF Leads
<1>2. {c.do} \subseteq Light /\ {c.do, d.do} \subseteq Light
  OBVIOUS
<1>3. /\ Goes(t, << >>) => Leads(t, {})
      /\ Goes(t, <<c>>) => Leads(t, {c.do})
      /\ Goes(t, <<c, d>>) => Leads(t, {c.do, d.do})
  BY LeadsFew
<1>4. /\ Transition(t, new, << >>) => Leads(t, {})
      /\ Transition(t, new, <<c>>) => Leads(t, {c.do})
  BY TransitionFew
<1> QED
  BY <1>1, <1>2, <1>3, <1>4

LEMMA LightCalls ==
    ASSUME NEW n, NEW source, NEW ok, NEW c \in Calls
    PROVE  /\ Call("ensure").do \in Light /\ Call("stop BLE").do \in Light
           /\ Call("stop server").do \in Light
           /\ [Call("BLE started") EXCEPT !.ok = ok].do \in Light
           /\ Saw(n, source).do \in Light /\ Look(source).do \in Light
           /\ CallOn("hold", n, source).do \in Light
           /\ [c EXCEPT !.do = "judge", !.net = n, !.ok = ok].do \in Light
           /\ [c EXCEPT !.do = "provisioned"].do \in Light
<1>1. ASSUME NEW task \in Light
      PROVE  /\ Call(task).do \in Light /\ [Call(task) EXCEPT !.ok = ok].do \in Light
             /\ \A m : CallOn(task, m, source).do \in Light
             /\ [c EXCEPT !.do = task, !.net = n, !.ok = ok].do \in Light
             /\ [c EXCEPT !.do = task].do \in Light
  BY CallDo, RecastDo
<1>2. /\ "ensure" \in Light /\ "stop BLE" \in Light /\ "stop server" \in Light
      /\ "BLE started" \in Light /\ "saw" \in Light /\ "look" \in Light /\ "hold" \in Light
      /\ "judge" \in Light /\ "provisioned" \in Light
  BY Zenon DEF Light
<1> QED
  BY <1>1, <1>2, Zenon DEF Saw, Look

LEMMA HeadIs ==
    ASSUME TodoInv, NEW t \in Thread, todo[t] # << >>
    PROVE  Head(todo[t]) \in Calls /\ Head(todo[t]).do \in Tasks(todo[t])
<1>1. todo[t] \in Seq(Calls)
  BY DEF TodoInv, Fits
<1> QED
  BY <1>1, TasksTail, HeadType DEF Sound

LEMMA BleOwners ==
    ASSUME NetworkInv, OwnerInv, NEW t \in Thread, BleStep(t)
    PROVE  OwnerInv'
<1>0. TodoInv /\ LockType
  BY DEF NetworkInv
<1>1. todo[t] # << >> /\ Head(todo[t]).do \in Light
  BY Zenon DEF BleStep, Is, Light
<1>2. UNCHANGED <<commandLock, recovering, manual>>
  BY DEF BleStep, StartBle, BleStarted, StopBle, RestartBle, StopServer, agent, flags
<1>3. \/ Goes(t, << >>) \/ Goes(t, <<Call("stop server")>>)
      \/ \E ok : Goes(t, <<[Call("BLE started") EXCEPT !.ok = ok]>>)
  BY DEF BleStep, StartBle, BleStarted, StopBle, RestartBle, StopServer, Done
<1>4. PICK c \in Calls : c = Head(todo[t])
  BY <1>0, <1>1, HeadIs
<1>5. Leads(t, {})
  <2>1. /\ Call("stop server").do \in Light
        /\ \A ok : [Call("BLE started") EXCEPT !.ok = ok].do \in Light
    BY <1>4, LightCalls, Zenon
  <2>2. ASSUME NEW d, d.do \in Light
        PROVE  /\ Goes(t, << >>) => Leads(t, {})
               /\ Goes(t, <<d>>) => Leads(t, {})
    BY <2>2, LeadsLight
  <2> QED
    BY <1>3, <2>1, <2>2, Zenon
<1> QED
  BY <1>0, <1>1, <1>2, <1>5, OwnersLight

\* The call that takes the outcome of an activation keeps its name.
LEMMA ReturnsOwners ==
    ASSUME TodoInv, OwnerInv, LockType, NEW t \in Thread, Does(t, "join"), NEW ok \in BOOLEAN,
           Returns(t, ok), UNCHANGED <<commandLock, recovering, manual>>
    PROVE  OwnerInv'
<1> DEFINE q == Tail(todo[t])
           d == [Head(q) EXCEPT !.ok = ok]
<1>1. todo[t] # << >> /\ Head(todo[t]).do = "join"
  BY DEF Does
<1>2. todo[t] \in Seq(Calls) /\ Orderly(todo[t])
  BY DEF TodoInv, Fits, OwnerInv, Apart
<1>3. /\ q \in Seq(Calls) /\ Tasks(todo[t]) = {Head(todo[t]).do} \cup Tasks(q) /\ Orderly(q)
  BY <1>1, <1>2, TasksTail
<1>4. q # << >>
  BY <1>1, HeadType
<1>5. todo' = [todo EXCEPT ![t] = <<d>> \o Tail(q)]
  BY DEF Returns, TodoInv
<1> HIDE DEF q
<1> DEFINE s == <<d>> \o Tail(q)
<1>6. Len(q) \in Nat \ {0} /\ DOMAIN q = 1 .. Len(q) /\ Head(q) = q[1] /\ Head(q) \in Calls
  BY <1>3, <1>4
<1>7. d \in Calls /\ d.do = q[1].do
  BY <1>6 DEF Calls
<1> HIDE DEF d
<1>8. DOMAIN s = DOMAIN q /\ s[1] = d /\ \A i \in DOMAIN q : i # 1 => s[i] = q[i]
  BY <1>3, <1>6, <1>7
<1> HIDE DEF s
<1>9. \A i \in DOMAIN s : s[i].do = q[i].do
  BY <1>7, <1>8
<1>10. Tasks(s) = Tasks(q) /\ Orderly(s)
  <2>1. Tasks(s) = Tasks(q)
    BY <1>8, <1>9 DEF Tasks
  <2>2. Orderly(s)
    BY <1>3, <1>8, <1>9 DEF Orderly
  <2> QED
    BY <2>1, <2>2
<1>11. todo' = [todo EXCEPT ![t] = s]
  BY <1>5 DEF s
<1>12. /\ "join" \notin Closing /\ "join" \notin LoopCalls /\ "join" \notin RemoteCalls
       /\ "join" \notin Attempting /\ "join" \notin StartupCalls
  <2>1. "join" \in Activating
    BY DEF Activating
  <2> QED
    BY <2>1, Kinds DEF Base
<1>13. "free" \notin Thread
  BY DEF Thread
<1>14. commandLock' = t => Tasks(s) \cap Closing # {}
  BY <1>1, <1>3, <1>10, <1>12, <1>13 DEF OwnerInv, FlagsHaveOwners
<1>15. /\ recovering' => recovering /\ (t = "recovery" => Tasks(s) \cap LoopCalls # {})
       /\ t = "remote" /\ manual' => Tasks(s) \cap RemoteCalls # {}
  BY <1>1, <1>3, <1>10, <1>12 DEF OwnerInv, FlagsHaveOwners
<1>16. /\ t = "remote" => Tasks(s) \cap Attempting = {}
       /\ t = "watchdog" /\ Tasks(s) \cap (StartupCalls \cup Attempting) # {} =>
              Tasks(todo["watchdog"]) \cap (StartupCalls \cup Attempting) # {}
  BY <1>3, <1>10 DEF OwnerInv, Apart
<1>17. t = "scan" => todo["scan"] # Waiting
  BY <1>1, <1>12, WaitingIs
<1> QED
  BY <1>10, <1>11, <1>14, <1>15, <1>16, <1>17, OwnersStay

LEMMA WifiOwners ==
    ASSUME NetworkInv, OwnerInv, NEW t \in Thread, WifiStep(t)
    PROVE  OwnerInv'
<1>0. TodoInv /\ LockType
  BY DEF NetworkInv
<1>1. UNCHANGED <<commandLock, recovering, manual>>
  BY DEF WifiStep, Drop, JoinWorks, JoinFails, agent, flags
<1>2. CASE Drop(t)
  <2>1. todo[t] # << >> /\ Head(todo[t]).do \in Activating
    BY <1>2 DEF Drop, Does, Activating
  <2>2. Leads(t, {})
    BY <1>2, LeadsFew DEF Drop, Done
  <2> QED
    BY <1>0, <1>1, <2>1, <2>2, OwnersLight
<1>3. CASE JoinWorks(t) \/ JoinFails(t)
  <2>1. Does(t, "join") /\ \E ok \in BOOLEAN : Returns(t, ok)
    BY <1>3 DEF JoinWorks, JoinFails
  <2> QED
    BY <1>0, <1>1, <2>1, ReturnsOwners
<1> QED
  BY <1>2, <1>3 DEF WifiStep

LEMMA IdleHoldsNothing ==
    ASSUME NEW t \in Thread, todo[t] = << >>, OwnerInv
    PROVE  commandLock # t
<1>1. Tasks(<< >>) = {} /\ "free" \notin Thread
  BY TasksFew DEF Thread
<1> QED
  BY <1>1 DEF OwnerInv, FlagsHaveOwners

\* A thread that loses no call that matters, and begins none.
Continues(t) ==
    /\ Orderly(todo'[t])
    /\ Tasks(todo[t]) \cap (Closing \cup RemoteCalls) \subseteq Tasks(todo'[t])
    /\ t # "scan" => Tasks(todo'[t]) \cap (StartupCalls \cup Attempting) \subseteq Tasks(todo[t])
    /\ t = "scan" /\ todo[t] = Waiting => todo'[t] = Waiting

\* A recovery begins with its first call.
LEMMA RecoveryOwners ==
    ASSUME TodoInv, OwnerInv, LockType, ~recovering, recovering' = TRUE,
           UNCHANGED <<commandLock, manual>>,
           \A t \in Thread \ {"recovery"} : Continues(t), todo'["recovery"] = <<Call("recover")>>
    PROVE  OwnerInv'
<1>1. {"watchdog", "scan", "recovery", "remote"} \subseteq Thread
  BY DEF Thread
<1>2. Tasks(todo'["recovery"]) \cap LoopCalls # {} /\ Orderly(todo'["recovery"])
  <2>1. Call("recover").do = "recover" /\ "recover" \in LoopCalls
    BY CallDo, Zenon DEF LoopCalls
  <2> QED
    BY <2>1, TasksFew, OrderlyOne
<1>3. commandLock # "recovery"
  <2>1. todo["recovery"] = << >>
    BY <1>1 DEF TodoInv
  <2> QED
    BY <1>1, <2>1, IdleHoldsNothing
<1>4. FlagsHaveOwners'
  <2>1. commandLock' # "free" => Tasks(todo'[commandLock']) \cap Closing # {}
    BY <1>3 DEF OwnerInv, FlagsHaveOwners, LockType, Continues
  <2>2. manual' => Tasks(todo'["remote"]) \cap RemoteCalls # {}
    BY <1>1 DEF OwnerInv, FlagsHaveOwners, Continues
  <2> QED
    BY <1>2, <2>1, <2>2 DEF FlagsHaveOwners
<1>5. Apart'
  <2>1. \A t \in Thread : Orderly(todo'[t])
    BY <1>2 DEF Continues
  <2>2. Tasks(todo'["remote"]) \cap Attempting = {}
    BY <1>1 DEF OwnerInv, Apart, Continues
  <2>3. ASSUME Tasks(todo'["watchdog"]) \cap (StartupCalls \cup Attempting) # {}
        PROVE  todo'["scan"] = Waiting
    <3>1. Tasks(todo["watchdog"]) \cap (StartupCalls \cup Attempting) # {}
      BY <1>1, <2>3 DEF Continues
    <3> QED
      BY <1>1, <3>1 DEF OwnerInv, Apart, Continues
  <2> QED
    BY <2>1, <2>2, <2>3 DEF Apart
<1> QED
  BY <1>4, <1>5 DEF OwnerInv

LEMMA EnsureOwners ==
    ASSUME NetworkInv, OwnerInv, NEW t \in Thread, EnsureRecovery(t)
    PROVE  OwnerInv'
<1>0. TodoInv /\ LockType /\ StateType
  BY DEF NetworkInv
<1>1. todo[t] # << >> /\ Head(todo[t]).do \in Light
  BY DEF EnsureRecovery, Does, Light
<1>2. recovering' = TRUE /\ UNCHANGED <<commandLock, manual>>
  BY DEF EnsureRecovery
<1>3. CASE recovering
  <2>1. Leads(t, {})
    BY <1>3, LeadsFew DEF EnsureRecovery, Done
  <2> QED
    BY <1>0, <1>1, <1>2, <1>3, <2>1, OwnersLight
<1>4. CASE ~recovering
  <2> DEFINE q == Tail(todo[t])
             s == Left(t, q)
             r == <<Call("recover")>>
  <2>1. todo' = [todo EXCEPT ![t] = s, !["recovery"] = r]
    BY <1>4, Zenon DEF EnsureRecovery, TodoInv
  <2>2. todo["recovery"] = << >> /\ "recovery" \in Thread
    BY <1>0, <1>4 DEF TodoInv, Thread
  <2>3. todo[t] \in Seq(Calls) /\ Orderly(todo[t])
    BY <1>0 DEF TodoInv, Fits, OwnerInv, Apart
  <2>4. Tasks(todo[t]) = {Head(todo[t]).do} \cup Tasks(q) /\ Orderly(q)
    BY <1>1, <2>3, TasksTail
  <2> HIDE DEF q
  <2>5. /\ Orderly(s) /\ Tasks(q) \subseteq Tasks(s)
        /\ Tasks(s) \subseteq Tasks(q) \cup (IF t = "watchdog" THEN {"look"}
                                             ELSE IF t = "scan" THEN {"roam"} ELSE {})
    BY <2>4, TasksLeft
  <2> HIDE DEF s, r
  <2>6. /\ t # "recovery" /\ todo'["recovery"] = r /\ todo'[t] = s
        /\ \A u \in Thread \ {t, "recovery"} : todo'[u] = todo[u]
    <3>1. t # "recovery" /\ DOMAIN todo = Thread
      BY <1>0, <1>1, <2>2 DEF TodoInv
    <3> QED
      BY <2>1, <2>2, <3>1
  <2>7. ASSUME NEW u \in Thread \ {"recovery"}, u # t
        PROVE  Continues(u)
    BY <2>6, <2>7 DEF Continues, OwnerInv, Apart
  <2>8. Continues(t)
    <3>1. /\ Head(todo[t]).do \notin Closing \cup RemoteCalls \cup StartupCalls
          /\ "look" \notin StartupCalls \cup Attempting
      <4>1. "look" \in Light
        BY DEF Light
      <4> QED
        BY <1>1, <4>1, Kinds DEF Base, Owned
    <3>2. t = "scan" => todo[t] # Waiting
      BY <3>1, WaitingIs
    <3> QED
      BY <2>4, <2>5, <2>6, <3>1, <3>2 DEF Continues
  <2>9. todo'["recovery"] = <<Call("recover")>>
    BY <2>6 DEF r
  <2> QED
    BY <1>0, <1>2, <1>4, <2>7, <2>8, <2>9, RecoveryOwners
<1> QED
  BY <1>0, <1>3, <1>4 DEF StateType

LEMMA ObservationOwners ==
    ASSUME NetworkInv, OwnerInv, NEW t \in Thread, Observation(t)
    PROVE  OwnerInv'
<1>0. TodoInv /\ LockType
  BY DEF NetworkInv
<1>1. todo[t] # << >> /\ Head(todo[t]).do \in Light
  BY Zenon DEF Observation, Is, Light
<1>2. PICK c \in Calls : c = Head(todo[t])
  BY <1>0, <1>1, HeadIs
<1>3. ASSUME NEW d, d.do \in Light
      PROVE  Goes(t, <<d>>) \/ (\E new : Transition(t, new, <<d>>)) => Leads(t, {})
  BY <1>3, LeadsLight
<1>4. Goes(t, << >>) \/ (\E new : Transition(t, new, << >>)) => Leads(t, {})
  BY LeadsFew, TransitionFew
<1>5. /\ Call("ensure").do \in Light /\ Call("stop BLE").do \in Light
      /\ \A n, ok : [c EXCEPT !.do = "judge", !.net = n, !.ok = ok].do \in Light
  BY LightCalls
<1>6. CASE SawHotspot(t) \/ SawNothing(t) \/ JudgeOffline(t) \/ JudgeOnline(t)
  <2>1. UNCHANGED <<commandLock, recovering, manual>>
    BY <1>6 DEF SawHotspot, SawNothing, JudgeOffline, JudgeOnline, flags
  <2>2. \/ Goes(t, << >>) \/ \E new : Transition(t, new, << >>)
        \/ Goes(t, <<Call("ensure")>>) \/ \E new : Transition(t, new, <<Call("ensure")>>)
        \/ Goes(t, <<Call("stop BLE")>>)
    BY <1>6 DEF SawHotspot, SawNothing, JudgeOffline, JudgeOnline, Done
  <2>3. Leads(t, {})
    BY <1>3, <1>4, <1>5, <2>2, Zenon
  <2> QED
    BY <1>0, <1>1, <2>1, <2>3, OwnersLight
<1>7. ASSUME NEW n \in Net, SawNetwork(t, n)
      PROVE  OwnerInv'
  <2>1. \/ Goes(t, << >>)
        \/ \E ok : Goes(t, <<[c EXCEPT !.do = "judge", !.net = n, !.ok = ok]>>)
    BY <1>2, <1>7 DEF SawNetwork
  <2>2. UNCHANGED <<commandLock, recovering, manual>>
    BY <1>7 DEF SawNetwork, agent, flags
  <2>3. Leads(t, {})
    BY <1>3, <1>4, <1>5, <2>1, Zenon
  <2> QED
    BY <1>0, <1>1, <2>2, <2>3, OwnersLight
<1> QED
  BY <1>6, <1>7, EnsureOwners DEF Observation

\* An attempt that takes the lock or is about to give it back.
LEMMA OwnersHolding ==
    ASSUME TodoInv, OwnerInv, LockType, NEW t \in Thread, todo[t] # << >>,
           NEW T, Leads(t, T), T \subseteq {"tried", "release"} \cup Activating \cup Light,
           T \cap Closing # {},
           NEW h, h = Head(todo[t]).do, h \in Attempting, commandLock' \in {commandLock, t},
           UNCHANGED <<recovering, manual>>
    PROVE  OwnerInv'
<1>0. PICK A : \E calls \in Seq(A) :
                  /\ Goes(t, calls) /\ T \subseteq Tasks(calls)
                  /\ Tasks(calls) \subseteq {"tried", "release"} \cup Activating \cup Light
  BY DEF Leads
<1>1. PICK calls \in Seq(A) :
                  /\ Goes(t, calls) /\ T \subseteq Tasks(calls)
                  /\ Tasks(calls) \subseteq {"tried", "release"} \cup Activating \cup Light
  BY <1>0
<1>2. "tried" \notin Base /\ "release" \notin Base
  <2>1. "tried" \in Owned /\ "release" \in Owned
    BY DEF Owned, Closing
  <2> QED
    BY <2>1, Kinds
<1>3. Tasks(calls) \cap Base = {} /\ Tasks(calls) \cap Closing # {}
  BY <1>1, <1>2, Kinds
<1>4. h \notin Base /\ h \notin RemoteCalls
  BY Kinds
<1>5. t # "remote"
  BY HeadIs DEF OwnerInv, Apart
<1> QED
  BY <1>1, <1>3, <1>4, <1>5, OwnersGoOn DEF Base

LEMMA TryOwners ==
    ASSUME NetworkInv, OwnerInv, NEW t \in Thread, Try(t)
    PROVE  OwnerInv'
<1>0. TodoInv /\ LockType
  BY DEF NetworkInv
<1>1. todo[t] # << >> /\ Head(todo[t]).do \in Attempting \ {"tried"}
  BY DEF Try, Does, Attempting
<1>2. PICK c \in Calls : c = Head(todo[t])
  BY <1>0, <1>1, HeadIs
<1>3. CASE commandLock # "free"
  <2>1. Leads(t, {}) /\ UNCHANGED <<commandLock, recovering, manual>>
    BY <1>3, LeadsFew DEF Try, Done
  <2> QED
    BY <1>0, <1>1, <2>1, OwnersLight
<1>4. CASE commandLock = "free"
  <2> DEFINE d == CallOn("drop", c.net, "saved")
             j == CallOn("join", c.net, "saved")
             e == [c EXCEPT !.do = "tried"]
  <2>1. /\ Transition(t, "RECONNECTING", <<d, j, e>>)
        /\ commandLock' = t /\ UNCHANGED <<recovering, manual>>
    BY <1>2, <1>4 DEF Try, Activate
  <2>2. d.do = "drop" /\ j.do = "join" /\ e.do = "tried"
    BY <1>2, CallDo, RecastDo
  <2> HIDE DEF d, j, e
  <2>3. Leads(t, {"drop", "join", "tried"})
    <3>1. Leads(t, {d.do, j.do, e.do})
      BY <2>1, TransitionFew
    <3> QED
      BY <2>2, <3>1
  <2>4. {"drop", "join"} \subseteq Activating /\ "tried" \in Closing
    BY DEF Activating, Closing
  <2> QED
    BY <1>0, <1>1, <2>1, <2>3, <2>4, OwnersHolding
<1> QED
  BY <1>3, <1>4

LEMMA FinishCalls ==
    ASSUME NEW t
    PROVE  /\ Finish(t) \in Seq(Calls) /\ Orderly(Finish(t)) /\ Tasks(Finish(t)) \subseteq Base
           /\ t = "recovery" => Tasks(Finish(t)) \cap LoopCalls # {}
<1>1. PICK r \in Calls : r = Call("recovered") /\ r.do \in LoopCalls
  <2>1. Call("recovered") \in Calls /\ Call("recovered").do \in LoopCalls
    <3>1. "recovered" \in LoopCalls /\ "recovered" \in Task
      BY Zenon DEF LoopCalls, Task
    <3> QED
      BY <3>1, CallType, CallDo
  <2> QED
    BY <2>1
<1>2. PICK s \in Calls : s = Call("start loops") /\ s.do \in StartupCalls
  <2>1. Call("start loops") \in Calls /\ Call("start loops").do \in StartupCalls
    <3>1. "start loops" \in StartupCalls /\ "start loops" \in Task
      BY Zenon DEF StartupCalls, Task
    <3>2. Call("start loops").do = "start loops"
      BY CallDo, Zenon
    <3> QED
      BY <3>1, <3>2, CallType, Zenon
  <2> QED
    BY <2>1, Zenon
<1>3. /\ t = "recovery" => Finish(t) = <<r>>
      /\ Finish(t) \in {<< >>, <<r>>, <<s>>}
  BY <1>1, <1>2, Zenon DEF Finish
<1>4. /\ Tasks(<< >>) = {} /\ Tasks(<<r>>) = {r.do} /\ Tasks(<<s>>) = {s.do}
      /\ Orderly(<< >>) /\ Orderly(<<r>>) /\ Orderly(<<s>>)
  BY TasksFew, OrderlyOne
<1>5. << >> \in Seq(Calls) /\ <<r>> \in Seq(Calls) /\ <<s>> \in Seq(Calls)
  OBVIOUS
<1>6. r.do \in LoopCalls /\ r.do \in Base /\ s.do \in Base
  BY <1>1, <1>2, Zenon DEF Base
<1> QED
  BY <1>3, <1>4, <1>5, <1>6

LEMMA TriedOwners ==
    ASSUME NetworkInv, OwnerInv, NEW t \in Thread, TriedAndOnline(t) \/ TriedInVain(t)
    PROVE  OwnerInv'
<1>0. TodoInv /\ LockType
  BY DEF NetworkInv
<1>1. todo[t] # << >> /\ Head(todo[t]).do \in Attempting /\ Head(todo[t]).do \in Closing
  BY DEF TriedAndOnline, TriedInVain, Does, Attempting, Closing
<1>2. UNCHANGED <<commandLock, recovering, manual>>
  BY DEF TriedAndOnline, TriedInVain, agent, flags
<1>3. PICK c : c = Head(todo[t])
  OBVIOUS
<1>4. Call("release").do = "release" /\ "release" \in Closing
  BY CallDo DEF Closing
<1>5. CASE TriedInVain(t)
  <2> DEFINE d == Look(FailureOf(c.source))
             e == Call("release")
  <2>1. Goes(t, <<d, e>>)
    BY <1>3, <1>5 DEF TriedInVain
  <2>2. d.do \in Light
    <3>1. d.do = "look" /\ "look" \in Light
      BY CallDo DEF Look, Light
    <3> QED
      BY <3>1
  <2> HIDE DEF d, e
  <2>3. Leads(t, {d.do, e.do})
    BY <2>1, LeadsFew
  <2>4. e.do = "release"
    BY <1>4 DEF e
  <2> QED
    BY <1>0, <1>1, <1>2, <1>4, <2>2, <2>3, <2>4, OwnersHolding
<1>6. CASE TriedAndOnline(t)
  <2> DEFINE d == Saw(c.net, c.source)
             e == Call("release")
             f == Finish(t)
             s == <<d, e>> \o f
  <2>1. todo' = [todo EXCEPT ![t] = s]
    BY <1>3, <1>6 DEF TriedAndOnline
  <2>2. d.do \in Light /\ e.do = "release"
    <3>1. d.do = "saw" /\ "saw" \in Light
      BY CallDo DEF Saw, Light
    <3> QED
      BY <1>4, <3>1
  <2>3. /\ f \in Seq(Calls) /\ Orderly(f) /\ Tasks(f) \subseteq Base
        /\ t = "recovery" => Tasks(f) \cap LoopCalls # {}
    BY FinishCalls
  <2> HIDE DEF d, e, f
  <2>4. /\ Tasks(s) = {d.do, e.do} \cup Tasks(f) /\ Orderly(s)
    <3>1. <<d, e>> \in Seq({d, e}) /\ Tasks(<<d, e>>) = {d.do, e.do}
      BY FewInSeq, TasksFew
    <3>2. d.do \notin Base /\ e.do \notin Base
      BY <1>4, <2>2, Kinds DEF Owned
    <3> QED
      BY <2>3, <3>1, <3>2, TasksJoin
  <2> HIDE DEF s
  <2>5. t # "remote" /\ (t = "scan" => todo["scan"] # Waiting)
    <3>1. t # "remote"
      BY <1>0, <1>1, HeadIs DEF OwnerInv, Apart
    <3>2. Head(todo[t]).do \notin StartupCalls
      BY <1>1, Kinds DEF Base
    <3> QED
      BY <3>1, <3>2, WaitingIs
  <2>6. /\ Tasks(s) \cap Closing # {} /\ (t = "recovery" => Tasks(s) \cap LoopCalls # {})
        /\ Tasks(todo[t]) \cap (StartupCalls \cup Attempting) # {}
    BY <1>0, <1>1, <1>4, <2>2, <2>3, <2>4, HeadIs
  <2> QED
    BY <1>0, <1>2, <2>1, <2>4, <2>5, <2>6, OwnersStay
<1> QED
  BY <1>5, <1>6

LEMMA ReleaseOwners ==
    ASSUME NetworkInv, OwnerInv, NEW t \in Thread, Release(t)
    PROVE  OwnerInv'
<1>0. TodoInv /\ LockType
  BY DEF NetworkInv
<1>1. todo[t] # << >> /\ Head(todo[t]).do = "release"
  BY DEF Release, Does
<1>2. /\ commandLock' = "free" /\ UNCHANGED <<recovering, manual>> /\ Goes(t, << >>)
  BY DEF Release, Done
<1>3. << >> \in Seq(Calls) /\ Tasks(<< >>) = {}
  <2>1. << >> \in Seq(Calls)
    OBVIOUS
  <2> QED
    BY <2>1, TasksFew
<1>4. "release" \notin Base /\ "release" \notin RemoteCalls
  <2>1. "release" \in Owned
    BY DEF Owned, Closing
  <2> QED
    BY <2>1, Kinds DEF RemoteCalls
<1> QED
  BY <1>0, <1>1, <1>2, <1>3, <1>4, OwnersGoOn DEF Base

LEMMA AttemptOwners ==
    ASSUME NetworkInv, OwnerInv, NEW t \in Thread, Attempt(t)
    PROVE  OwnerInv'
<1>0. TodoInv /\ LockType /\ WifiType
  BY DEF NetworkInv
<1>1. CASE Best(t)
  <2>1. todo[t] # << >> /\ Head(todo[t]).do \in Attempting \ {"tried"} /\ "scanned" \in Attempting
    BY <1>1 DEF Best, Does, Attempting
  <2>2. PICK c \in Calls : c = Head(todo[t])
    BY <1>0, <2>1, HeadIs
  <2>3. \/ Goes(t, << >>)
        \/ \E ok : Goes(t, <<[c EXCEPT !.do = "scanned", !.ok = ok]>>)
    BY <1>1, <2>2 DEF Best
  <2>4. Leads(t, {}) \/ Leads(t, {"scanned"})
    <3>1. ASSUME NEW ok, Goes(t, <<[c EXCEPT !.do = "scanned", !.ok = ok]>>)
          PROVE  Leads(t, {"scanned"})
      <4>1. [c EXCEPT !.do = "scanned", !.ok = ok].do = "scanned"
        BY RecastDo
      <4> QED
        BY <3>1, <4>1, LeadsFew, Zenon
    <3> QED
      BY <2>3, <3>1, LeadsFew
  <2>5. UNCHANGED <<commandLock, recovering, manual>>
    BY <1>1 DEF Best, agent, flags
  <2>6. {} \subseteq Attempting /\ {"scanned"} \subseteq Attempting
    BY <2>1
  <2> QED
    BY <1>0, <2>1, <2>4, <2>5, <2>6, OwnersAttempt
<1>2. CASE Scanned(t)
  <2>1. todo[t] # << >> /\ Head(todo[t]).do \in Attempting \ {"tried"} /\ "try" \in Attempting
    BY <1>2 DEF Scanned, Does, Attempting
  <2>2. UNCHANGED <<commandLock, recovering, manual>>
    BY <1>2 DEF Scanned, flags
  <2>3. CASE Done(t)
    <3>1. Leads(t, {})
      BY <2>3, LeadsFew DEF Done
    <3> QED
      BY <1>0, <2>1, <2>2, <3>1, OwnersLight
  <2>4. ASSUME NEW order \in Ranked(SavedCandidates), NEW source,
               Transition(t, "SCANNING_SAVED_NETWORKS",
                          [i \in DOMAIN order |-> CallOn("try", order[i].ssid, source)])
        PROVE  OwnerInv'
    <3> DEFINE s == [i \in DOMAIN order |-> CallOn("try", order[i].ssid, source)]
               B == {s[i] : i \in DOMAIN order}
    <3>1. PICK n \in Nat : DOMAIN order = 1 .. n
      BY <1>0, CandidatesType
    <3>2. s \in Seq(B)
      BY <3>1
    <3>3. Tasks(s) \subseteq Attempting
      <4>1. \A i \in DOMAIN s : s[i].do = "try"
        BY CallDo
      <4> HIDE DEF s
      <4> QED
        BY <2>1, <4>1 DEF Tasks
    <3>4. Transition(t, "SCANNING_SAVED_NETWORKS", s)
      BY <2>4
    <3> HIDE DEF s, B
    <3>5. Leads(t, Tasks(s))
      BY <3>2, <3>4, TransitionLeads
    <3> QED
      BY <1>0, <2>1, <2>2, <3>3, <3>5, OwnersAttempt
  <2> QED
    BY <1>2, <2>3, <2>4 DEF Scanned
<1>3. CASE Roam(t)
  <2>1. todo[t] # << >> /\ Head(todo[t]).do \in Attempting \ {"tried"} /\ "try" \in Attempting
    BY <1>3 DEF Roam, Does, Attempting
  <2>2. UNCHANGED <<commandLock, recovering, manual>>
    BY <1>3 DEF Roam, agent, flags
  <2>3. Goes(t, << >>) \/ \E n : Goes(t, <<CallOn("try", n, "priority")>>)
    BY <1>3 DEF Roam, Done
  <2>4. Leads(t, {}) \/ Leads(t, {"try"})
    <3>1. ASSUME NEW n, Goes(t, <<CallOn("try", n, "priority")>>)
          PROVE  Leads(t, {"try"})
      <4>1. CallOn("try", n, "priority").do = "try"
        BY CallDo
      <4> QED
        BY <3>1, <4>1, LeadsFew, Zenon
    <3> QED
      BY <2>3, <3>1, LeadsFew
  <2>5. {} \subseteq Attempting /\ {"try"} \subseteq Attempting
    BY <2>1
  <2> QED
    BY <1>0, <2>1, <2>2, <2>4, <2>5, OwnersAttempt
<1>4. CASE Hold(t)
  <2>1. todo[t] # << >> /\ Head(todo[t]).do \in Light
    BY <1>4 DEF Hold, Does, Light
  <2>2. Leads(t, {}) /\ UNCHANGED <<commandLock, recovering, manual>>
    BY <1>4, LeadsFew DEF Hold, Done
  <2> QED
    BY <1>0, <2>1, <2>2, OwnersLight
<1> QED
  BY <1>1, <1>2, <1>3, <1>4, TryOwners, TriedOwners, ReleaseOwners DEF Attempt

LEMMA StartupOwners ==
    ASSUME NetworkInv, OwnerInv, StartupStep
    PROVE  OwnerInv'
<1>0. TodoInv /\ LockType /\ "watchdog" \in Thread
  BY DEF NetworkInv, Thread
<1>1. todo["watchdog"] # << >> /\ Head(todo["watchdog"]).do \in StartupCalls
  BY Zenon DEF StartupStep, Startup, StartupCheck, StartupFailed, StartLoops, Does, StartupCalls
<1>2. UNCHANGED <<commandLock, recovering, manual>>
  BY DEF StartupStep, Startup, StartupCheck, StartupFailed, StartLoops, agent, flags
<1>3. ASSUME NEW T, Leads("watchdog", T), T \subseteq Base \cup Light \cup {"best"}
      PROVE  OwnerInv'
  BY <1>0, <1>1, <1>2, <1>3, OwnersRound
<1>4. /\ "startup check" \in Base /\ "startup failed" \in Base /\ "start loops" \in Base
      /\ "ensure" \in Light /\ "saw" \in Light
  BY Zenon DEF Base, StartupCalls, Light
<1>5. CASE Startup
  <2>1. Leads("watchdog", {Call("startup check").do})
    BY <1>5, TransitionFew, Zenon DEF Startup
  <2>2. Call("startup check").do \in Base
    BY <1>4, CallDo, Zenon
  <2> QED
    BY <1>3, <2>1, <2>2
<1>6. CASE StartupFailed
  <2>1. Leads("watchdog", {}) \/ Leads("watchdog", {Call("ensure").do})
    BY <1>6, TransitionFew, Zenon DEF StartupFailed
  <2>2. Call("ensure").do \in Light
    BY <1>4, CallDo, Zenon
  <2> QED
    BY <1>3, <2>1, <2>2
<1>7. CASE StartupCheck
  <2> DEFINE a == Saw(ConnectedSsid, "startup")
             b == CallOn("best", NoNet, "startup")
             c == Call("startup failed")
             d == Call("start loops")
  <2>1. Goes("watchdog", <<a, d>>) \/ Goes("watchdog", <<b, c, d>>)
    BY <1>7 DEF StartupCheck
  <2>2. a.do \in Light /\ b.do = "best" /\ c.do \in Base /\ d.do \in Base
    <3>1. a.do = "saw" /\ b.do = "best"
      BY CallDo DEF Saw
    <3>2. c.do = "startup failed" /\ d.do = "start loops"
      BY CallDo, Zenon
    <3> HIDE DEF a, b, c, d
    <3> QED
      BY <1>4, <3>1, <3>2, Zenon
  <2> HIDE DEF a, b, c, d
  <2>3. Leads("watchdog", {a.do, d.do}) \/ Leads("watchdog", {b.do, c.do, d.do})
    BY <2>1, LeadsFew, Zenon
  <2> QED
    BY <1>3, <2>2, <2>3
<1>8. CASE StartLoops
  <2>1. /\ todo'["watchdog"] = Pass("watchdog") /\ todo'["scan"] = Pass("scan")
        /\ \A u \in Thread \ {"watchdog", "scan"} : todo'[u] = todo[u]
    BY <1>0, <1>8 DEF StartLoops, TodoInv, Thread
  <2>2. /\ Orderly(Pass("watchdog")) /\ Orderly(Pass("scan"))
        /\ Tasks(Pass("watchdog")) \subseteq {"look"}
    <3>1. Left("watchdog", << >>) = Pass("watchdog") /\ Left("scan", << >>) = Pass("scan")
      BY DEF Left
    <3>2. Tasks(<< >>) = {} /\ Orderly(<< >>) /\ "scan" \in Thread
      BY TasksFew, OrderlyOne DEF Thread
    <3> QED
      BY <1>0, <3>1, <3>2, TasksLeft
  <2>3. commandLock # "watchdog" /\ commandLock # "scan"
    <3>1. todo["watchdog"] \in Seq(Calls) /\ Orderly(todo["watchdog"])
      BY <1>0 DEF TodoInv, Fits, OwnerInv, Apart
    <3>2. /\ Tasks(todo["watchdog"])
                = {Head(todo["watchdog"]).do} \cup Tasks(Tail(todo["watchdog"]))
          /\ Tasks(Tail(todo["watchdog"])) \cap Owned = {}
      BY <1>1, <3>1, TasksTail DEF Base
    <3>3. Tasks(todo["watchdog"]) \cap Closing = {}
      BY <1>1, <3>2, Kinds DEF Owned, Base
    <3>4. todo["scan"] = Waiting
      BY <1>1, <3>2 DEF OwnerInv, Apart
    <3>5. Tasks(todo["scan"]) \cap Closing = {}
      BY <3>4, WaitingIs, Kinds DEF Owned, Base
    <3> QED
      BY <3>3, <3>5 DEF OwnerInv, FlagsHaveOwners
  <2>4. FlagsHaveOwners'
    <3>1. todo'["recovery"] = todo["recovery"] /\ todo'["remote"] = todo["remote"]
      BY <2>1 DEF Thread
    <3> QED
      BY <1>0, <1>2, <2>1, <2>3, <3>1 DEF OwnerInv, FlagsHaveOwners, LockType
  <2>5. Apart'
    <3>1. \A u \in Thread : Orderly(todo'[u])
      BY <2>1, <2>2 DEF OwnerInv, Apart
    <3>2. Tasks(todo'["remote"]) \cap Attempting = {}
      BY <2>1 DEF OwnerInv, Apart, Thread
    <3>3. "look" \notin StartupCalls \cup Attempting
      BY Zenon DEF StartupCalls, Attempting
    <3>4. Tasks(todo'["watchdog"]) \cap (StartupCalls \cup Attempting) = {}
      BY <2>1, <2>2, <3>3
    <3> QED
      BY <3>1, <3>2, <3>4 DEF Apart
  <2> QED
    BY <2>4, <2>5 DEF OwnerInv
<1> QED
  BY <1>5, <1>6, <1>7, <1>8 DEF StartupStep

\* What a round of the recovery leads to: another call of the recovery, always.
LEMMA RoundCalls ==
    ASSUME NEW calls \in RoundOfRecovery, Recovery(calls)
    PROVE  \E T : /\ Leads("recovery", T) /\ T \subseteq Base \cup Light \cup {"best"}
                  /\ T \cap LoopCalls # {}
<1>1. /\ "recovered" \in LoopCalls /\ "rescan" \in LoopCalls /\ "timers" \in LoopCalls
      /\ "loop" \in LoopCalls /\ "loop online" \in LoopCalls /\ "retry failed" \in LoopCalls
      /\ "BLE check" \in LoopCalls /\ "give up" \in LoopCalls
  BY Zenon DEF LoopCalls
<1>2. "look" \in Light /\ "stop BLE" \in Light /\ "restart BLE" \in Light
  BY Zenon DEF Light
<1>3. ASSUME NEW c, c.do \in LoopCalls,
             \/ Goes("recovery", <<c>>)
             \/ \E d : Goes("recovery", <<d, c>>) /\ d.do \in Light \cup {"best"}
      PROVE  \E T : /\ Leads("recovery", T) /\ T \subseteq Base \cup Light \cup {"best"}
                    /\ T \cap LoopCalls # {}
  <2>1. CASE Goes("recovery", <<c>>)
    <3>1. Leads("recovery", {c.do})
      BY <2>1, LeadsFew
    <3> QED
      BY <1>3, <3>1 DEF Base
  <2>2. ASSUME NEW d, Goes("recovery", <<d, c>>), d.do \in Light \cup {"best"}
        PROVE  \E T : /\ Leads("recovery", T) /\ T \subseteq Base \cup Light \cup {"best"}
                      /\ T \cap LoopCalls # {}
    <3>1. Leads("recovery", {d.do, c.do})
      BY <2>2, LeadsFew
    <3> QED
      BY <1>3, <2>2, <3>1 DEF Base
  <2> QED
    BY <1>3, <2>1, <2>2
<1>4. ASSUME NEW task \in LoopCalls,
             \/ Goes("recovery", <<Call(task)>>)
             \/ \E d : Goes("recovery", <<d, Call(task)>>) /\ d.do \in Light \cup {"best"}
      PROVE  \E T : /\ Leads("recovery", T) /\ T \subseteq Base \cup Light \cup {"best"}
                    /\ T \cap LoopCalls # {}
  <2>1. Call(task).do = task
    BY CallDo
  <2> QED
    BY <1>3, <1>4, <2>1
<1>5. /\ \A n, source : CallOn("best", n, source).do \in Light \cup {"best"}
      /\ Look("recovery-ble").do \in Light \cup {"best"}
      /\ Call("stop BLE").do \in Light \cup {"best"} /\ Call("restart BLE").do \in Light \cup {"best"}
  <2>1. ASSUME NEW task \in Light \cup {"best"}, NEW n, NEW source
        PROVE  /\ Call(task).do \in Light \cup {"best"}
               /\ CallOn(task, n, source).do \in Light \cup {"best"}
    BY CallDo
  <2>2. \A n, source : CallOn("best", n, source).do \in Light \cup {"best"}
    BY <2>1
  <2> QED
    BY <1>2, <2>1, <2>2, Zenon DEF Look
<1>6. \E task \in LoopCalls :
          \/ Goes("recovery", <<Call(task)>>)
          \/ \E d : Goes("recovery", <<d, Call(task)>>) /\ d.do \in Light \cup {"best"}
  BY <1>1, <1>5, Zenon DEF RoundOfRecovery, Recovery
<1> QED
  BY <1>4, <1>6

LEMMA RecoveryStepOwners ==
    ASSUME NetworkInv, OwnerInv, RecoveryStep
    PROVE  OwnerInv'
<1>0. TodoInv /\ LockType /\ StateType /\ "recovery" \in Thread
  BY DEF NetworkInv, Thread
<1>1. todo["recovery"] # << >> /\ Head(todo["recovery"]).do \in LoopCalls
  BY Zenon DEF RecoveryStep, Recover, Rescan, FallBack, Loop, LoopOnline, RetryDue, RetryFailed,
         BleTimesOut, BleRestartDue, NothingDue, GiveUp, Recovered, AtTimers, AtBleTimers,
         AtBleCheck, Recovering, Does, LoopCalls
<1>2. Finish("recovery") = <<Call("recovered")>>
  BY DEF Finish
<1>3. ASSUME NEW T, Leads("recovery", T), T \subseteq Base \cup Light \cup {"best"},
             T \cap LoopCalls # {}, UNCHANGED <<commandLock, recovering, manual>>
      PROVE  OwnerInv'
  BY <1>0, <1>1, <1>3, OwnersRound
<1>4. ASSUME NEW calls \in RoundOfRecovery, Recovery(calls), UNCHANGED <<commandLock, recovering, manual>>
      PROVE  OwnerInv'
  BY <1>3, <1>4, RoundCalls
<1>5. CASE Recover \/ LoopOnline
  <2>1. \/ Recovery(<<Call("recovered")>>) \/ Recovery(<<Call("rescan")>>)
        \/ Recovery(<<Call("timers")>>)
    BY <1>2, <1>5 DEF Recover, LoopOnline
  <2>2. UNCHANGED <<commandLock, recovering, manual>>
    BY <1>5 DEF Recover, LoopOnline, agent, flags
  <2> QED
    BY <1>4, <2>1, <2>2 DEF RoundOfRecovery
<1>6. CASE Loop \/ RetryDue \/ BleTimesOut \/ BleRestartDue \/ NothingDue
  <2>1. \E calls \in RoundOfRecovery : Recovery(calls)
    BY <1>6 DEF Loop, RetryDue, BleTimesOut, BleRestartDue, NothingDue, RoundOfRecovery
  <2>2. UNCHANGED <<commandLock, recovering, manual>>
    BY <1>6 DEF Loop, RetryDue, BleTimesOut, BleRestartDue, NothingDue, agent, flags
  <2> QED
    BY <1>4, <2>1, <2>2
<1>7. CASE Rescan \/ FallBack \/ RetryFailed \/ GiveUp
  <2>1. UNCHANGED <<commandLock, recovering, manual>>
    BY <1>7 DEF Rescan, FallBack, RetryFailed, GiveUp, flags
  <2>2. CASE Recovery(<<Call("recovered")>>)
    BY <1>4, <2>1, <2>2 DEF RoundOfRecovery
  <2>3. /\ "fall back" \in LoopCalls /\ "loop" \in LoopCalls /\ "BLE timers" \in LoopCalls
    BY Zenon DEF LoopCalls
  <2>4. ASSUME NEW new, NEW task \in LoopCalls, Transition("recovery", new, <<Call(task)>>)
        PROVE  OwnerInv'
    <3>1. Call(task).do = task
      BY CallDo
    <3>2. Leads("recovery", {Call(task).do})
      BY <2>4, TransitionFew
    <3> QED
      BY <1>3, <2>1, <3>1, <3>2 DEF Base
  <2>5. ASSUME NEW new, NEW task \in LoopCalls,
               Transition("recovery", new, <<CallOn("best", NoNet, "recovery"), Call(task)>>)
        PROVE  OwnerInv'
    <3>1. Call(task).do = task /\ CallOn("best", NoNet, "recovery").do = "best"
      BY CallDo
    <3>2. Leads("recovery", {CallOn("best", NoNet, "recovery").do, Call(task).do})
      BY <2>5, TransitionFew
    <3> QED
      BY <1>3, <2>1, <3>1, <3>2 DEF Base
  <2>6. \/ Recovery(<<Call("recovered")>>)
        \/ \E new : \/ Transition("recovery", new, <<Call("loop")>>)
                    \/ Transition("recovery", new, <<Call("BLE timers")>>)
                    \/ Transition("recovery", new, <<CallOn("best", NoNet, "recovery"), Call("fall back")>>)
    BY <1>2, <1>7 DEF Rescan, FallBack, RetryFailed, GiveUp
  <2> QED
    BY <2>2, <2>3, <2>4, <2>5, <2>6, Zenon
<1>8. CASE Recovered
  <2>1. /\ todo' = [todo EXCEPT !["recovery"] = << >>] /\ recovering' = FALSE
        /\ UNCHANGED <<commandLock, manual>>
    BY <1>8 DEF Recovered
  <2>2. commandLock # "recovery"
    <3>1. todo["recovery"] \in Seq(Calls) /\ Orderly(todo["recovery"])
      BY <1>0 DEF TodoInv, Fits, OwnerInv, Apart
    <3>2. /\ Tasks(todo["recovery"])
                = {Head(todo["recovery"]).do} \cup Tasks(Tail(todo["recovery"]))
          /\ Tasks(Tail(todo["recovery"])) \cap Owned = {}
      BY <1>1, <3>1, TasksTail DEF Base
    <3>3. Tasks(todo["recovery"]) \cap Closing = {}
      BY <1>1, <3>2, Kinds DEF Owned, Base
    <3> QED
      BY <3>3 DEF OwnerInv, FlagsHaveOwners
  <2>3. Orderly(<< >>)
    BY OrderlyOne
  <2> QED
    BY <1>0, <2>1, <2>2, <2>3, OwnersStay
<1> QED
  BY <1>5, <1>6, <1>7, <1>8 DEF RecoveryStep

LEMMA FewWithin ==
    ASSUME NEW c, NEW d, NEW e, NEW T, c.do \in T, d.do \in T, e.do \in T
    PROVE  /\ <<c, d, e>> \in Seq({c, d, e}) /\ Tasks(<<c, d, e>>) \subseteq T
           /\ << >> \in Seq({c}) /\ Tasks(<< >>) \subseteq T
<1>1. {c.do, d.do, e.do} \subseteq T
  OBVIOUS
<1>2. Tasks(<<c, d, e>>) = {c.do, d.do, e.do}
  <2>1. DOMAIN <<c, d, e>> = {1, 2, 3} /\ <<c, d, e>>[1] = c /\ <<c, d, e>>[2] = d /\ <<c, d, e>>[3] = e
    OBVIOUS
  <2> QED
    BY <2>1 DEF Tasks
<1>3. Tasks(<< >>) = {}
  BY ONLY TasksFew
<1>4. << >> \in Seq({c}) /\ <<c, d, e>> \in Seq({c, d, e})
  BY ONLY FewInSeq
<1> QED
  BY <1>1, <1>2, <1>3, <1>4

LEMMA RemoteOwners ==
    ASSUME NetworkInv, OwnerInv, RemoteStep
    PROVE  OwnerInv'
<1>0. TodoInv /\ LockType /\ "remote" \in Thread
  BY DEF NetworkInv, Thread
<1>1. todo["remote"] # << >>
  BY DEF RemoteStep, RemoteLocks, RemoteAnswered, RemoteLate, RemoteFellBack, RemoteFailed,
         RemoteAnswer, Does
<1>2. PICK c \in Calls : c = Head(todo["remote"])
  BY <1>0, <1>1, HeadIs
<1>3. /\ {"answered", "late", "failed", "answer"} \subseteq RemoteCalls \cap Closing
      /\ {"saw", "hold"} \subseteq Light /\ {"drop", "join"} \subseteq Activating
  BY DEF RemoteCalls, Closing, Light, Activating
<1>4. "fell back" \in Activating
  BY Zenon DEF Activating
<1>5. ASSUME NEW T, Leads("remote", T), T \subseteq RemoteCalls \cup Light \cup Activating,
             T \cap Closing # {}, commandLock' \in {commandLock, "remote"},
             UNCHANGED <<recovering, manual>>
      PROVE  OwnerInv'
  BY <1>0, <1>1, <1>5, OwnersRemote
<1>6. CASE RemoteLocks
  <2> DEFINE d == CallOn("drop", c.net, "new")
             j == CallOn("join", c.net, "new")
             e == [c EXCEPT !.do = "answered"]
  <2>1. /\ Transition("remote", "CONNECTING", <<d, j, e>>)
        /\ commandLock' = "remote" /\ UNCHANGED <<recovering, manual>>
    BY <1>2, <1>6 DEF RemoteLocks, Activate
  <2>2. d.do = "drop" /\ j.do = "join" /\ e.do = "answered"
    BY CallDo, RecastDo
  <2> HIDE DEF d, j, e
  <2>3. Leads("remote", {d.do, j.do, e.do})
    BY <2>1, TransitionFew
  <2> QED
    BY <1>3, <1>5, <2>1, <2>2, <2>3
\* Found online, by whichever call.
<1>7. ASSUME NEW n, NEW m, NEW source,
             Goes("remote", <<Saw(n, source), CallOn("hold", m, "none"), Call("answer")>>),
             UNCHANGED <<commandLock, recovering, manual>>
      PROVE  OwnerInv'
  <2>1. /\ Saw(n, source).do = "saw" /\ CallOn("hold", m, "none").do = "hold"
        /\ Call("answer").do = "answer"
    BY CallDo DEF Saw
  <2>2. Leads("remote", {Saw(n, source).do, CallOn("hold", m, "none").do, Call("answer").do})
    BY <1>7, LeadsFew
  <2> QED
    BY <1>3, <1>5, <1>7, <2>1, <2>2
<1>8. CASE RemoteAnswered
  <2>1. UNCHANGED <<commandLock, recovering, manual>>
    BY <1>8 DEF RemoteAnswered, agent, flags
  <2>2. \/ \E n : Goes("remote", <<Saw(n, "remote"), CallOn("hold", c.net, "none"), Call("answer")>>)
        \/ Goes("remote", <<[c EXCEPT !.do = "late"]>>)
    BY <1>2, <1>8 DEF RemoteAnswered
  <2>3. CASE Goes("remote", <<[c EXCEPT !.do = "late"]>>)
    <3>1. [c EXCEPT !.do = "late"].do = "late"
      BY RecastDo
    <3>2. Leads("remote", {[c EXCEPT !.do = "late"].do})
      BY <2>3, LeadsFew
    <3> QED
      BY <1>3, <1>5, <2>1, <3>1, <3>2
  <2> QED
    BY <1>7, <2>1, <2>2, <2>3
<1>9. CASE RemoteLate
  <2>1. UNCHANGED <<commandLock, recovering, manual>>
    BY <1>9 DEF RemoteLate, agent, flags
  <2> DEFINE d == CallOn("drop", c.from, "saved")
             j == CallOn("join", c.from, "saved")
             e == [c EXCEPT !.do = "fell back"]
             f == Call("failed")
  <2>2. \/ \E n : Goes("remote", <<Saw(n, "remote-late"), CallOn("hold", c.net, "none"), Call("answer")>>)
        \/ Goes("remote", <<d, j, e>> \o <<f>>)
        \/ Goes("remote", << >> \o <<f>>)
    BY <1>2, <1>9 DEF RemoteLate, Activate
  <2>3. d.do = "drop" /\ j.do = "join" /\ e.do \in Activating /\ f.do = "failed"
    <3>1. d.do = "drop" /\ j.do = "join" /\ f.do = "failed"
      BY CallDo
    <3>2. e.do = "fell back"
      BY RecastDo, Zenon
    <3> HIDE DEF d, j, e, f
    <3> QED
      BY <1>4, <3>1, <3>2, Zenon
  <2> HIDE DEF d, j, e, f
  <2>4. ASSUME NEW A, NEW a \in Seq(A), Goes("remote", a \o <<f>>), Tasks(a) \subseteq Activating
        PROVE  OwnerInv'
    <3>1. <<f>> \in Seq({f}) /\ Tasks(<<f>>) = {f.do}
      BY FewInSeq, TasksFew
    <3>2. a \o <<f>> \in Seq(A \cup {f}) /\ Tasks(a \o <<f>>) = Tasks(a) \cup {f.do}
      BY <3>1, JoinInSeq, TasksJoin
    <3> DEFINE r == a \o <<f>>
    <3> HIDE DEF r
    <3>3. r \in Seq(A \cup {f}) /\ Tasks(r) = Tasks(a) \cup {f.do} /\ Goes("remote", r)
      BY <2>4, <3>2 DEF r
    <3>4. Leads("remote", Tasks(r))
      BY <3>3 DEF Leads
    <3> QED
      BY <1>3, <1>5, <2>1, <2>3, <2>4, <3>3, <3>4
  <2>5. /\ <<d, j, e>> \in Seq({d, j, e}) /\ Tasks(<<d, j, e>>) \subseteq Activating
        /\ << >> \in Seq({d}) /\ Tasks(<< >>) \subseteq Activating
    BY <1>3, <2>3, FewWithin
  <2> QED
    BY <1>7, <2>1, <2>2, <2>4, <2>5
<1>10. CASE RemoteFellBack
  <2>1. UNCHANGED <<commandLock, recovering, manual>>
    BY <1>10 DEF RemoteFellBack, agent, flags
  <2>2. Goes("remote", << >>) \/ \E n : Goes("remote", <<Saw(n, "remote-fallback")>>)
    BY <1>10 DEF RemoteFellBack
  <2>3. Leads("remote", {})
    BY <1>2, <2>2, LightCalls, LeadsLight, Zenon
  <2>4. Head(todo["remote"]).do \in Activating
    BY <1>4, <1>10, Zenon DEF RemoteFellBack, Does
  <2> QED
    BY <1>0, <1>1, <2>1, <2>3, <2>4, OwnersLight
<1>11. CASE RemoteFailed
  <2>1. UNCHANGED <<commandLock, recovering, manual>>
    BY <1>11 DEF RemoteFailed, flags
  <2>2. \E new : Transition("remote", new, <<Call("answer")>>)
    BY <1>11 DEF RemoteFailed
  <2>3. Leads("remote", {Call("answer").do}) /\ Call("answer").do = "answer"
    BY <2>2, TransitionFew, CallDo
  <2> QED
    BY <1>3, <1>5, <2>1, <2>3
<1>12. CASE RemoteAnswer
  <2>1. /\ commandLock' = "free" /\ manual' = FALSE /\ UNCHANGED recovering
        /\ Goes("remote", << >>) /\ Head(todo["remote"]).do \in RemoteCalls
    BY <1>3, <1>12 DEF RemoteAnswer, Done, Does
  <2>2. << >> \in Seq(Calls) /\ Tasks(<< >>) = {}
    <3>1. << >> \in Seq(Calls)
      OBVIOUS
    <3> QED
      BY <3>1, TasksFew
  <2>3. Head(todo["remote"]).do \notin LoopCalls
    BY <2>1, Kinds DEF Base
  <2> QED
    BY <1>0, <1>1, <2>1, <2>2, OwnersGoOn
<1> QED
  BY <1>6, <1>8, <1>9, <1>10, <1>11, <1>12 DEF RemoteStep

LEMMA PhoneOwners ==
    ASSUME NetworkInv, OwnerInv, PhoneStep
    PROVE  OwnerInv'
<1>0. TodoInv /\ LockType /\ "phone" \in Thread
  BY DEF NetworkInv, Thread
<1>1. todo["phone"] # << >> /\ Head(todo["phone"]).do \in Light
  BY DEF PhoneStep, PhoneAnswered, Provisioned, Does, Light
<1>2. UNCHANGED <<commandLock, recovering, manual>>
  BY DEF PhoneStep, PhoneAnswered, Provisioned, agent, flags
<1>3. PICK c \in Calls : c = Head(todo["phone"])
  BY <1>0, <1>1, HeadIs
<1>4. \/ Goes("phone", << >>) \/ Goes("phone", <<[c EXCEPT !.do = "provisioned"]>>)
      \/ Goes("phone", <<Call("ensure")>>)
      \/ \E n : Goes("phone", <<Saw(n, "phone"), CallOn("hold", c.net, "none")>>)
  BY <1>3 DEF PhoneStep, PhoneAnswered, Provisioned
<1>5. Leads("phone", {})
  <2>1. ASSUME NEW a, NEW b, a.do \in Light, b.do \in Light
        PROVE  /\ Goes("phone", <<a>>) => Leads("phone", {})
               /\ Goes("phone", <<a, b>>) => Leads("phone", {})
    BY <2>1, LeadsLight
  <2>2. Goes("phone", << >>) => Leads("phone", {})
    BY LeadsFew
  <2>3. /\ [c EXCEPT !.do = "provisioned"].do \in Light /\ Call("ensure").do \in Light
        /\ \A n, source : Saw(n, source).do \in Light /\ CallOn("hold", n, source).do \in Light
    BY LightCalls
  <2> QED
    BY <1>4, <2>1, <2>2, <2>3
<1> QED
  BY <1>0, <1>1, <1>2, <1>5, OwnersLight

LEMMA CommandOwners ==
    ASSUME NetworkInv, OwnerInv, NEW n \in Net, RemoteConnect(n) \/ PhoneConnects(n)
    PROVE  OwnerInv'
<1>0. TodoInv /\ LockType /\ {"remote", "phone"} \subseteq Thread
  BY DEF NetworkInv, Thread
<1>1. CASE RemoteConnect(n)
  <2> DEFINE m == IF ConnectedSsid = n THEN NoNet ELSE ConnectedSsid
             c == [Call("lock") EXCEPT !.net = n, !.from = m]
  <2>1. /\ todo["remote"] = << >> /\ todo' = [todo EXCEPT !["remote"] = <<c>>]
        /\ UNCHANGED <<commandLock, recovering>>
    BY <1>1 DEF RemoteConnect
  <2>2. c.do = "lock"
    BY DEF Call
  <2> HIDE DEF m, c
  <2>3. Tasks(<<c>>) = {"lock"} /\ Orderly(<<c>>)
    BY <2>2, TasksFew, OrderlyOne
  <2>4. "lock" \in RemoteCalls /\ "lock" \notin Attempting
    BY DEF RemoteCalls, Attempting
  <2>5. commandLock # "remote"
    BY <1>0, <2>1, IdleHoldsNothing
  <2> DEFINE s == <<c>>
  <2>6. /\ Orderly(s) /\ Tasks(s) \cap RemoteCalls # {} /\ Tasks(s) \cap Attempting = {}
        /\ todo' = [todo EXCEPT !["remote"] = s]
    BY <2>1, <2>3, <2>4
  <2> HIDE DEF s
  <2> QED
    BY <1>0, <2>1, <2>5, <2>6, OwnersStay
<1>2. CASE PhoneConnects(n)
  <2> DEFINE s == Activate(n, "new", CallOn("response", n, "none"))
  <2>1. /\ todo["phone"] = << >> /\ todo' = [todo EXCEPT !["phone"] = s]
        /\ UNCHANGED <<commandLock, recovering, manual>>
    BY <1>2 DEF PhoneConnects, Writable, agent, flags
  <2>2. Orderly(s)
    <3> DEFINE d == CallOn("drop", n, "new")
               j == CallOn("join", n, "new")
               r == CallOn("response", n, "none")
    <3>1. d.do = "drop" /\ j.do = "join" /\ r.do = "response"
      BY CallDo
    <3>2. s = <<d, j, r>>
      BY DEF Activate
    <3> HIDE DEF d, j, r, s
    <3>3. DOMAIN s = {1, 2, 3} /\ s[1] = d /\ s[2] = j /\ s[3] = r
      BY <3>2
    <3>4. {"drop", "join", "response"} \cap Base = {}
      BY Zenon DEF Base, StartupCalls, LoopCalls
    <3> QED
      BY <3>1, <3>3, <3>4 DEF Orderly
  <2> HIDE DEF s
  <2>3. commandLock # "phone"
    BY <1>0, <2>1, IdleHoldsNothing
  <2> QED
    BY <1>0, <2>1, <2>2, <2>3, OwnersStay
<1> QED
  BY <1>1, <1>2

LEMMA PressureOwners ==
    ASSUME NetworkInv, OwnerInv, ReconnectPressure
    PROVE  OwnerInv'
<1>1. TodoInv /\ LockType /\ "recovery" \in Thread
  BY DEF NetworkInv, Thread
<1>2. /\ ~recovering /\ recovering' = TRUE /\ UNCHANGED <<commandLock, manual>>
      /\ todo' = [todo EXCEPT !["recovery"] = <<Call("recover")>>]
  BY DEF ReconnectPressure
<1>3. /\ todo'["recovery"] = <<Call("recover")>>
      /\ \A u \in Thread \ {"recovery"} : todo'[u] = todo[u]
  BY <1>1, <1>2 DEF TodoInv
<1>4. \A u \in Thread \ {"recovery"} : Continues(u)
  BY <1>3 DEF Continues, OwnerInv, Apart
<1> QED
  BY <1>1, <1>2, <1>3, <1>4, RecoveryOwners

LEMMA InitOwners == Init => OwnerInv
<1> SUFFICES ASSUME Init
             PROVE  OwnerInv
  OBVIOUS
<1>1. /\ todo["watchdog"] = <<Call("startup")>> /\ todo["scan"] = Waiting
      /\ \A t \in Thread \ {"watchdog", "scan"} : todo[t] = << >>
  BY Zenon DEF Init, Thread, Waiting
<1>2. FlagsHaveOwners
  BY DEF Init, FlagsHaveOwners
<1>3. Apart
  <2>1. \A t \in Thread : Orderly(todo[t])
    BY <1>1, WaitingIs, OrderlyOne
  <2>2. Tasks(todo["remote"]) = {}
    BY <1>1, TasksFew DEF Thread
  <2> QED
    BY <1>1, <2>1, <2>2 DEF Apart
<1> QED
  BY <1>2, <1>3 DEF OwnerInv

LEMMA NextOwners == NetworkInv /\ OwnerInv /\ [Next]_vars => OwnerInv'
<1> SUFFICES ASSUME NetworkInv, OwnerInv, [Next]_vars
             PROVE  OwnerInv'
  OBVIOUS
<1>1. ASSUME UNCHANGED <<todo, commandLock, recovering, manual>>
      PROVE  OwnerInv'
  BY <1>1 DEF OwnerInv, FlagsHaveOwners, Apart, Orderly, Tasks
<1>2. ASSUME NEW t \in Thread, Step(t)
      PROVE  OwnerInv'
  BY <1>2, BleOwners, WifiOwners, ObservationOwners, AttemptOwners, StartupOwners,
     RecoveryStepOwners, RemoteOwners, PhoneOwners DEF Step
<1>3. CASE ServerStep \/ Timers
  <2>1. UNCHANGED <<todo, commandLock, recovering, manual>>
    BY <1>3 DEF ServerStep, ServerRuns, ServerReady, ServerEnds, Timers, CheckExpires, HoldEnds,
                BackoffExpires, agent, flags
  <2> QED
    BY <1>1, <2>1
<1>4. CASE Environment
  <2>1. ASSUME \/ \E n \in Net, a \in Air : AirChanges(n, a)
               \/ \E n \in Net : AutoJoin(n)
               \/ HotspotStarts \/ ServerFails
        PROVE  OwnerInv'
    <3>1. UNCHANGED <<todo, commandLock, recovering, manual>>
      BY <2>1 DEF AirChanges, AutoJoin, HotspotStarts, ServerFails, agent, flags
    <3> QED
      BY <1>1, <3>1
  <2> QED
    BY <1>4, <2>1, CommandOwners, PressureOwners DEF Environment
<1>5. CASE UNCHANGED vars
  BY <1>1, <1>5 DEF vars, agent, flags
<1> QED
  BY <1>2, <1>3, <1>4, <1>5 DEF Next

\* _command_lock, _recovery_in_progress and _manual_connect_active (whatever ends a thread's work:
\* success, failure, a lock that is taken, a round that is given up) are never left behind: the
\* holder of the lock always has a call before it that ends with its release, a recovery that
\* keeps others from starting one is still in its round, and a remote command for which the
\* automatic attempts stand back still has its answer to give.
THEOREM FlagsAreOwned == Spec => []FlagsHaveOwners
<1>1. Init => NetworkInv /\ OwnerInv
  BY InitInv, InitOwners
<1>2. NetworkInv /\ OwnerInv /\ [Next]_vars => (NetworkInv /\ OwnerInv)'
  BY NextInv, NextOwners
<1>3. NetworkInv /\ OwnerInv => FlagsHaveOwners
  BY DEF OwnerInv
<1> QED
  BY <1>1, <1>2, <1>3, PTL DEF Spec
=============================================================================
