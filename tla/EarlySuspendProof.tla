------------------------- MODULE EarlySuspendProof -------------------------
(***************************************************************************)
(* Proofs about EarlySuspend, for every set of handlers and their levels.  *)
(***************************************************************************)
EXTENDS EarlySuspend, SequenceTheorems, TLAPS

\* The list of handlers holds each once, in the order of their levels.
Once   == \A i, j \in 1 .. Len(list) : list[i] = list[j] => i = j
Sorted == \A i, j \in 1 .. Len(list) :
              i < j => Level[list[i]] <= Level[list[j]]

\* How far the loops over the handlers have come.
Progress ==
    /\ pc = "suspending" =>
         /\ susp
         /\ at \in 1 .. Len(list) + 1
         /\ \A i \in 1 .. Len(list) : list[i] \in down <=> i < at
    /\ pc = "resuming" =>
         /\ ~susp
         /\ at \in 0 .. Len(list)
         /\ \A i \in 1 .. Len(list) : list[i] \in down <=> i <= at

Agree == MutexFree => \A i \in 1 .. Len(list) : list[i] \in down <=> susp

\* A handler that has been told to suspend is still there.
Listed == \A h \in down : Contains(list, h)

\* main_wake_lock is released only when user space wants to sleep and the
\* handlers have been called.
MainReleased == /\ ~main => req /\ susp /\ MutexFree
                /\ pc = "asleep" => ~main
                /\ req => requested # "on"

IInv == /\ TypeOK /\ Once /\ Sorted /\ Progress /\ Agree /\ Listed
        /\ MainReleased /\ NothingOwed
-----------------------------------------------------------------------------
(* Sequences. *)

\* What InsertAt returns.
LEMMA Inserted ==
  ASSUME NEW S, NEW s \in Seq(S), NEW e \in S, NEW k \in 1 .. Len(s) + 1
  PROVE  /\ InsertAt(s, k, e) \in Seq(S)
         /\ Len(InsertAt(s, k, e)) = Len(s) + 1
         /\ \A i \in 1 .. k - 1 : InsertAt(s, k, e)[i] = s[i]
         /\ InsertAt(s, k, e)[k] = e
         /\ \A i \in k .. Len(s) : InsertAt(s, k, e)[i + 1] = s[i]
<1> DEFINE a == SubSeq(s, 1, k - 1)
           b == SubSeq(s, k, Len(s))
           c == a \o <<e>>
<1>0. Len(s) \in Nat /\ k \in Int
  BY LenProperties
<1>1. a \in Seq(S) /\ Len(a) = k - 1 /\ \A i \in 1 .. k - 1 : a[i] = s[i]
  BY <1>0
<1>2. /\ b \in Seq(S) /\ Len(b) = Len(s) + 1 - k
      /\ \A i \in 1 .. Len(s) + 1 - k : b[i] = s[k + i - 1]
  BY <1>0
<1> HIDE DEF a, b
<1>3. c \in Seq(S) /\ Len(c) = k /\ c[k] = e /\ \A i \in 1 .. k - 1 : c[i] = s[i]
  <2>1. <<e>> \in Seq(S) /\ Len(<<e>>) = 1 /\ <<e>>[1] = e
    OBVIOUS
  <2>2. /\ c \in Seq(S) /\ Len(c) = Len(a) + Len(<<e>>)
        /\ \A i \in 1 .. Len(a) + Len(<<e>>) :
             c[i] = IF i <= Len(a) THEN a[i] ELSE <<e>>[i - Len(a)]
    BY <2>1, <1>1, ConcatProperties
  <2>3. c[k] = <<e>>[1]
    BY <2>1, <2>2, <1>0, <1>1
  <2> QED BY <2>1, <2>2, <2>3, <1>0, <1>1
<1> HIDE DEF c
<1>4. /\ c \o b \in Seq(S) /\ Len(c \o b) = Len(c) + Len(b)
      /\ \A i \in 1 .. Len(c) + Len(b) :
           (c \o b)[i] = IF i <= Len(c) THEN c[i] ELSE b[i - Len(c)]
  BY <1>2, <1>3, ConcatProperties
<1>5. ASSUME NEW i \in k .. Len(s)
      PROVE  (c \o b)[i + 1] = s[i]
  <2>1. (c \o b)[i + 1] = b[i + 1 - k] /\ i + 1 - k \in 1 .. Len(s) + 1 - k
    BY <1>0, <1>2, <1>3, <1>4
  <2>2. b[i + 1 - k] = s[i]
    BY <2>1, <1>0, <1>2
  <2> QED BY <2>1, <2>2
<1>6. /\ (c \o b)[k] = e /\ \A i \in 1 .. k - 1 : (c \o b)[i] = s[i]
      /\ Len(c \o b) = Len(s) + 1
  BY <1>0, <1>2, <1>3, <1>4
<1>7. InsertAt(s, k, e) = c \o b
  BY DEF InsertAt, a, b, c
<1> QED BY <1>4, <1>5, <1>6, <1>7

\* What RemoveAt returns.
LEMMA Removed ==
  ASSUME NEW S, NEW s \in Seq(S), NEW k \in 1 .. Len(s)
  PROVE  /\ RemoveAt(s, k) \in Seq(S)
         /\ Len(RemoveAt(s, k)) = Len(s) - 1
         /\ \A i \in 1 .. k - 1 : RemoveAt(s, k)[i] = s[i]
         /\ \A i \in k .. Len(s) - 1 : RemoveAt(s, k)[i] = s[i + 1]
<1> DEFINE a == SubSeq(s, 1, k - 1)
           b == SubSeq(s, k + 1, Len(s))
<1>0. Len(s) \in Nat /\ k \in Int
  BY LenProperties
<1>1. a \in Seq(S) /\ Len(a) = k - 1 /\ \A i \in 1 .. k - 1 : a[i] = s[i]
  BY <1>0
<1>2. /\ b \in Seq(S) /\ Len(b) = Len(s) - k
      /\ \A i \in 1 .. Len(s) - k : b[i] = s[k + i]
  BY <1>0
<1> HIDE DEF a, b
<1>3. /\ a \o b \in Seq(S) /\ Len(a \o b) = Len(a) + Len(b)
      /\ \A i \in 1 .. Len(a) + Len(b) :
           (a \o b)[i] = IF i <= Len(a) THEN a[i] ELSE b[i - Len(a)]
  BY <1>1, <1>2, ConcatProperties
<1>4. ASSUME NEW i \in k .. Len(s) - 1
      PROVE  (a \o b)[i] = s[i + 1]
  <2>1. (a \o b)[i] = b[i - (k - 1)] /\ i - (k - 1) \in 1 .. Len(s) - k
    BY <1>0, <1>1, <1>2, <1>3
  <2>2. b[i - (k - 1)] = s[i + 1]
    BY <2>1, <1>0, <1>2
  <2> QED BY <2>1, <2>2
<1>5. /\ \A i \in 1 .. k - 1 : (a \o b)[i] = s[i]
      /\ Len(a \o b) = Len(s) - 1
  BY <1>0, <1>1, <1>2, <1>3
<1>6. RemoveAt(s, k) = a \o b
  BY DEF RemoveAt, a, b
<1> QED BY <1>3, <1>4, <1>5, <1>6

\* What queue_work leaves on the queue.
LEMMA QueuedFacts ==
  ASSUME TypeOK, NEW w \in Works
  PROVE  /\ Queued(w) \in Seq(Works)
         /\ Contains(Queued(w), w)
         /\ \A v \in Works : Contains(queue, v) => Contains(Queued(w), v)
BY DEF TypeOK, Queued, Contains

\* What taking a work off the queue leaves there.
LEMMA TakeFacts ==
  ASSUME TypeOK, queue # <<>>
  PROVE  /\ Head(queue) \in Works
         /\ Tail(queue) \in Seq(Works)
         /\ \A v \in Works : Contains(queue, v) =>
              v = Head(queue) \/ Contains(Tail(queue), v)
<1>1. queue \in Seq(Works) /\ Len(queue) \in Nat
  BY LenProperties DEF TypeOK
<1>2. Head(queue) \in Works /\ Tail(queue) \in Seq(Works)
      /\ Len(Tail(queue)) = Len(queue) - 1
      /\ \A i \in 1 .. Len(Tail(queue)) : Tail(queue)[i] = queue[i + 1]
  BY <1>1, HeadTailProperties
<1>3. ASSUME NEW v \in Works, NEW i \in 1 .. Len(queue), queue[i] = v
      PROVE  v = Head(queue) \/ Contains(Tail(queue), v)
  <2>1. CASE i = 1
    BY <2>1, <1>1, <1>3
  <2>2. CASE i > 1
    <3>1. i - 1 \in 1 .. Len(Tail(queue)) /\ Tail(queue)[i - 1] = v
      BY <2>2, <1>1, <1>2, <1>3
    <3> QED BY <3>1 DEF Contains
  <2> QED BY <2>1, <2>2, <1>1
<1> QED BY <1>2, <1>3 DEF Contains
-----------------------------------------------------------------------------
(* The invariant. *)

\* The invariant holds at boot: no handler, no request.
LEMMA InitInv == Init => IInv
<1> SUFFICES ASSUME Init PROVE IInv
  OBVIOUS
<1>1. TypeOK
  <2>1. queue \in Seq(Works) /\ list \in Seq(Handlers)
    BY EmptySeq DEF Init
  <2> QED BY <2>1 DEF Init, TypeOK, Places
<1>2. Len(list) = 0 /\ down = {}
  BY DEF Init
<1>3. Once /\ Sorted /\ Agree /\ Listed
  BY <1>2 DEF Once, Sorted, Agree, Listed
<1>4. Progress /\ MainReleased /\ NothingOwed
  BY DEF Init, Progress, MainReleased, NothingOwed
<1> QED BY <1>1, <1>3, <1>4 DEF IInv

\* A handler is added where its level belongs and told if it has to be.
LEMMA RegisterStep ==
  ASSUME IInv, NEW h \in Handlers, Register(h)
  PROVE  IInv'
<1> USE DEF IInv
<1>0. /\ list \in Seq(Handlers) /\ Len(list) \in Nat /\ down \subseteq Handlers
      /\ \A i \in 1 .. Len(list) : list[i] \in Handlers
  BY LenProperties DEF TypeOK
<1>1. PICK k \in 1 .. Len(list) + 1 :
         Place(h, k) /\ list' = InsertAt(list, k, h)
  BY DEF Register
<1>2. /\ list' \in Seq(Handlers)
      /\ Len(list') = Len(list) + 1
      /\ \A i \in 1 .. k - 1 : list'[i] = list[i]
      /\ list'[k] = h
      /\ \A i \in k .. Len(list) : list'[i + 1] = list[i]
  <2>1. /\ InsertAt(list, k, h) \in Seq(Handlers)
        /\ Len(InsertAt(list, k, h)) = Len(list) + 1
        /\ \A i \in 1 .. k - 1 : InsertAt(list, k, h)[i] = list[i]
        /\ InsertAt(list, k, h)[k] = h
        /\ \A i \in k .. Len(list) : InsertAt(list, k, h)[i + 1] = list[i]
    BY <1>0, Inserted
  <2>2. list' = InsertAt(list, k, h)
    BY <1>1
  <2> QED BY <2>1, <2>2
<1>3. /\ UNCHANGED <<req, susp, requested, main, queue, pc, at>>
      /\ down' = IF susp THEN down \cup {h} ELSE down
      /\ MutexFree /\ MutexFree'
      /\ \A i \in 1 .. Len(list) : list[i] # h
  BY DEF Register, MutexFree, Contains
<1>4. /\ \A i \in 1 .. Len(list') : i < k => /\ i \in 1 .. Len(list)
                                              /\ list'[i] = list[i]
      /\ \A i \in 1 .. Len(list') : i > k => /\ i - 1 \in 1 .. Len(list)
                                              /\ list'[i] = list[i - 1]
  <2>1. ASSUME NEW i \in 1 .. Len(list'), i > k
        PROVE  i - 1 \in 1 .. Len(list) /\ list'[i] = list[i - 1]
    <3>1. i - 1 \in k .. Len(list) /\ i = (i - 1) + 1
      BY <2>1, <1>0, <1>2
    <3> QED BY <3>1, <1>0, <1>2
  <2> QED BY <2>1, <1>0, <1>2
<1>5. TypeOK'
  BY <1>0, <1>2, <1>3 DEF TypeOK
<1>6. Once'
  <2> SUFFICES ASSUME NEW i \in 1 .. Len(list'), NEW j \in 1 .. Len(list'),
                      i < j
               PROVE  list'[i] # list'[j]
    BY <1>2 DEF Once
  <2>1. CASE i = k
    BY <2>1, <1>0, <1>2, <1>3, <1>4
  <2>2. CASE j = k
    BY <2>2, <1>0, <1>2, <1>3, <1>4
  <2>3. CASE i < k /\ j < k
    BY <2>3, <1>4 DEF Once
  <2>4. CASE i < k /\ j > k
    BY <2>4, <1>0, <1>2, <1>4 DEF Once
  <2>5. CASE i > k /\ j > k
    <3>1. /\ i - 1 \in 1 .. Len(list) /\ list'[i] = list[i - 1]
          /\ j - 1 \in 1 .. Len(list) /\ list'[j] = list[j - 1]
      BY <2>5, <1>4
    <3>2. i - 1 # j - 1
      BY <1>0, <1>2
    <3> QED BY <3>1, <3>2 DEF Once
  <2> QED BY <2>1, <2>2, <2>3, <2>4, <2>5, <1>0, <1>2
<1>7. Sorted'
  <2>1. \A i \in 1 .. Len(list) : Level[list[i]] \in Nat
    BY <1>0, EarlySuspendAssumption
  <2>2. Level[h] \in Nat
    BY EarlySuspendAssumption
  <2>3. \A i \in 1 .. k - 1 : Level[list[i]] <= Level[h]
    BY <1>1 DEF Place
  <2>4. \A i \in k .. Len(list) : Level[list[i]] >= Level[h]
    BY <1>0, <1>1, <2>1, <2>2 DEF Place, Sorted
  <2> SUFFICES ASSUME NEW i \in 1 .. Len(list'), NEW j \in 1 .. Len(list'),
                      i < j
               PROVE  Level[list'[i]] <= Level[list'[j]]
    BY DEF Sorted
  <2>5. CASE i = k
    <3>1. j - 1 \in k .. Len(list) /\ list'[j] = list[j - 1]
      BY <2>5, <1>0, <1>2, <1>4
    <3> QED BY <2>5, <3>1, <2>1, <2>2, <2>4, <1>0, <1>2
  <2>6. CASE j = k
    <3>1. i \in 1 .. k - 1 /\ list'[i] = list[i]
      BY <2>6, <1>0, <1>2, <1>4
    <3> QED BY <2>6, <3>1, <2>3, <1>2
  <2>7. CASE i < k /\ j < k
    BY <2>7, <1>4 DEF Sorted
  <2>8. CASE i < k /\ j > k
    <3>1. /\ i \in 1 .. Len(list) /\ list'[i] = list[i]
          /\ j - 1 \in 1 .. Len(list) /\ list'[j] = list[j - 1]
      BY <2>8, <1>4
    <3>2. i < j - 1 \/ i = j - 1
      BY <2>8, <1>0, <1>2
    <3>3. CASE i < j - 1
      BY <3>1, <3>3 DEF Sorted
    <3>4. CASE i = j - 1
      BY <3>1, <3>4, <2>1
    <3> QED BY <3>2, <3>3, <3>4
  <2>9. CASE i > k /\ j > k
    <3>1. /\ i - 1 \in 1 .. Len(list) /\ list'[i] = list[i - 1]
          /\ j - 1 \in 1 .. Len(list) /\ list'[j] = list[j - 1]
      BY <2>9, <1>4
    <3>2. i - 1 < j - 1
      BY <1>0, <1>2
    <3> QED BY <3>1, <3>2 DEF Sorted
  <2> QED BY <2>5, <2>6, <2>7, <2>8, <2>9, <1>0, <1>2
<1>8. Agree'
  <2> SUFFICES ASSUME NEW i \in 1 .. Len(list')
               PROVE  list'[i] \in down' <=> susp'
    BY DEF Agree
  <2>1. h \notin down
    BY <1>3 DEF Listed, Contains
  <2>2. CASE i = k
    BY <2>1, <2>2, <1>2, <1>3
  <2>3. CASE i < k
    BY <2>3, <1>3, <1>4 DEF Agree
  <2>4. CASE i > k
    BY <2>4, <1>3, <1>4 DEF Agree
  <2> QED BY <2>2, <2>3, <2>4, <1>0, <1>2
<1>10. Listed'
  <2>1. ASSUME NEW g \in down, NEW i \in 1 .. Len(list), list[i] = g
        PROVE  Contains(list', g)
    <3>1. CASE i < k
      BY <3>1, <2>1, <1>0, <1>2 DEF Contains
    <3>2. CASE i >= k
      <4>1. i + 1 \in 1 .. Len(list') /\ list'[i + 1] = g
        BY <3>2, <2>1, <1>0, <1>2
      <4> QED BY <4>1 DEF Contains
    <3> QED BY <3>1, <3>2, <1>0
  <2>2. Contains(list', h)
    BY <1>0, <1>2 DEF Contains
  <2> QED BY <1>3, <2>1, <2>2 DEF Listed, Contains
<1>9. Progress' /\ MainReleased' /\ NothingOwed'
  BY <1>3 DEF Progress, MainReleased, NothingOwed, MutexFree
<1> QED BY <1>5, <1>6, <1>7, <1>8, <1>9, <1>10

\* A handler is taken off the list.
LEMMA UnregisterStep ==
  ASSUME IInv, NEW h \in Handlers, Unregister(h)
  PROVE  IInv'
<1> USE DEF IInv
<1>0. /\ list \in Seq(Handlers) /\ Len(list) \in Nat /\ down \subseteq Handlers
      /\ \A i \in 1 .. Len(list) : list[i] \in Handlers
  BY LenProperties DEF TypeOK
<1>1. PICK k \in 1 .. Len(list) : list[k] = h /\ list' = RemoveAt(list, k)
  BY DEF Unregister
<1>2. /\ list' \in Seq(Handlers)
      /\ Len(list') = Len(list) - 1
      /\ \A i \in 1 .. k - 1 : list'[i] = list[i]
      /\ \A i \in k .. Len(list) - 1 : list'[i] = list[i + 1]
  <2>1. /\ RemoveAt(list, k) \in Seq(Handlers)
        /\ Len(RemoveAt(list, k)) = Len(list) - 1
        /\ \A i \in 1 .. k - 1 : RemoveAt(list, k)[i] = list[i]
        /\ \A i \in k .. Len(list) - 1 : RemoveAt(list, k)[i] = list[i + 1]
    BY <1>0, Removed
  <2>2. list' = RemoveAt(list, k)
    BY <1>1
  <2> QED BY <2>1, <2>2
<1>3. /\ UNCHANGED <<req, susp, requested, main, queue, pc, at>>
      /\ down' = down \ {h}
      /\ MutexFree /\ MutexFree'
  BY DEF Unregister, MutexFree
<1>4. /\ \A i \in 1 .. Len(list') : i < k => /\ i \in 1 .. Len(list)
                                              /\ list'[i] = list[i]
      /\ \A i \in 1 .. Len(list') : i >= k => /\ i + 1 \in 1 .. Len(list)
                                               /\ list'[i] = list[i + 1]
  BY <1>0, <1>2
<1>5. TypeOK'
  BY <1>0, <1>2, <1>3 DEF TypeOK
<1>6. /\ Once'
      /\ Sorted'
  <2> SUFFICES ASSUME NEW i \in 1 .. Len(list'), NEW j \in 1 .. Len(list'),
                      i < j
               PROVE  /\ list'[i] # list'[j]
                      /\ Level[list'[i]] <= Level[list'[j]]
    BY <1>2 DEF Once, Sorted
  <2>1. CASE i < k /\ j < k
    BY <2>1, <1>4 DEF Once, Sorted
  <2>2. CASE i < k /\ j >= k
    <3>1. /\ i \in 1 .. Len(list) /\ list'[i] = list[i]
          /\ j + 1 \in 1 .. Len(list) /\ list'[j] = list[j + 1]
      BY <2>2, <1>4
    <3>2. i < j + 1 /\ i # j + 1
      BY <1>0, <1>2
    <3> QED BY <3>1, <3>2 DEF Once, Sorted
  <2>3. CASE i >= k /\ j >= k
    <3>1. /\ i + 1 \in 1 .. Len(list) /\ list'[i] = list[i + 1]
          /\ j + 1 \in 1 .. Len(list) /\ list'[j] = list[j + 1]
      BY <2>3, <1>4
    <3>2. i + 1 < j + 1 /\ i + 1 # j + 1
      BY <1>0, <1>2
    <3> QED BY <3>1, <3>2 DEF Once, Sorted
  <2> QED BY <2>1, <2>2, <2>3, <1>0, <1>2
<1>7. \A i \in 1 .. Len(list') : list'[i] # h
  <2> SUFFICES ASSUME NEW i \in 1 .. Len(list') PROVE list'[i] # h
    OBVIOUS
  <2>1. CASE i < k
    BY <2>1, <1>0, <1>1, <1>4 DEF Once
  <2>2. CASE i >= k
    <3>1. i + 1 \in 1 .. Len(list) /\ list'[i] = list[i + 1] /\ i + 1 # k
      BY <2>2, <1>0, <1>2, <1>4
    <3> QED BY <3>1, <1>1 DEF Once
  <2> QED BY <2>1, <2>2, <1>0, <1>2
<1>8. Agree'
  <2> SUFFICES ASSUME NEW i \in 1 .. Len(list')
               PROVE  list'[i] \in down' <=> susp'
    BY DEF Agree
  <2>1. list'[i] # h
    BY <1>7
  <2>2. CASE i < k
    BY <2>1, <2>2, <1>3, <1>4 DEF Agree
  <2>3. CASE i >= k
    BY <2>1, <2>3, <1>3, <1>4 DEF Agree
  <2> QED BY <2>2, <2>3, <1>0, <1>2
<1>9. Listed'
  <2>1. ASSUME NEW g \in down, g # h, NEW i \in 1 .. Len(list), list[i] = g
        PROVE  Contains(list', g)
    <3>1. i # k
      BY <2>1, <1>1
    <3>2. CASE i < k
      <4>1. i \in 1 .. Len(list') /\ list'[i] = g
        BY <3>2, <2>1, <1>0, <1>2
      <4> QED BY <4>1 DEF Contains
    <3>3. CASE i > k
      <4>1. i - 1 \in k .. Len(list) - 1 /\ (i - 1) + 1 = i
        BY <3>3, <1>0
      <4>2. i - 1 \in 1 .. Len(list') /\ list'[i - 1] = g
        BY <4>1, <2>1, <1>0, <1>2
      <4> QED BY <4>2 DEF Contains
    <3> QED BY <3>1, <3>2, <3>3, <1>0
  <2> QED BY <1>3, <2>1 DEF Listed, Contains
<1>10. Progress' /\ MainReleased' /\ NothingOwed'
  BY <1>3 DEF Progress, MainReleased, NothingOwed, MutexFree
<1> QED BY <1>5, <1>6, <1>8, <1>9, <1>10

\* User space writes to /sys/power/state, or the last lock goes.
LEMMA RequestStep ==
  ASSUME IInv, (\E s \in {"on", "mem"} : Request(s)) \/ LastLockGoes
  PROVE  IInv'
<1> USE DEF IInv
<1>0. /\ \A w \in Works : /\ Queued(w) \in Seq(Works) /\ Contains(Queued(w), w)
                          /\ \A v \in Works :
                               Contains(queue, v) => Contains(Queued(w), v)
      /\ "early" \in Works /\ "late" \in Works /\ "suspend" \in Works
  BY QueuedFacts DEF Works
<1>1. CASE LastLockGoes
  <2>1. /\ UNCHANGED <<req, susp, requested, main, pc, list, at, down>>
        /\ queue' = Queued("suspend")
    BY <1>1 DEF LastLockGoes
  <2>2. TypeOK'
    BY <1>0, <2>1 DEF TypeOK
  <2>3. NothingOwed'
    BY <1>0, <2>1 DEF NothingOwed
  <2> QED BY <2>1, <2>2, <2>3 DEF Once, Sorted, Progress, Agree, Listed,
                                  MainReleased, MutexFree
<1>2. ASSUME NEW s \in {"on", "mem"}, Request(s)
      PROVE  IInv'
  <2>1. /\ UNCHANGED <<susp, pc, list, at, down>> /\ requested' = s
        /\ pc # "asleep"
    BY <1>2 DEF Request
  <2>2. Once' /\ Sorted' /\ Progress' /\ Agree' /\ Listed'
    BY <2>1 DEF Once, Sorted, Progress, Agree, Listed, MutexFree
  <2>3. CASE ~req /\ s # "on" /\ req' = TRUE /\ queue' = Queued("early")
             /\ main' = main
    <3>1. TypeOK'
      BY <1>0, <2>1, <2>3 DEF TypeOK
    <3>2. MainReleased'
      BY <2>1, <2>3 DEF MainReleased, MutexFree
    <3>3. NothingOwed'
      BY <1>0, <2>1, <2>3 DEF NothingOwed
    <3> QED BY <2>2, <3>1, <3>2, <3>3
  <2>4. CASE req /\ s = "on" /\ req' = FALSE /\ main' = TRUE
             /\ queue' = Queued("late")
    <3>1. TypeOK'
      BY <1>0, <2>1, <2>4 DEF TypeOK
    <3>2. MainReleased'
      BY <2>1, <2>4 DEF MainReleased
    <3>3. NothingOwed'
      BY <1>0, <2>1, <2>4 DEF NothingOwed
    <3> QED BY <2>2, <3>1, <3>2, <3>3
  <2>5. CASE (req <=> s # "on") /\ UNCHANGED <<req, main, queue>>
    <3>1. TypeOK'
      BY <2>1, <2>5 DEF TypeOK
    <3>2. MainReleased' /\ NothingOwed'
      BY <2>1, <2>5 DEF MainReleased, NothingOwed, MutexFree
    <3> QED BY <2>2, <3>1, <3>2
  <2> QED BY <1>2, <2>3, <2>4, <2>5 DEF Request
<1> QED BY <1>1, <1>2

\* The steps of early_suspend and late_resume that call no handler, and those
\* of the suspend work, leave the list and the handlers alone.
LEMMA SameHandlers ==
  ASSUME IInv, UNCHANGED <<list, down>>
  PROVE  Once' /\ Sorted' /\ Listed'
BY DEF IInv, Once, Sorted, Listed

\* The workqueue thread takes up the next work: what the queue promised, the
\* thread is now about to do.
LEMMA TakeWorkStep ==
  ASSUME IInv, TakeWork
  PROVE  IInv'
<1> USE DEF IInv
<1>1. /\ pc = "idle" /\ pc' = Head(queue) /\ queue' = Tail(queue)
      /\ UNCHANGED <<req, susp, requested, main, list, at, down>>
      /\ Head(queue) \in Works /\ Tail(queue) \in Seq(Works)
      /\ \A v \in Works : Contains(queue, v) =>
           v = Head(queue) \/ Contains(Tail(queue), v)
  BY TakeFacts DEF TakeWork
<1>2. TypeOK'
  BY <1>1 DEF TypeOK, Places
<1>3. pc' \in {"early", "late", "suspend"} /\ MutexFree /\ MutexFree'
  BY <1>1 DEF Works, MutexFree
<1>4. Progress' /\ Agree' /\ MainReleased'
  BY <1>1, <1>3 DEF Progress, Agree, MainReleased
<1>5. "early" \in Works /\ "late" \in Works
  BY DEF Works
<1>6. NothingOwed'
  BY <1>1, <1>5 DEF NothingOwed
<1> QED BY <1>1, <1>2, <1>4, <1>6, SameHandlers

\* early_suspend, from its first test over the handlers to its last test.
LEMMA EarlySteps ==
  ASSUME IInv, EarlyBegins \/ CallSuspend \/ HandlersSuspended \/ EarlyEnds
  PROVE  IInv'
<1> USE DEF IInv
<1>0. Len(list) \in Nat /\ \A i \in 1 .. Len(list) : list[i] \in Handlers
  BY LenProperties DEF TypeOK
<1>1. CASE EarlyBegins
  <2>1. pc = "early" /\ UNCHANGED <<req, requested, main, queue, list, down>>
    BY <1>1 DEF EarlyBegins
  <2>2. CASE req /\ ~susp /\ susp' = TRUE /\ at' = 1 /\ pc' = "suspending"
    <3>1. TypeOK'
      BY <2>1, <2>2 DEF TypeOK, Places
    <3>2. Progress'
      BY <1>0, <2>1, <2>2 DEF Progress, Agree, MutexFree
    <3>3. Agree' /\ MainReleased' /\ NothingOwed'
      BY <2>1, <2>2 DEF Agree, MainReleased, NothingOwed, MutexFree
    <3> QED BY <2>1, <3>1, <3>2, <3>3, SameHandlers
  <2>3. CASE (~req \/ susp) /\ pc' = "tail" /\ UNCHANGED <<susp, at>>
    <3>1. TypeOK'
      BY <2>1, <2>3 DEF TypeOK, Places
    <3>2. Progress' /\ Agree' /\ MainReleased' /\ NothingOwed'
      BY <2>1, <2>3 DEF Progress, Agree, MainReleased, NothingOwed, MutexFree
    <3> QED BY <2>1, <3>1, <3>2, SameHandlers
  <2> QED BY <1>1, <2>2, <2>3 DEF EarlyBegins
<1>2. CASE CallSuspend
  <2>1. /\ pc = "suspending" /\ pc' = pc /\ at <= Len(list) /\ at' = at + 1
        /\ down' = down \cup {list[at]}
        /\ UNCHANGED <<req, susp, requested, main, queue, list>>
    BY <1>2 DEF CallSuspend
  <2>2. /\ susp /\ at \in 1 .. Len(list)
        /\ \A i \in 1 .. Len(list) : list[i] \in down <=> i < at
    BY <1>0, <2>1 DEF Progress
  <2>3. TypeOK'
    BY <1>0, <2>1, <2>2 DEF TypeOK
  <2>4. Progress'
    <3>1. \A i \in 1 .. Len(list) : list[i] \in down' <=> i < at + 1
      BY <1>0, <2>1, <2>2 DEF Once
    <3> QED BY <1>0, <2>1, <2>2, <3>1 DEF Progress
  <2>5. Listed'
    BY <2>1, <2>2 DEF Listed, Contains
  <2>6. Agree' /\ MainReleased' /\ NothingOwed' /\ Once' /\ Sorted'
    BY <2>1 DEF Agree, MainReleased, NothingOwed, MutexFree, Once, Sorted
  <2> QED BY <2>3, <2>4, <2>5, <2>6
<1>3. CASE HandlersSuspended
  <2>1. /\ pc = "suspending" /\ at > Len(list) /\ pc' = "tail"
        /\ UNCHANGED <<req, susp, requested, main, queue, list, at, down>>
    BY <1>3 DEF HandlersSuspended
  <2>2. TypeOK'
    BY <2>1 DEF TypeOK, Places
  <2>3. susp /\ \A i \in 1 .. Len(list) : list[i] \in down
    BY <1>0, <2>1 DEF Progress
  <2>4. Progress' /\ Agree' /\ MainReleased' /\ NothingOwed'
    BY <2>1, <2>3 DEF Progress, Agree, MainReleased, NothingOwed, MutexFree
  <2> QED BY <2>1, <2>2, <2>4, SameHandlers
<1>4. CASE EarlyEnds
  <2>1. /\ pc = "tail" /\ pc' = "idle"
        /\ UNCHANGED <<req, susp, requested, list, at, down>>
    BY <1>4 DEF EarlyEnds
  <2>2. Progress' /\ Agree'
    BY <2>1 DEF Progress, Agree, MutexFree
  <2>3. CASE req /\ susp /\ main' = FALSE
             /\ queue' \in {queue, Queued("suspend")}
    <3>1. queue' \in Seq(Works)
      BY <2>3, QueuedFacts DEF TypeOK, Works
    <3>2. TypeOK'
      BY <2>1, <2>3, <3>1 DEF TypeOK, Places
    <3>3. MainReleased' /\ NothingOwed'
      BY <2>1, <2>3 DEF MainReleased, NothingOwed, MutexFree
    <3> QED BY <2>1, <2>2, <3>2, <3>3, SameHandlers
  <2>4. CASE (~req \/ ~susp) /\ UNCHANGED <<main, queue>>
    <3>1. TypeOK'
      BY <2>1, <2>4 DEF TypeOK, Places
    <3>2. MainReleased' /\ NothingOwed'
      BY <2>1, <2>4 DEF MainReleased, NothingOwed, MutexFree
    <3> QED BY <2>1, <2>2, <3>1, <3>2, SameHandlers
  <2> QED BY <1>4, <2>3, <2>4 DEF EarlyEnds
<1> QED BY <1>1, <1>2, <1>3, <1>4

\* late_resume, from its test over the handlers back to the idle thread.
LEMMA LateSteps ==
  ASSUME IInv, LateBegins \/ CallResume \/ LateEnds
  PROVE  IInv'
<1> USE DEF IInv
<1>0. Len(list) \in Nat /\ \A i \in 1 .. Len(list) : list[i] \in Handlers
  BY LenProperties DEF TypeOK
<1>1. CASE LateBegins
  <2>1. pc = "late" /\ UNCHANGED <<req, requested, main, queue, list, down>>
    BY <1>1 DEF LateBegins
  <2>2. CASE susp /\ ~req /\ susp' = FALSE /\ at' = Len(list)
             /\ pc' = "resuming"
    <3>1. TypeOK'
      BY <1>0, <2>1, <2>2 DEF TypeOK, Places
    <3>2. Progress'
      BY <1>0, <2>1, <2>2 DEF Progress, Agree, MutexFree
    <3>3. Agree' /\ MainReleased' /\ NothingOwed'
      BY <2>1, <2>2 DEF Agree, MainReleased, NothingOwed, MutexFree
    <3> QED BY <2>1, <3>1, <3>2, <3>3, SameHandlers
  <2>3. CASE (~susp \/ req) /\ pc' = "idle" /\ UNCHANGED <<susp, at>>
    <3>1. TypeOK'
      BY <2>1, <2>3 DEF TypeOK, Places
    <3>2. Progress' /\ Agree' /\ MainReleased' /\ NothingOwed'
      BY <2>1, <2>3 DEF Progress, Agree, MainReleased, NothingOwed, MutexFree
    <3> QED BY <2>1, <3>1, <3>2, SameHandlers
  <2> QED BY <1>1, <2>2, <2>3 DEF LateBegins
<1>2. CASE CallResume
  <2>1. /\ pc = "resuming" /\ pc' = pc /\ at >= 1 /\ at' = at - 1
        /\ down' = down \ {list[at]}
        /\ UNCHANGED <<req, susp, requested, main, queue, list>>
    BY <1>2 DEF CallResume
  <2>2. /\ ~susp /\ at \in 1 .. Len(list)
        /\ \A i \in 1 .. Len(list) : list[i] \in down <=> i <= at
    BY <1>0, <2>1 DEF Progress
  <2>3. TypeOK'
    BY <1>0, <2>1, <2>2 DEF TypeOK
  <2>4. Progress'
    <3>1. \A i \in 1 .. Len(list) : list[i] \in down' <=> i <= at - 1
      BY <1>0, <2>1, <2>2 DEF Once
    <3> QED BY <1>0, <2>1, <2>2, <3>1 DEF Progress
  <2>5. Listed'
    BY <2>1 DEF Listed
  <2>6. Agree' /\ MainReleased' /\ NothingOwed' /\ Once' /\ Sorted'
    BY <2>1 DEF Agree, MainReleased, NothingOwed, MutexFree, Once, Sorted
  <2> QED BY <2>3, <2>4, <2>5, <2>6
<1>3. CASE LateEnds
  <2>1. /\ pc = "resuming" /\ at = 0 /\ pc' = "idle"
        /\ UNCHANGED <<req, susp, requested, main, queue, list, at, down>>
    BY <1>3 DEF LateEnds
  <2>2. TypeOK'
    BY <2>1 DEF TypeOK, Places
  <2>3. ~susp /\ \A i \in 1 .. Len(list) : list[i] \notin down
    BY <1>0, <2>1 DEF Progress
  <2>4. Progress' /\ Agree' /\ MainReleased' /\ NothingOwed'
    BY <2>1, <2>3 DEF Progress, Agree, MainReleased, NothingOwed, MutexFree
  <2> QED BY <2>1, <2>2, <2>4, SameHandlers
<1> QED BY <1>1, <1>2, <1>3

\* suspend() of wakelock.c goes to sleep only with main_wake_lock released.
LEMMA SuspendSteps ==
  ASSUME IInv, \/ CheckLocks \/ PmSuspend \/ Freeze \/ SuspendLate \/ WakeUp
  PROVE  IInv'
<1> USE DEF IInv
<1>1. /\ UNCHANGED suspendSame
      /\ pc \in {"suspend", "sync", "freezing", "frozen", "asleep"}
      /\ pc' \in {"idle", "sync", "freezing", "frozen", "asleep"}
      /\ pc' = "asleep" => ~main
  BY DEF CheckLocks, PmSuspend, Freeze, SuspendLate, WakeUp
<1>2. TypeOK'
  BY <1>1 DEF suspendSame, TypeOK, Places
<1>3. Progress' /\ Agree' /\ MainReleased'
  BY <1>1 DEF suspendSame, Progress, Agree, MainReleased, MutexFree
<1>4. NothingOwed'
  BY <1>1 DEF suspendSame, NothingOwed
<1> QED BY <1>1, <1>2, <1>3, <1>4, SameHandlers DEF suspendSame

\* The inductive invariant holds in every state of every behaviour.
THEOREM Invariance == Spec => []IInv
<1>1. IInv /\ [Next]_vars => IInv'
  <2> SUFFICES ASSUME IInv, [Next]_vars PROVE IInv'
    OBVIOUS
  <2>1. CASE TakeWork
    BY <2>1, TakeWorkStep
  <2>2. CASE EarlyBegins \/ CallSuspend \/ HandlersSuspended \/ EarlyEnds
    BY <2>2, EarlySteps
  <2>3. CASE LateBegins \/ CallResume \/ LateEnds
    BY <2>3, LateSteps
  <2>4. CASE CheckLocks \/ PmSuspend \/ Freeze \/ SuspendLate \/ WakeUp
    BY <2>4, SuspendSteps
  <2>5. CASE (\E s \in {"on", "mem"} : Request(s)) \/ LastLockGoes
    BY <2>5, RequestStep
  <2>6. CASE \E h \in Handlers : Register(h) \/ Unregister(h)
    BY <2>6, RegisterStep, UnregisterStep
  <2>7. CASE UNCHANGED vars
    <3>1. UNCHANGED <<list, down>> /\ TypeOK'
      BY <2>7 DEF vars, IInv, TypeOK
    <3> QED BY <2>7, <3>1, SameHandlers
               DEF vars, IInv, Progress, Agree, MainReleased, NothingOwed,
                   MutexFree
  <2> QED BY <2>1, <2>2, <2>3, <2>4, <2>5, <2>6, <2>7 DEF Next, Worker
<1> QED BY <1>1, InitInv, PTL DEF Spec

\* The system sleeps only when user space's last request was to sleep and
\* every registered driver has been told.
THEOREM SleepIsWanted == Spec => []SleepsOnRequest
<1>1. IInv => SleepsOnRequest
  BY DEF IInv, SleepsOnRequest, MainReleased, Agree, MutexFree, ToSet, TypeOK
<1> QED BY <1>1, Invariance, PTL

\* Suspend and resume of every handler are called in turn.
THEOREM HandlersAlternate == Spec => []CallsAlternate
<1>1. IInv => CallsAlternate
  <2> SUFFICES ASSUME IInv PROVE CallsAlternate
    OBVIOUS
  <2>1. DOMAIN list = 1 .. Len(list) /\ at \in Nat
    BY DEF IInv, TypeOK
  <2> QED BY <2>1 DEF IInv, Progress, CallsAlternate
<1> QED BY <1>1, Invariance, PTL

\* The handlers are called in the order of their levels, and back.
THEOREM HandlersInOrder == Spec => []LevelOrder
<1>1. IInv => LevelOrder
  <2> SUFFICES ASSUME IInv, at \in DOMAIN list, NEW h \in ToSet(list)
               PROVE  /\ pc = "suspending" /\ Level[h] < Level[list[at]]
                           => h \in down
                      /\ pc = "resuming" /\ Level[h] > Level[list[at]]
                           => h \notin down
    BY DEF LevelOrder
  <2>1. /\ DOMAIN list = 1 .. Len(list) /\ Len(list) \in Nat
        /\ \A i \in 1 .. Len(list) : Level[list[i]] \in Nat
    BY EarlySuspendAssumption, LenProperties DEF IInv, TypeOK
  <2>2. PICK i \in 1 .. Len(list) : list[i] = h
    BY <2>1 DEF ToSet
  <2>3. ASSUME Level[h] < Level[list[at]] PROVE i < at
    <3>1. CASE i = at
      BY <3>1, <2>1, <2>2, <2>3
    <3>2. CASE at < i
      BY <3>2, <2>1, <2>2, <2>3 DEF IInv, Sorted
    <3> QED BY <3>1, <3>2, <2>1
  <2>4. ASSUME Level[h] > Level[list[at]] PROVE i > at
    <3>1. CASE i = at
      BY <3>1, <2>1, <2>2, <2>4
    <3>2. CASE i < at
      BY <3>2, <2>1, <2>2, <2>4 DEF IInv, Sorted
    <3> QED BY <3>1, <3>2, <2>1
  <2> QED BY <2>1, <2>2, <2>3, <2>4 DEF IInv, Progress
<1> QED BY <1>1, Invariance, PTL

\* Between the handler loops every registered handler is where the SUSPENDED
\* bit says it is.
THEOREM HandlersFollow == Spec => []HandlersAgree
<1>1. IInv => HandlersAgree
  BY DEF IInv, HandlersAgree, Agree, ToSet, TypeOK
<1> QED BY <1>1, Invariance, PTL

\* Every request that has not been carried out has a work that will.
THEOREM RequestsAreKept == Spec => []NothingOwed
BY Invariance, PTL DEF IInv

\* Every variable of early suspend keeps its type, for any set of handlers.
THEOREM TypeCorrect == Spec => []TypeOK
BY Invariance, PTL DEF IInv
=============================================================================
