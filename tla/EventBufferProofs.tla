------------------------- MODULE EventBufferProofs -------------------------
(* The safety properties of EventBuffer, for any number of tasks and events, *)
(* every capacity, and every distance between two writes of the file.        *)
EXTENDS EventBuffer, SequenceTheorems, TLAPS

\* The idle event that closes a stream, for the second time.
Again(b, i, j) == b.completed /\ b.events[i].kind = "idle" /\ b.events[j] = b.events[i]

\* The events of b, if it is a buffer, are in order, and among the first n of the task.
Ordered(b, n) == b # None =>
  /\ \A i \in 1..Len(b.events) : b.events[i].n <= n
  /\ \A i, j \in 1..Len(b.events) : i < j => b.events[i].n < b.events[j].n \/ Again(b, i, j)

\* The file d lacks the last events of m, less than PersistEvery.
Lags(m, d) ==
  /\ Len(m.events) - Len(d.events) \in 0..PersistEvery - 1
  /\ \A i \in 1..Len(d.events) : d.events[i] = m.events[i]

Open(b) == b # None /\ ~b.completed

\* A buffer m and a file d of one task.
Good(m, d) ==
  /\ m # None /\ ~m.known => m.completed
  /\ d # None /\ ~d.known => d.completed
  /\ Open(d) => Len(d.events) % PersistEvery = 0
  /\ Open(m) => Open(d) /\ Lags(m, d)

TimersOf(p, t) == {k \in {"memory", "file"} : <<k, p, t>> \in timers}

\* A task of the WebSocket process: the API process has nothing of it, its timers run
\* only when it was completed, in memory and on disk, and a new one has left no trace.
Homed(t) ==
  /\ mem["api"][t] = None /\ TimersOf("api", t) = {}
  /\ Good(mem["ws"][t], disk[t])
  /\ TimersOf("ws", t) # {} => ~Open(mem["ws"][t]) /\ ~Open(disk[t])
  /\ work[t] = "new" => mem["ws"][t] = None /\ disk[t] = None /\ TimersOf("ws", t) = {}

\* Every copy of a task, in either process or on disk, is in order.
Sorted(t) ==
  /\ \A p \in Procs : Ordered(mem[p][t], emitted[t])
  /\ Ordered(disk[t], emitted[t])

EInv ==
  /\ TypeOK
  /\ \A t \in Tasks : HomeOf[t] = "ws" => Homed(t)
  /\ \A t \in Tasks : Sorted(t)

----------------------------------------------------------------------------
(* Buffers                                                                   *)

LEMMA NextMultiple ==
  ASSUME NEW n \in Nat, NEW k \in Nat \ {0}, n % k = 0
  PROVE  (n + k) % k = 0
<1>1. n = k * (n \div k)
  OBVIOUS
<1>2. n + k = k * ((n \div k) + 1)
  BY <1>1
<1>3. (n \div k) + 1 \in Nat
  OBVIOUS
<1>4. \A q \in Nat : (k * q) % k = 0
  OBVIOUS
<1> QED BY <1>2, <1>3, <1>4

\* A buffer with other events.
LEMMA WithEvents ==
  ASSUME NEW b \in Buffers, NEW s \in Seq(Events)
  PROVE  /\ [b EXCEPT !.events = s] \in Buffers
         /\ [b EXCEPT !.events = s].events = s
         /\ [b EXCEPT !.events = s].completed = b.completed
         /\ [b EXCEPT !.events = s].known = b.known
BY DEF Buffers

\* The events of a buffer are a sequence, and their numbers can be compared.
LEMMA EventsOf ==
  ASSUME NEW b \in Buffers
  PROVE  /\ b.events \in Seq(Events) /\ Len(b.events) \in Nat
         /\ DOMAIN b.events = 1..Len(b.events)
         /\ \A i \in 1..Len(b.events) : b.events[i] \in Events /\ b.events[i].n \in Nat
<1>1. b.events \in Seq(Events)
  BY DEF Buffers
<1>2. \A e \in Events : e.n \in Nat
  BY DEF Events
<1> QED BY <1>1, <1>2, LenProperties

\* An overflow cuts the front, down to Keep events.
LEMMA Overflows ==
  ASSUME NEW s \in Seq(Events)
  PROVE  /\ Overflow(s) \in Seq(Events)
         /\ \E cut \in 0..Len(s) :
              /\ Len(Overflow(s)) = Len(s) - cut
              /\ cut # 0 => Len(Overflow(s)) = Keep
              /\ \A i \in 1..Len(s) - cut : Overflow(s)[i] = s[i + cut]
<1> USE BufferAssumption
<1>1. Len(s) \in Nat /\ \A i \in 1..Len(s) : s[i] \in Events
  BY LenProperties
<1>2. CASE Len(s) <= Cap
  <2>1. Overflow(s) = s
    BY <1>1, <1>2 DEF Overflow
  <2> QED BY <1>1, <2>1
<1>3. CASE Len(s) > Cap
  <2> DEFINE cut == Len(s) - Keep
  <2>1. Overflow(s) = SubSeq(s, cut + 1, Len(s))
    BY <1>1, <1>3 DEF Overflow
  <2>2. cut \in 0..Len(s) /\ cut + 1 \in Int /\ Len(s) \in Int /\ Len(s) - cut = Keep
    BY <1>1, <1>3
  <2>3. \A i \in cut + 1 .. Len(s) : s[i] \in Events
    BY <1>1, <2>2
  <2> HIDE DEF cut
  <2>4. /\ SubSeq(s, cut + 1, Len(s)) \in Seq(Events)
        /\ Len(SubSeq(s, cut + 1, Len(s))) =
             IF cut + 1 <= Len(s) THEN Len(s) - (cut + 1) + 1 ELSE 0
        /\ \A i \in 1 .. Len(s) - (cut + 1) + 1 :
             SubSeq(s, cut + 1, Len(s))[i] = s[(cut + 1) + i - 1]
    BY <2>2, <2>3, SubSeqProperties
  <2>5. Len(Overflow(s)) = Len(s) - cut
    BY <1>1, <2>1, <2>2, <2>4
  <2>6. \A i \in 1..Len(s) - cut : Overflow(s)[i] = s[i + cut]
    BY <1>1, <2>1, <2>2, <2>4
  <2> QED BY <2>1, <2>2, <2>4, <2>5, <2>6
<1> QED BY <1>1, <1>2, <1>3

\* addEvent appends, and an overflow cuts the front.
LEMMA AddEvents ==
  ASSUME NEW b \in Buffers, NEW e \in Events
  PROVE  /\ Add(b, e) \in Buffers
         /\ Add(b, e).completed = b.completed /\ Add(b, e).known = b.known
         /\ \E cut \in 0..Len(b.events) + 1 :
              /\ Len(Add(b, e).events) = Len(b.events) + 1 - cut
              /\ cut # 0 => Len(Add(b, e).events) = Keep
              /\ \A i \in 1..Len(b.events) + 1 - cut :
                   Add(b, e).events[i] = Append(b.events, e)[i + cut]
<1>1. /\ Append(b.events, e) \in Seq(Events)
      /\ Len(Append(b.events, e)) = Len(b.events) + 1
  BY EventsOf, AppendProperties
<1>2. Add(b, e) = [b EXCEPT !.events = Overflow(Append(b.events, e))]
  BY DEF Add
<1>3. Overflow(Append(b.events, e)) \in Seq(Events)
  BY <1>1, Overflows
<1>4. /\ Add(b, e) \in Buffers
      /\ Add(b, e).events = Overflow(Append(b.events, e))
      /\ Add(b, e).completed = b.completed /\ Add(b, e).known = b.known
  BY <1>2, <1>3, WithEvents
<1> DEFINE s == Append(b.events, e)
<1>5. Len(b.events) \in Nat /\ Len(s) = Len(b.events) + 1 /\ s \in Seq(Events)
  BY <1>1, EventsOf
<1> HIDE DEF s
<1>6. PICK cut \in 0..Len(s) :
        /\ Len(Overflow(s)) = Len(s) - cut
        /\ cut # 0 => Len(Overflow(s)) = Keep
        /\ \A i \in 1..Len(s) - cut : Overflow(s)[i] = s[i + cut]
  BY <1>5, Overflows
<1>7. \E c \in 0..Len(b.events) + 1 :
        /\ Len(Overflow(s)) = Len(b.events) + 1 - c
        /\ c # 0 => Len(Overflow(s)) = Keep
        /\ \A i \in 1..Len(b.events) + 1 - c : Overflow(s)[i] = s[i + c]
  BY <1>5, <1>6
<1> QED BY <1>4, <1>7 DEF s

\* Where there is one buffer less, or the same events, the order stays; more events of the
\* task do not disturb it.
LEMMA OrderedOn ==
  ASSUME NEW b \in Buffers \cup {None}, NEW n \in Nat, Ordered(b, n)
  PROVE  Ordered(b, n + 1)
<1> SUFFICES ASSUME b # None PROVE Ordered(b, n + 1)
  BY DEF Ordered
<1>1. \A i \in 1..Len(b.events) : b.events[i].n \in Nat /\ b.events[i].n <= n
  BY EventsOf DEF Ordered
<1>2. \A i \in 1..Len(b.events) : b.events[i].n <= n + 1
  BY <1>1
<1> QED BY <1>2 DEF Ordered

\* The next event is appended; it may be there already if it is the idle event.
LEMMA AppendOrdered ==
  ASSUME NEW b \in Buffers, NEW e \in Events, NEW n \in Nat, e.n = n + 1, Ordered(b, n + 1),
         NEW c \in Buffers, c.events = Append(b.events, e), b.completed => c.completed,
         \A i \in 1..Len(b.events) :
           b.events[i].n <= n \/ (b.events[i] = e /\ e.kind = "idle" /\ c.completed)
  PROVE  Ordered(c, n + 1)
<1> DEFINE s == b.events  l == Len(b.events)
<1>1. /\ b # None /\ l \in Nat /\ \A i \in 1..l : s[i].n \in Nat
      /\ \A i \in 1..l : s[i].n <= n + 1
      /\ \A i, j \in 1..l : i < j => s[i].n < s[j].n \/ Again(b, i, j)
  BY EventsOf, NoneIsNoBuffer DEF Ordered
<1>2. /\ Len(c.events) = l + 1 /\ c.events[l + 1] = e
      /\ \A i \in 1..l : c.events[i] = s[i]
  BY EventsOf, AppendProperties
<1>3. \A i \in 1..l + 1 : c.events[i].n <= n + 1
  BY <1>1, <1>2
<1>4. ASSUME NEW i \in 1..l + 1, NEW j \in 1..l + 1, i < j
      PROVE  c.events[i].n < c.events[j].n \/ Again(c, i, j)
  <2>1. i \in 1..l /\ (j \in 1..l \/ j = l + 1)
    BY <1>1, <1>4
  <2>2. CASE j \in 1..l
    BY <1>1, <1>2, <1>4, <2>1, <2>2 DEF Again
  <2>3. CASE j = l + 1
    <3>1. CASE s[i].n <= n
      BY <1>1, <1>2, <2>1, <2>3, <3>1
    <3>2. CASE s[i] = e /\ e.kind = "idle" /\ c.completed
      BY <1>2, <2>1, <2>3, <3>2 DEF Again
    <3> QED BY <2>1, <3>1, <3>2
  <2> QED BY <2>1, <2>2, <2>3
<1> QED BY <1>2, <1>3, <1>4 DEF Ordered

\* What is left of a buffer whose front is cut is in order.
LEMMA CutOrdered ==
  ASSUME NEW b \in Buffers, NEW c \in Buffers, NEW n \in Nat, Ordered(b, n),
         b.completed = c.completed, NEW cut \in 0..Len(b.events),
         Len(c.events) = Len(b.events) - cut,
         \A i \in 1..Len(b.events) - cut : c.events[i] = b.events[i + cut]
  PROVE  Ordered(c, n)
<1>1. b # None /\ Len(b.events) \in Nat
  BY EventsOf, NoneIsNoBuffer
<1>2. /\ \A i \in 1..Len(b.events) : b.events[i].n <= n
      /\ \A i, j \in 1..Len(b.events) :
           i < j => b.events[i].n < b.events[j].n \/ Again(b, i, j)
  BY <1>1 DEF Ordered
<1>3. \A i \in 1..Len(c.events) : i + cut \in 1..Len(b.events) /\ c.events[i] = b.events[i + cut]
  BY <1>1
<1>4. \A i \in 1..Len(c.events) : c.events[i].n <= n
  BY <1>2, <1>3
<1>5. ASSUME NEW i \in 1..Len(c.events), NEW j \in 1..Len(c.events), i < j
      PROVE  c.events[i].n < c.events[j].n \/ Again(c, i, j)
  <2>1. i + cut < j + cut
    BY <1>1, <1>5
  <2> QED BY <1>2, <1>3, <2>1 DEF Again
<1> QED BY <1>4, <1>5 DEF Ordered

\* So addEvent keeps the order.
LEMMA AddOrdered ==
  ASSUME NEW b \in Buffers, NEW e \in Events, NEW n \in Nat, Ordered(b, n), e.n = n + 1
  PROVE  Ordered(Add(b, e), n + 1)
<1> DEFINE c == [b EXCEPT !.events = Append(b.events, e)]
<1>1. Append(b.events, e) \in Seq(Events) /\ Len(Append(b.events, e)) = Len(b.events) + 1
  BY EventsOf, AppendProperties
<1>2. c \in Buffers /\ c.events = Append(b.events, e) /\ c.completed = b.completed
  BY <1>1, WithEvents
<1>3. \A i \in 1..Len(b.events) : b.events[i].n <= n
  BY NoneIsNoBuffer DEF Ordered
<1> HIDE DEF c
<1>4. Ordered(c, n + 1)
  BY <1>2, <1>3, OrderedOn, AppendOrdered
<1>5. PICK cut \in 0..Len(b.events) + 1 :
        /\ Len(Add(b, e).events) = Len(b.events) + 1 - cut
        /\ \A i \in 1..Len(b.events) + 1 - cut :
             Add(b, e).events[i] = Append(b.events, e)[i + cut]
  BY AddEvents
<1>6. Add(b, e) \in Buffers /\ Add(b, e).completed = c.completed
  BY <1>2, AddEvents
<1>7. /\ Len(c.events) = Len(b.events) + 1
      /\ Len(Add(b, e).events) = Len(c.events) - cut
      /\ \A i \in 1..Len(c.events) - cut : Add(b, e).events[i] = c.events[i + cut]
  <2>1. Len(c.events) = Len(b.events) + 1
    BY <1>1, <1>2
  <2>2. Len(b.events) \in Nat /\ Len(c.events) - cut = Len(b.events) + 1 - cut
    BY <2>1, EventsOf
  <2>3. ASSUME NEW i \in 1..Len(c.events) - cut PROVE Add(b, e).events[i] = c.events[i + cut]
    <3>1. i \in 1..Len(b.events) + 1 - cut
      BY <2>2
    <3> QED BY <1>2, <1>5, <3>1
  <2> QED BY <1>5, <2>1, <2>2, <2>3
<1>8. cut \in 0..Len(c.events) /\ n + 1 \in Nat
  BY <1>7
<1> QED BY <1>2, <1>4, <1>6, <1>7, <1>8, CutOrdered

\* An event is added to an open buffer: the file is written at every multiple of
\* PersistEvery, and lags by less than that in between.
LEMMA AddGood ==
  ASSUME NEW m \in Buffers, NEW d \in Buffers \cup {None}, NEW e \in Events, Good(m, d)
  PROVE  Good(Add(m, e), IF Persists(Add(m, e)) THEN Add(m, e) ELSE d)
<1> DEFINE b == Add(m, e)  f == IF Persists(b) THEN b ELSE d
<1> USE BufferAssumption, NoneIsNoBuffer
<1>1. b \in Buffers /\ b.completed = m.completed /\ b.known = m.known
  BY AddEvents
<1>2. b # None /\ m # None
  BY <1>1
<1>3. CASE m.completed
  <2>1. ~Open(b) /\ (Persists(b) => ~Open(f))
    BY <1>1, <1>3 DEF Open
  <2> QED BY <1>1, <1>2, <1>3, <2>1 DEF Good, Open
<1>4. CASE ~m.completed
  <2>1. Open(m) /\ Open(d) /\ d \in Buffers /\ m.known
    BY <1>2, <1>4 DEF Good, Open
  <2>2. Lags(m, d) /\ Len(d.events) % PersistEvery = 0
    BY <2>1 DEF Good
  <2>4. /\ m.events \in Seq(Events) /\ d.events \in Seq(Events) /\ b.events \in Seq(Events)
        /\ Len(m.events) \in Nat /\ Len(d.events) \in Nat /\ Len(b.events) \in Nat
    BY <1>1, <2>1, EventsOf
  <2>5. CASE Persists(b)
    <3>1. Len(b.events) % PersistEvery = 0
      BY <2>5 DEF Persists
    <3>2. Lags(b, b)
      BY <2>4 DEF Lags
    <3> QED BY <1>1, <1>2, <1>4, <2>1, <2>5, <3>1, <3>2 DEF Good, Open
  <2>6. CASE ~Persists(b)
    <3>1. Len(b.events) % PersistEvery # 0
      BY <2>6 DEF Persists
    <3>2. PICK cut \in 0..Len(m.events) + 1 :
            /\ Len(b.events) = Len(m.events) + 1 - cut
            /\ cut # 0 => Len(b.events) = Keep
            /\ \A i \in 1..Len(m.events) + 1 - cut : b.events[i] = Append(m.events, e)[i + cut]
      BY AddEvents
    <3>3. cut = 0
      BY <3>1, <3>2
    <3>4. Len(b.events) = Len(m.events) + 1 /\ \A i \in 1..Len(m.events) : b.events[i] = m.events[i]
      BY <2>4, <3>2, <3>3
    <3>5. Len(b.events) # Len(d.events) + PersistEvery
      BY <2>2, <2>4, <3>1, NextMultiple
    <3>6. Lags(b, d)
      <4>1. Len(m.events) - Len(d.events) \in 0..PersistEvery - 1
        BY <2>2 DEF Lags
      <4>2. Len(b.events) - Len(d.events) \in 0..PersistEvery - 1
        BY <2>4, <3>4, <3>5, <4>1
      <4>3. \A i \in 1..Len(d.events) : i \in 1..Len(m.events) /\ d.events[i] = m.events[i]
        BY <2>2, <2>4, <4>1 DEF Lags
      <4> QED BY <3>4, <4>2, <4>3 DEF Lags
    <3> QED BY <1>1, <1>2, <2>1, <2>2, <2>6, <3>6 DEF Good, Open
  <2> QED BY <2>5, <2>6
<1> QED BY <1>3, <1>4

LEMMA DoneBuffer ==
  ASSUME NEW b \in Buffers
  PROVE  Done(b) \in Buffers /\ Done(b).completed /\ Done(b).known = b.known
BY DEF Done, Buffers

LEMMA EventType ==
  ASSUME TypeOK, NEW t \in Tasks, NEW kind \in {"chunk", "end", "idle"}
  PROVE  Event(t, kind) \in Events /\ Event(t, kind).n = emitted[t] + 1
BY DEF Event, Events, TypeOK

LEMMA MarkedBuffers ==
  ASSUME TypeOK, NEW t \in Tasks, NEW b \in Buffers \cup {None}
  PROVE  /\ MarkedMem(t, b) \in Buffers \cup {None}
         /\ MarkedMem(t, b) = None <=> b = None
         /\ b # None => MarkedMem(t, b).completed /\ MarkedMem(t, b).known = b.known
<1>1. CASE b = None
  BY <1>1 DEF MarkedMem
<1>2. CASE b \in Buffers /\ b # None
  <2>1. [b EXCEPT !.events = Append(@, Event(t, "idle"))] \in Buffers
    BY <1>2, EventType DEF Buffers
  <2>2. [b EXCEPT !.events = Append(@, Event(t, "idle"))].known = b.known
    BY <1>2 DEF Buffers
  <2>3. MarkedMem(t, b) = Done([b EXCEPT !.events = Append(@, Event(t, "idle"))])
    BY <1>2 DEF MarkedMem
  <2> QED BY <1>2, <2>1, <2>2, <2>3, DoneBuffer, NoneIsNoBuffer
<1> QED BY <1>1, <1>2

LEMMA MarkedFiles ==
  ASSUME TypeOK, NEW t \in Tasks, NEW b \in Buffers \cup {None}
  PROVE  /\ MarkedDisk(t, b) \in Buffers \cup {None}
         /\ ~Open(MarkedDisk(t, b))
         /\ MarkedDisk(t, b) = None => b = None /\ disk[t] = None
<1> DEFINE c == IF b = None THEN disk[t] ELSE MarkedMem(t, b)
<1>1. c \in Buffers \cup {None} /\ (c = None => b = None /\ disk[t] = None)
  BY MarkedBuffers DEF TypeOK
<1>2. MarkedDisk(t, b) = MarkedMem(t, c)
  BY DEF MarkedDisk
<1> HIDE DEF c
<1> QED BY <1>1, <1>2, MarkedBuffers DEF Open

----------------------------------------------------------------------------
(* The invariant                                                             *)

LEMMA InitInv == Init => EInv
<1> SUFFICES ASSUME Init PROVE EInv
  OBVIOUS
<1>1. TypeOK /\ \A t \in Tasks : Homed(t)
  BY BufferAssumption DEF Init, TypeOK, Homed, Good, Open, TimersOf, Procs
<1>2. \A t \in Tasks : Sorted(t)
  BY DEF Init, Sorted, Ordered
<1> QED BY <1>1, <1>2 DEF EInv

LEMMA FreshBuffer == Fresh \in Buffers /\ ~Fresh.completed /\ Fresh.known /\ Fresh.events = <<>>
BY DEF Fresh, Buffers

LEMMA TypeStep == TypeOK /\ [Next]_vars => TypeOK'
<1> SUFFICES ASSUME TypeOK, [Next]_vars PROVE TypeOK'
  OBVIOUS
<1> USE BufferAssumption, NoneIsNoBuffer
<1>0. \A t \in Tasks : /\ mem["ws"][t] \in Buffers \cup {None}
                        /\ disk[t] \in Buffers \cup {None}
                        /\ HomeOf[t] \in Procs
  BY DEF TypeOK, Procs
<1>1. ASSUME NEW t \in Tasks, Start(t) PROVE TypeOK'
  BY <1>1, FreshBuffer DEF TypeOK, Start, SetMem, Write
<1>2. ASSUME NEW t \in Tasks, Reject(t) \/ End(t) PROVE TypeOK'
  BY <1>2 DEF TypeOK, Reject, End, Work
<1>3. ASSUME NEW t \in Tasks, RetryRefused(t) PROVE TypeOK'
  <2>1. /\ MarkedMem(t, mem["ws"][t]) \in Buffers \cup {None}
        /\ MarkedDisk(t, mem["ws"][t]) \in Buffers \cup {None}
    BY <1>0, MarkedBuffers, MarkedFiles
  <2> QED BY <1>3, <2>1 DEF TypeOK, RetryRefused, Work, SetMem, Write
<1>4. ASSUME NEW t \in Tasks, LateResult(t) PROVE TypeOK'
  <2> DEFINE old == mem["ws"][t]
             o == IF old = None THEN [Fresh EXCEPT !.known = FALSE] ELSE old
             b == Done(Add(o, Event(t, "end")))
  <2>1. o \in Buffers
    <3>1. [Fresh EXCEPT !.known = FALSE] \in Buffers
      BY FreshBuffer DEF Buffers
    <3> QED BY <1>0, <3>1
  <2>2. b \in Buffers
    BY <2>1, EventType, AddEvents, DoneBuffer
  <2>3. SetMem("ws", t, b) /\ Write(t, b)
    BY <1>4 DEF LateResult
  <2> HIDE DEF b
  <2>4. mem'["ws"] \in [Tasks -> Buffers \cup {None}] /\ mem'["api"] = mem["api"] /\ DOMAIN mem' = Procs
    BY <2>2, <2>3 DEF TypeOK, SetMem, Procs
  <2>5. disk' \in [Tasks -> Buffers \cup {None}]
    BY <2>2, <2>3 DEF TypeOK, Write
  <2>6. /\ work' = [work EXCEPT ![t] = "over"]
        /\ timers' = timers \cup {<<"memory", "ws", t>>, <<"file", "ws", t>>} \/ timers' = timers
        /\ emitted[t] < MaxEvents[t] /\ emitted' = [emitted EXCEPT ![t] = @ + 1]
        /\ UNCHANGED <<index, crashes>>
    BY <1>4 DEF LateResult, Work
  <2>7. timers' \subseteq {"memory", "file"} \X Procs \X Tasks
    BY <2>6 DEF TypeOK, Procs
  <2>8. emitted' \in [Tasks -> Nat] /\ \A u \in Tasks : emitted'[u] <= MaxEvents[u]
    BY <2>6 DEF TypeOK
  <2> QED BY <2>4, <2>5, <2>6, <2>7, <2>8 DEF TypeOK, Procs
<1>5. ASSUME NEW t \in Tasks, RecoverActive(t) PROVE TypeOK'
  <2> DEFINE b == Loaded("ws", t)
  <2>1. b \in Buffers \cup {None}
    BY <1>0 DEF Loaded
  <2>2. MarkedMem(t, b) \in Buffers \cup {None} /\ MarkedDisk(t, b) \in Buffers \cup {None}
    BY <2>1, MarkedBuffers, MarkedFiles
  <2>3. \/ SetMem("ws", t, b) /\ UNCHANGED <<disk, emitted>>
        \/ /\ emitted[t] < MaxEvents[t]
           /\ SetMem("ws", t, MarkedMem(t, b)) /\ Write(t, MarkedDisk(t, b))
           /\ emitted' = [emitted EXCEPT ![t] = @ + 1]
    BY <1>5 DEF RecoverActive
  <2> HIDE DEF b
  <2> QED BY <1>5, <2>1, <2>2, <2>3 DEF TypeOK, RecoverActive, SetMem, Write, Procs
<1>6. ASSUME NEW t \in Tasks, RecoverOther(t) PROVE TypeOK'
  BY <1>6 DEF TypeOK, RecoverOther, SetMem, Procs
<1>7. ASSUME NEW t \in Tasks, NEW kind \in {"chunk", "end"}, Emit(t, kind) PROVE TypeOK'
  <2> DEFINE b == Add(mem["ws"][t], Event(t, kind))
  <2>1. mem["ws"][t] # None => b \in Buffers
    BY <1>0, EventType, AddEvents
  <2>2. \/ UNCHANGED <<mem, disk>>
        \/ b \in Buffers /\ SetMem("ws", t, b) /\ (Write(t, b) \/ UNCHANGED disk)
    BY <1>7, <2>1 DEF Emit
  <2> HIDE DEF b
  <2> QED BY <1>7, <2>2 DEF TypeOK, Emit, SetMem, Write, Procs
<1>8. ASSUME NEW t \in Tasks, NEW p \in Procs, Complete(p, t) PROVE TypeOK'
  <2>1. mem[p][t] \in Buffers
    BY <1>8 DEF TypeOK, Complete
  <2>2. Done(mem[p][t]) \in Buffers
    BY <2>1, DoneBuffer
  <2> QED BY <1>8, <2>2 DEF TypeOK, Complete, SetMem, Write
<1>9. ASSUME NEW t \in Tasks, NEW p \in Procs, Forget(p, t) \/ Unlink(p, t) PROVE TypeOK'
  <2>1. CASE Forget(p, t)
    BY <2>1 DEF TypeOK, Forget, SetMem
  <2>2. CASE Unlink(p, t)
    BY <2>2 DEF TypeOK, Unlink, Write
  <2> QED BY <1>9, <2>1, <2>2
<1>10. CASE Poll
  <2>1. PICK t \in Tasks : SetMem("api", t, Loaded("api", t)) /\ index' = [index EXCEPT !["api"] = t]
    BY <1>10 DEF Poll, Active, Indexed, Unfinished
  <2>2. Loaded("api", t) \in Buffers \cup {None}
    BY DEF Loaded, TypeOK, Procs
  <2> QED BY <1>10, <2>1, <2>2 DEF TypeOK, Poll, SetMem, Procs
<1>11. ASSUME NEW p \in Procs, Crash(p) PROVE TypeOK'
  BY <1>11 DEF TypeOK, Crash
<1>12. CASE UNCHANGED vars
  BY <1>12 DEF TypeOK, vars
<1> QED BY <1>1, <1>2, <1>3, <1>4, <1>5, <1>6, <1>7, <1>8, <1>9, <1>10, <1>11, <1>12 DEF Next

\* An action that leaves what there is of t keeps its part of the invariant.
LEMMA HomedFrame ==
  ASSUME NEW t \in Tasks, Homed(t),
         mem'["api"][t] = mem["api"][t], mem'["ws"][t] = mem["ws"][t], disk'[t] = disk[t],
         work'[t] = "new" => work[t] = "new",
         \A p \in Procs, k \in {"memory", "file"} : <<k, p, t>> \in timers' => <<k, p, t>> \in timers
  PROVE  Homed(t)'
<1>1. \A p \in Procs : TimersOf(p, t)' \subseteq TimersOf(p, t)
  BY DEF TimersOf
<1>2. TimersOf("api", t)' = {} /\ (TimersOf("ws", t) = {} => TimersOf("ws", t)' = {})
  BY <1>1 DEF Homed, Procs
<1> QED BY <1>2 DEF Homed

\* An action that writes a buffer and a file of t that is at work.
LEMMA HomedWritten ==
  ASSUME NEW t \in Tasks, Homed(t), work'[t] # "new",
         mem'["api"][t] = mem["api"][t],
         Good(mem'["ws"][t], disk'[t]),
         \A k \in {"memory", "file"} : <<k, "api", t>> \in timers' => <<k, "api", t>> \in timers,
         \/ TimersOf("ws", t)' = {}
         \/ ~Open(mem'["ws"][t]) /\ ~Open(disk'[t])
  PROVE  Homed(t)'
<1>1. TimersOf("api", t)' = {}
  BY DEF TimersOf, Homed
<1> QED BY <1>1 DEF Homed

\* Where neither the buffer nor the file is open, there is nothing to keep.
LEMMA ClosedGood ==
  ASSUME NEW m, NEW d, ~Open(m), ~Open(d)
  PROVE  Good(m, d)
BY DEF Good, Open

LEMMA HomedStep ==
  ASSUME EInv, [Next]_vars, NEW t \in Tasks, HomeOf[t] = "ws"
  PROVE  Homed(t)'
<1> USE BufferAssumption, NoneIsNoBuffer
<1>0. /\ TypeOK /\ Homed(t)
      /\ mem["ws"][t] \in Buffers \cup {None} /\ disk[t] \in Buffers \cup {None}
      /\ emitted[t] \in Nat
  BY DEF EInv, TypeOK, Procs
<1>1. ASSUME NEW u \in Tasks, Start(u) PROVE Homed(t)'
  <2>1. CASE u = t
    <3>1. /\ mem'["ws"][t] = Fresh /\ disk'[t] = Fresh /\ mem'["api"][t] = mem["api"][t]
          /\ work'[t] = "running" /\ timers' = timers /\ emitted' = emitted
      BY <1>0, <1>1, <2>1 DEF Start, SetMem, Write, TypeOK, Procs
    <3>2. Good(Fresh, Fresh)
      <4>1. Len(Fresh.events) = 0 /\ 0 % PersistEvery = 0
        BY FreshBuffer
      <4> QED BY <4>1, FreshBuffer DEF Good, Open, Lags
    <3>3. TimersOf("ws", t)' = {}
      BY <1>0, <1>1, <2>1, <3>1 DEF Start, Homed, TimersOf
    <3> QED BY <1>0, <3>1, <3>2, <3>3, HomedWritten
  <2>2. CASE u # t
    BY <1>0, <1>1, <2>2, HomedFrame DEF Start, SetMem, Write, TypeOK, Procs
  <2> QED BY <2>1, <2>2
<1>2. ASSUME NEW u \in Tasks, Reject(u) \/ End(u) PROVE Homed(t)'
  BY <1>0, <1>2, HomedFrame DEF Reject, End, Work, TypeOK
<1>3. ASSUME NEW u \in Tasks, RetryRefused(u) PROVE Homed(t)'
  <2>1. CASE u = t
    <3> DEFINE m == MarkedMem(t, mem["ws"][t])  d == MarkedDisk(t, mem["ws"][t])
    <3>1. ~Open(m) /\ ~Open(d)
      BY <1>0, MarkedBuffers, MarkedFiles DEF Open
    <3>2. /\ mem'["ws"][t] = m /\ disk'[t] = d /\ mem'["api"][t] = mem["api"][t]
          /\ work'[t] # "new" /\ timers' = timers
      BY <1>0, <1>3, <2>1 DEF RetryRefused, Work, SetMem, Write, TypeOK, Procs
    <3> HIDE DEF m, d
    <3> QED BY <1>0, <3>1, <3>2, ClosedGood, HomedWritten
  <2>2. CASE u # t
    BY <1>0, <1>3, <2>2, HomedFrame DEF RetryRefused, Work, SetMem, Write, TypeOK, Procs
  <2> QED BY <2>1, <2>2
<1>4. ASSUME NEW u \in Tasks, LateResult(u) PROVE Homed(t)'
  <2> DEFINE old == mem["ws"][u]
             o == IF old = None THEN [Fresh EXCEPT !.known = FALSE] ELSE old
             b == Done(Add(o, Event(u, "end")))
  <2>1. b.completed
    <3>1. mem["ws"][u] \in Buffers \cup {None} /\ [Fresh EXCEPT !.known = FALSE] \in Buffers
      BY <1>0, FreshBuffer DEF TypeOK, Procs, Buffers
    <3>2. o \in Buffers
      BY <3>1
    <3> QED BY <1>0, <3>2, EventType, AddEvents, DoneBuffer
  <2>2. /\ SetMem("ws", u, b) /\ Write(u, b)
        /\ work' = [work EXCEPT ![u] = "over"]
        /\ timers' \subseteq timers \cup {<<"memory", "ws", u>>, <<"file", "ws", u>>}
        /\ emitted' = [emitted EXCEPT ![u] = @ + 1]
    BY <1>4 DEF LateResult, Work
  <2> HIDE DEF b
  <2>3. CASE u = t
    <3>1. /\ mem'["ws"][t] = b /\ disk'[t] = b /\ mem'["api"][t] = mem["api"][t] /\ work'[t] # "new"
      BY <1>0, <2>2, <2>3 DEF SetMem, Write, TypeOK, Procs
    <3>2. ~Open(b)
      BY <2>1 DEF Open
    <3>3. \A k \in {"memory", "file"} : <<k, "api", t>> \in timers' => <<k, "api", t>> \in timers
      BY <2>2
    <3> QED BY <1>0, <3>1, <3>2, <3>3, ClosedGood, HomedWritten
  <2>4. CASE u # t
    BY <1>0, <2>2, <2>4, HomedFrame DEF SetMem, Write, TypeOK, Procs
  <2> QED BY <2>3, <2>4
<1>5. ASSUME NEW u \in Tasks, RecoverActive(u) PROVE Homed(t)'
  <2> DEFINE b == Loaded("ws", u)
  <2>1. CASE u = t
    <3>1. b \in Buffers /\ b # None /\ (b = mem["ws"][t] \/ b = disk[t]) /\ ~b.completed
      BY <1>0, <1>5, <2>1 DEF RecoverActive, Active, Indexed, Unfinished, Loaded
    <3>2. Open(b) /\ work[t] # "new" /\ TimersOf("ws", t) = {}
      BY <1>0, <3>1 DEF Open, Homed
    <3>3. work' = work /\ timers' = timers
      BY <1>5 DEF RecoverActive
    <3> HIDE DEF b
    <3>4. CASE SetMem("ws", t, b) /\ UNCHANGED <<disk, emitted>>
      <4>1. Good(b, disk[t])
        <5>1. CASE b = mem["ws"][t]
          BY <1>0, <5>1 DEF Homed
        <5>2. CASE b = disk[t]
          <6>1. Lags(b, b)
            BY <3>1, EventsOf DEF Lags
          <6> QED BY <1>0, <3>2, <5>2, <6>1 DEF Homed, Good
        <5> QED BY <3>1, <5>1, <5>2
      <4>2. mem'["ws"][t] = b /\ mem'["api"][t] = mem["api"][t]
        BY <1>0, <3>4 DEF SetMem, TypeOK, Procs
      <4>3. TimersOf("ws", t)' = {}
        BY <3>2, <3>3 DEF TimersOf
      <4> QED BY <1>0, <3>2, <3>3, <3>4, <4>1, <4>2, <4>3, HomedWritten
    <3>5. CASE SetMem("ws", t, MarkedMem(t, b)) /\ Write(t, MarkedDisk(t, b))
      <4>1. ~Open(MarkedMem(t, b)) /\ ~Open(MarkedDisk(t, b))
        BY <1>0, <3>1, MarkedBuffers, MarkedFiles DEF Open
      <4>2. /\ mem'["ws"][t] = MarkedMem(t, b) /\ disk'[t] = MarkedDisk(t, b)
            /\ mem'["api"][t] = mem["api"][t]
        BY <1>0, <3>5 DEF SetMem, Write, TypeOK, Procs
      <4> QED BY <1>0, <3>2, <3>3, <4>1, <4>2, ClosedGood, HomedWritten
    <3> QED BY <1>5, <2>1, <3>4, <3>5 DEF RecoverActive, b
  <2>2. CASE u # t
    <3>1. /\ mem'["ws"][t] = mem["ws"][t] /\ mem'["api"][t] = mem["api"][t]
          /\ disk'[t] = disk[t] /\ work' = work /\ timers' = timers
      BY <1>0, <1>5, <2>2 DEF RecoverActive, SetMem, Write, TypeOK, Procs
    <3> QED BY <1>0, <3>1, HomedFrame
  <2> QED BY <2>1, <2>2
<1>6. ASSUME NEW u \in Tasks, RecoverOther(u) PROVE Homed(t)'
  <2>1. mem' = [mem EXCEPT !["ws"][u] = disk[u]] /\ UNCHANGED <<disk, timers, work, emitted>>
    BY <1>6 DEF RecoverOther, SetMem
  <2>2. CASE u = t
    <3>1. disk[t] # None /\ disk[t] \in Buffers /\ work[t] # "new"
      BY <1>0, <1>6, <2>2 DEF RecoverOther, Homed
    <3>2. Lags(disk[t], disk[t])
      BY <3>1, EventsOf DEF Lags
    <3>3. Good(disk[t], disk[t])
      BY <1>0, <3>2 DEF Homed, Good, Open
    <3>4. mem'["ws"][t] = disk[t] /\ mem'["api"][t] = mem["api"][t]
      BY <1>0, <2>1, <2>2 DEF TypeOK, Procs
    <3>5. TimersOf("ws", t)' = {} \/ ~Open(disk[t])
      BY <1>0, <2>1 DEF Homed, TimersOf
    <3> QED BY <1>0, <2>1, <3>1, <3>3, <3>4, <3>5, HomedWritten
  <2>3. CASE u # t
    BY <1>0, <2>1, <2>3, HomedFrame DEF TypeOK, Procs
  <2> QED BY <2>2, <2>3
<1>7. ASSUME NEW u \in Tasks, NEW kind \in {"chunk", "end"}, Emit(u, kind) PROVE Homed(t)'
  <2>0. emitted' = [emitted EXCEPT ![u] = @ + 1] /\ timers' = timers /\ work' = work /\ work[u] # "new"
    BY <1>7 DEF Emit
  <2>00. TimersOf("ws", t)' = TimersOf("ws", t)
    BY <2>0 DEF TimersOf
  <2>1. CASE u = t /\ mem["ws"][t] = None
    <3>1. UNCHANGED <<mem, disk>> /\ emitted'[t] = emitted[t] + 1
      BY <1>0, <1>7, <2>0, <2>1 DEF Emit, TypeOK
    <3>3. Good(None, disk[t])
      BY <1>0 DEF Homed, Good, Open
    <3>4. mem' = mem /\ disk' = disk
      BY <3>1
    <3>5. CASE TimersOf("ws", t) # {}
      <4>1. ~Open(mem["ws"][t]) /\ ~Open(disk[t])
        BY <1>0, <3>5 DEF Homed
      <4> QED BY <1>0, <2>0, <2>1, <3>1, <3>3, <3>4, <4>1, HomedWritten
    <3>6. CASE TimersOf("ws", t) = {}
      BY <1>0, <2>0, <2>00, <2>1, <3>1, <3>3, <3>4, <3>6, HomedWritten
    <3> QED BY <3>5, <3>6
  <2>2. CASE u = t /\ mem["ws"][t] # None
    <3> DEFINE e == Event(t, kind)  b == Add(mem["ws"][t], e)
    <3>1. /\ e \in Events /\ e.n = emitted[t] + 1 /\ mem["ws"][t] \in Buffers
          /\ b \in Buffers /\ b.completed = mem["ws"][t].completed
      BY <1>0, <2>2, EventType, AddEvents
    <3>2. SetMem("ws", t, b) /\ IF Persists(b) THEN Write(t, b) ELSE UNCHANGED disk
      BY <1>7, <2>2 DEF Emit
    <3>3. /\ mem'["ws"][t] = b /\ mem'["api"][t] = mem["api"][t] /\ emitted'[t] = emitted[t] + 1
          /\ disk'[t] = IF Persists(b) THEN b ELSE disk[t]
      BY <1>0, <2>0, <2>2, <3>2 DEF SetMem, Write, TypeOK, Procs
    <3>4. Good(b, IF Persists(b) THEN b ELSE disk[t])
      BY <1>0, <3>1, AddGood DEF Homed
    <3> HIDE DEF b
    <3>5. CASE TimersOf("ws", t) # {}
      <4>1. ~Open(mem["ws"][t]) /\ ~Open(disk[t])
        BY <1>0, <3>5 DEF Homed
      <4>2. ~Open(b)
        BY <2>2, <3>1, <4>1 DEF Open
      <4> QED BY <1>0, <2>0, <2>2, <3>3, <3>4, <4>1, <4>2, HomedWritten
    <3>6. CASE TimersOf("ws", t) = {}
      BY <1>0, <2>0, <2>00, <2>2, <3>3, <3>4, <3>6, HomedWritten
    <3> QED BY <3>5, <3>6
  <2>3. CASE u # t
    <3>1. mem'["ws"][t] = mem["ws"][t] /\ mem'["api"][t] = mem["api"][t] /\ disk'[t] = disk[t]
      <4>1. \/ UNCHANGED <<mem, disk>>
            \/ \E b : mem' = [mem EXCEPT !["ws"][u] = b] /\ (disk' = [disk EXCEPT ![u] = b] \/ disk' = disk)
        BY <1>7 DEF Emit, SetMem, Write
      <4> QED BY <1>0, <2>3, <4>1 DEF TypeOK, Procs
    <3> QED BY <1>0, <2>0, <3>1, HomedFrame
  <2> QED BY <2>1, <2>2, <2>3
<1>8. ASSUME NEW u \in Tasks, NEW p \in Procs, Complete(p, u) PROVE Homed(t)'
  <2>1. CASE u = t
    <3>1. p = "ws" /\ mem["ws"][t] \in Buffers /\ mem["ws"][t] # None
      BY <1>0, <1>8, <2>1 DEF Complete, Homed, Procs
    <3> DEFINE b == Done(mem["ws"][t])
    <3>2. b.completed
      BY <3>1, DoneBuffer
    <3>3. SetMem("ws", t, b) /\ Write(t, b) /\ work' = work
          /\ timers' = timers \cup {<<"memory", "ws", t>>, <<"file", "ws", t>>}
      BY <1>8, <2>1, <3>1 DEF Complete
    <3> HIDE DEF b
    <3>4. /\ mem'["ws"][t] = b /\ disk'[t] = b /\ mem'["api"][t] = mem["api"][t]
          /\ work[t] # "new" /\ ~Open(b)
      BY <1>0, <3>1, <3>2, <3>3 DEF SetMem, Write, TypeOK, Procs, Homed, Open
    <3> QED BY <1>0, <3>3, <3>4, ClosedGood, HomedWritten
  <2>2. CASE u # t
    BY <1>0, <1>8, <2>2, HomedFrame DEF Complete, SetMem, Write, TypeOK, Procs
  <2> QED BY <2>1, <2>2
<1>9. ASSUME NEW u \in Tasks, NEW p \in Procs, Forget(p, u) PROVE Homed(t)'
  <2>0. mem' = [mem EXCEPT ![p][u] = None] /\ timers' \subseteq timers /\ UNCHANGED <<disk, work, emitted>>
    BY <1>9 DEF Forget, SetMem
  <2>1. CASE u = t
    <3>1. p = "ws" /\ ~Open(disk[t]) /\ work[t] # "new"
      BY <1>0, <1>9, <2>1 DEF Forget, Homed, TimersOf, Procs
    <3>2. mem'["ws"][t] = None /\ mem'["api"][t] = mem["api"][t] /\ disk'[t] = disk[t]
      BY <1>0, <2>0, <2>1, <3>1 DEF TypeOK, Procs
    <3>3. ~Open(None)
      BY DEF Open
    <3> QED BY <1>0, <2>0, <3>1, <3>2, <3>3, ClosedGood, HomedWritten
  <2>2. CASE u # t
    BY <1>0, <2>0, <2>2, HomedFrame DEF TypeOK, Procs
  <2> QED BY <2>1, <2>2
<1>10. ASSUME NEW u \in Tasks, NEW p \in Procs, Unlink(p, u) PROVE Homed(t)'
  <2>0. disk' = [disk EXCEPT ![u] = None] /\ timers' \subseteq timers /\ UNCHANGED <<mem, work, emitted>>
    BY <1>10 DEF Unlink, Write
  <2>1. CASE u = t
    <3>1. p = "ws" /\ ~Open(mem["ws"][t]) /\ work[t] # "new"
      BY <1>0, <1>10, <2>1 DEF Unlink, Homed, TimersOf, Procs
    <3>2. disk'[t] = None /\ mem' = mem
      BY <1>0, <2>0, <2>1 DEF TypeOK
    <3>3. ~Open(None)
      BY DEF Open
    <3> QED BY <1>0, <2>0, <3>1, <3>2, <3>3, ClosedGood, HomedWritten
  <2>2. CASE u # t
    BY <1>0, <2>0, <2>2, HomedFrame DEF TypeOK
  <2> QED BY <2>1, <2>2
<1>11. CASE Poll
  <2>1. PICK u \in Tasks : HomeOf[u] = "api" /\ SetMem("api", u, Loaded("api", u))
    BY <1>11 DEF Poll, Active, Indexed, Unfinished
  <2>2. u # t /\ mem'["api"][t] = mem["api"][t] /\ mem'["ws"] = mem["ws"]
    BY <1>0, <2>1 DEF SetMem, TypeOK, Procs
  <2> QED BY <1>0, <1>11, <2>2, HomedFrame DEF Poll
<1>12. ASSUME NEW p \in Procs, Crash(p) PROVE Homed(t)'
  <2>1. /\ mem' = [mem EXCEPT ![p] = [v \in Tasks |-> None]]
        /\ timers' = {x \in timers : x[2] # p} /\ UNCHANGED <<disk, emitted>>
        /\ work' = [v \in Tasks |-> IF p = "ws" /\ work[v] # "new" THEN "over" ELSE work[v]]
    BY <1>12 DEF Crash
  <2>2. CASE p = "api"
    <3>1. mem'["api"][t] = mem["api"][t] /\ mem'["ws"] = mem["ws"]
      BY <1>0, <2>1, <2>2 DEF TypeOK, Procs, Homed
    <3>2. work'[t] = "new" => work[t] = "new"
      BY <2>1, <2>2
    <3>3. \A q \in Procs, k \in {"memory", "file"} : <<k, q, t>> \in timers' => <<k, q, t>> \in timers
      BY <2>1
    <3> QED BY <1>0, <2>1, <3>1, <3>2, <3>3, HomedFrame
  <2>3. CASE p = "ws"
    <3>1. mem'["ws"][t] = None /\ mem'["api"] = mem["api"]
      BY <1>0, <2>1, <2>3 DEF TypeOK, Procs
    <3>2. \A q \in Procs : TimersOf(q, t)' \subseteq TimersOf(q, t)
      BY <2>1 DEF TimersOf
    <3>3. TimersOf("ws", t)' = {}
      <4>1. \A k \in {"memory", "file"} : <<k, "ws", t>> \notin timers'
        <5> TAKE k \in {"memory", "file"}
        <5>1. <<k, "ws", t>>[2] = "ws"
          OBVIOUS
        <5> QED BY <2>1, <2>3, <5>1
      <4> QED BY <4>1 DEF TimersOf
    <3>4. Good(None, disk[t])
      BY <1>0 DEF Homed, Good, Open
    <3>5. work'[t] = "new" => work[t] = "new"
      BY <2>1
    <3>6. TimersOf("api", t)' = {}
      BY <1>0, <3>2 DEF Homed, Procs
    <3> QED BY <1>0, <2>1, <3>1, <3>3, <3>4, <3>5, <3>6 DEF Homed
  <2> QED BY <2>2, <2>3 DEF Procs
<1>13. CASE UNCHANGED vars
  <2>1. UNCHANGED <<mem, disk, timers, work, emitted>>
    BY <1>13 DEF vars
  <2> QED BY <1>0, <2>1, HomedFrame
<1> QED BY <1>1, <1>2, <1>3, <1>4, <1>5, <1>6, <1>7, <1>8, <1>9, <1>10, <1>11, <1>12, <1>13 DEF Next

----------------------------------------------------------------------------
(* The order of the events                                                   *)

LEMMA DoneOrdered ==
  ASSUME NEW b \in Buffers, NEW n \in Nat, Ordered(b, n)
  PROVE  Ordered(Done(b), n)
<1>1. Done(b).events = b.events /\ Done(b).completed
  BY DEF Done, Buffers
<1> QED BY <1>1, NoneIsNoBuffer DEF Ordered, Again

LEMMA FreshOrdered ==
  ASSUME NEW b \in Buffers, b.events = <<>>, NEW n \in Nat
  PROVE  Ordered(b, n)
BY DEF Ordered

\* markCompleted closes a stream, in memory,
LEMMA MarkedEvents ==
  ASSUME TypeOK, NEW t \in Tasks, NEW b \in Buffers
  PROVE  /\ MarkedMem(t, b) \in Buffers /\ MarkedMem(t, b).completed
         /\ MarkedMem(t, b).events = Append(b.events, Event(t, "idle"))
<1>1. Append(b.events, Event(t, "idle")) \in Seq(Events)
  BY EventType, EventsOf, AppendProperties
<1>2. /\ [b EXCEPT !.events = Append(b.events, Event(t, "idle"))] \in Buffers
      /\ [b EXCEPT !.events = Append(b.events, Event(t, "idle"))].events
           = Append(b.events, Event(t, "idle"))
  BY <1>1, WithEvents
<1>3. MarkedMem(t, b) = Done([b EXCEPT !.events = Append(b.events, Event(t, "idle"))])
  BY NoneIsNoBuffer DEF MarkedMem
<1> QED BY <1>2, <1>3 DEF Done, Buffers

LEMMA MarkedOrdered ==
  ASSUME TypeOK, NEW t \in Tasks, NEW b \in Buffers \cup {None}, Ordered(b, emitted[t])
  PROVE  Ordered(MarkedMem(t, b), emitted[t] + 1)
<1>1. CASE b = None
  BY <1>1 DEF MarkedMem, Ordered
<1>2. CASE b \in Buffers
  <2> DEFINE n == emitted[t]  e == Event(t, "idle")  c == MarkedMem(t, b)
  <2>1. n \in Nat /\ e \in Events /\ e.n = n + 1
    BY EventType DEF TypeOK
  <2>2. c \in Buffers /\ c.completed /\ c.events = Append(b.events, e)
    BY <1>2, MarkedEvents
  <2>3. \A i \in 1..Len(b.events) : b.events[i].n <= n
    BY <1>2, NoneIsNoBuffer DEF Ordered
  <2>4. Ordered(b, n + 1)
    BY <2>1, OrderedOn
  <2> HIDE DEF n, e, c
  <2>5. Ordered(c, n + 1)
    BY <1>2, <2>1, <2>2, <2>3, <2>4, AppendOrdered
  <2> QED BY <2>5 DEF n, c
<1> QED BY <1>1, <1>2

\* and once more, in the file.
LEMMA MarkedDiskOrdered ==
  ASSUME TypeOK, NEW t \in Tasks, Sorted(t), NEW b \in Buffers \cup {None},
         Ordered(b, emitted[t])
  PROVE  Ordered(MarkedDisk(t, b), emitted[t] + 1)
<1>1. CASE b = None
  <2>1. MarkedDisk(t, b) = MarkedMem(t, disk[t]) /\ disk[t] \in Buffers \cup {None}
    BY <1>1 DEF MarkedDisk, TypeOK
  <2> QED BY <2>1, MarkedOrdered DEF Sorted
<1>2. CASE b \in Buffers
  <2> DEFINE n == emitted[t]  e == Event(t, "idle")  c == MarkedMem(t, b)  d == MarkedMem(t, c)
  <2>1. n \in Nat /\ e \in Events /\ e.n = n + 1 /\ e.kind = "idle"
    BY EventType DEF Event, TypeOK
  <2>2. c \in Buffers /\ c.completed /\ c.events = Append(b.events, e)
    BY <1>2, MarkedEvents
  <2>3. d \in Buffers /\ d.completed /\ d.events = Append(c.events, e)
    BY <2>2, MarkedEvents
  <2>4. Ordered(c, n + 1)
    BY MarkedOrdered
  <2>5. MarkedDisk(t, b) = d
    BY <1>2, NoneIsNoBuffer DEF MarkedDisk
  <2>6. \A i \in 1..Len(b.events) : b.events[i].n <= n
    BY <1>2, NoneIsNoBuffer DEF Ordered
  <2> HIDE DEF n, e, c, d
  <2>7. \A i \in 1..Len(c.events) : c.events[i].n <= n \/ c.events[i] = e
    <3>1. Len(c.events) = Len(b.events) + 1 /\ Len(b.events) \in Nat
      BY <1>2, <2>1, <2>2, EventsOf, AppendProperties
    <3>2. /\ c.events[Len(b.events) + 1] = e
          /\ \A i \in 1..Len(b.events) : c.events[i] = b.events[i]
      BY <1>2, <2>1, <2>2, EventsOf, AppendProperties
    <3> QED BY <2>6, <3>1, <3>2
  <2>8. Ordered(d, n + 1)
    BY <2>1, <2>2, <2>3, <2>4, <2>7, AppendOrdered
  <2> QED BY <2>5, <2>8 DEF n
<1> QED BY <1>1, <1>2

\* A step that writes at most a buffer and the file of one task, in order.
LEMMA SortedWritten ==
  ASSUME TypeOK, \A t \in Tasks : Sorted(t), NEW u \in Tasks, NEW p \in Procs, NEW b, NEW d,
         mem' = mem \/ (mem' = [mem EXCEPT ![p][u] = b] /\ Ordered(b, emitted'[u])),
         disk' = disk \/ (disk' = [disk EXCEPT ![u] = d] /\ Ordered(d, emitted'[u])),
         emitted' = emitted \/ emitted' = [emitted EXCEPT ![u] = @ + 1]
  PROVE  \A t \in Tasks : Sorted(t)'
<1> SUFFICES ASSUME NEW t \in Tasks PROVE Sorted(t)'
  OBVIOUS
<1> USE NoneIsNoBuffer
<1>0. /\ \A q \in Procs : mem[q][t] \in Buffers \cup {None} /\ Ordered(mem[q][t], emitted[t])
      /\ disk[t] \in Buffers \cup {None} /\ Ordered(disk[t], emitted[t]) /\ emitted[t] \in Nat
  BY DEF Sorted, TypeOK
<1>1. emitted'[t] = emitted[t] \/ (t = u /\ emitted'[t] = emitted[t] + 1)
  BY DEF TypeOK
<1>2. /\ \A q \in Procs : Ordered(mem[q][t], emitted'[t])
      /\ Ordered(disk[t], emitted'[t])
  BY <1>0, <1>1, OrderedOn
<1>3. \A q \in Procs : mem'[q][t] = mem[q][t] \/ (t = u /\ mem'[q][t] = b /\ Ordered(b, emitted'[u]))
  BY DEF TypeOK
<1>4. disk'[t] = disk[t] \/ (t = u /\ disk'[t] = d /\ Ordered(d, emitted'[u]))
  BY DEF TypeOK
<1> QED BY <1>2, <1>3, <1>4 DEF Sorted

LEMMA SortedStep ==
  ASSUME EInv, [Next]_vars
  PROVE  \A t \in Tasks : Sorted(t)'
<1> USE NoneIsNoBuffer
<1>0. /\ TypeOK /\ \A t \in Tasks : Sorted(t)
      /\ \A t \in Tasks : /\ mem["ws"][t] \in Buffers \cup {None}
                         /\ disk[t] \in Buffers \cup {None} /\ emitted[t] \in Nat
                         /\ HomeOf[t] \in Procs
      /\ \A p \in Procs, t \in Tasks : Ordered(mem[p][t], emitted[t]) /\ Ordered(disk[t], emitted[t])
      /\ "ws" \in Procs /\ "api" \in Procs
  BY BufferAssumption DEF EInv, TypeOK, Procs, Sorted
<1>1. ASSUME NEW u \in Tasks, Start(u) PROVE \A t \in Tasks : Sorted(t)'
  <2>1. Ordered(Fresh, emitted[u])
    BY <1>0, FreshBuffer, FreshOrdered
  <2>2. /\ mem' = [mem EXCEPT ![HomeOf[u]][u] = Fresh] /\ disk' = [disk EXCEPT ![u] = Fresh]
        /\ emitted' = emitted
    BY <1>1 DEF Start, SetMem, Write
  <2> QED BY <1>0, <2>1, <2>2, SortedWritten
<1>2. ASSUME NEW u \in Tasks, RetryRefused(u) PROVE \A t \in Tasks : Sorted(t)'
  <2> DEFINE b == MarkedMem(u, mem["ws"][u])  d == MarkedDisk(u, mem["ws"][u])
  <2>1. Ordered(b, emitted[u] + 1) /\ Ordered(d, emitted[u] + 1)
    BY <1>0, MarkedOrdered, MarkedDiskOrdered
  <2>2. /\ mem' = [mem EXCEPT !["ws"][u] = b] /\ disk' = [disk EXCEPT ![u] = d]
        /\ emitted' = [emitted EXCEPT ![u] = @ + 1] /\ emitted'[u] = emitted[u] + 1
    BY <1>0, <1>2 DEF RetryRefused, SetMem, Write, TypeOK
  <2> HIDE DEF b, d
  <2> QED BY <1>0, <2>1, <2>2, SortedWritten
<1>3. ASSUME NEW u \in Tasks, LateResult(u) PROVE \A t \in Tasks : Sorted(t)'
  <2> DEFINE old == mem["ws"][u]
             o == IF old = None THEN [Fresh EXCEPT !.known = FALSE] ELSE old
             e == Event(u, "end")  b == Done(Add(o, e))
  <2>1. o \in Buffers /\ Ordered(o, emitted[u])
    <3>1. [Fresh EXCEPT !.known = FALSE] \in Buffers /\ [Fresh EXCEPT !.known = FALSE].events = <<>>
      BY FreshBuffer DEF Buffers
    <3> QED BY <1>0, <3>1, FreshOrdered
  <2>2. e \in Events /\ e.n = emitted[u] + 1 /\ emitted[u] + 1 \in Nat
    BY <1>0, EventType
  <2>3. /\ mem' = [mem EXCEPT !["ws"][u] = b] /\ disk' = [disk EXCEPT ![u] = b]
        /\ emitted' = [emitted EXCEPT ![u] = @ + 1] /\ emitted'[u] = emitted[u] + 1
    BY <1>0, <1>3 DEF LateResult, SetMem, Write, TypeOK
  <2> HIDE DEF o, e
  <2>4. Ordered(b, emitted[u] + 1)
    BY <1>0, <2>1, <2>2, AddOrdered, AddEvents, DoneOrdered
  <2> HIDE DEF b
  <2> QED BY <1>0, <2>3, <2>4, SortedWritten
<1>4. ASSUME NEW u \in Tasks, RecoverActive(u) PROVE \A t \in Tasks : Sorted(t)'
  <2> DEFINE b == Loaded("ws", u)
  <2>1. b \in Buffers \cup {None} /\ Ordered(b, emitted[u])
    BY <1>0 DEF Loaded
  <2>2. CASE SetMem("ws", u, b) /\ UNCHANGED <<disk, emitted>>
    <3> HIDE DEF b
    <3> QED BY <1>0, <2>1, <2>2, SortedWritten DEF SetMem
  <2>3. CASE /\ SetMem("ws", u, MarkedMem(u, b)) /\ Write(u, MarkedDisk(u, b))
             /\ emitted' = [emitted EXCEPT ![u] = @ + 1]
    <3> HIDE DEF b
    <3>1. Ordered(MarkedMem(u, b), emitted[u] + 1) /\ Ordered(MarkedDisk(u, b), emitted[u] + 1)
      BY <1>0, <2>1, MarkedOrdered, MarkedDiskOrdered
    <3>2. emitted'[u] = emitted[u] + 1
      BY <1>0, <2>3 DEF TypeOK
    <3> QED BY <1>0, <2>3, <3>1, <3>2, SortedWritten DEF SetMem, Write
  <2> QED BY <1>4, <2>2, <2>3 DEF RecoverActive
<1>5. ASSUME NEW u \in Tasks, RecoverOther(u) PROVE \A t \in Tasks : Sorted(t)'
  <2>1. mem' = [mem EXCEPT !["ws"][u] = disk[u]] /\ disk' = disk /\ emitted' = emitted
    BY <1>5 DEF RecoverOther, SetMem
  <2> QED BY <1>0, <2>1, SortedWritten
<1>6. ASSUME NEW u \in Tasks, NEW kind \in {"chunk", "end"}, Emit(u, kind)
      PROVE  \A t \in Tasks : Sorted(t)'
  <2> DEFINE e == Event(u, kind)  b == Add(mem["ws"][u], e)
  <2>1. emitted' = [emitted EXCEPT ![u] = @ + 1] /\ emitted'[u] = emitted[u] + 1
    BY <1>0, <1>6 DEF Emit, TypeOK
  <2>2. CASE mem["ws"][u] = None
    <3>1. mem' = mem /\ disk' = disk
      BY <1>6, <2>2 DEF Emit
    <3> QED BY <1>0, <2>1, <3>1, SortedWritten
  <2>3. CASE mem["ws"][u] # None
    <3>1. /\ mem' = [mem EXCEPT !["ws"][u] = b]
          /\ disk' = [disk EXCEPT ![u] = b] \/ disk' = disk
      BY <1>6, <2>3 DEF Emit, SetMem, Write
    <3>2. mem["ws"][u] \in Buffers /\ e \in Events /\ e.n = emitted[u] + 1
      BY <1>0, <2>3, EventType
    <3>3. Ordered(b, emitted'[u])
      BY <1>0, <2>1, <3>2, AddOrdered
    <3> HIDE DEF b
    <3>4. TypeOK /\ \A t \in Tasks : Sorted(t)
      BY <1>0
    <3> QED BY <1>0, <2>1, <3>1, <3>3, <3>4, SortedWritten
  <2> QED BY <2>2, <2>3
<1>7. ASSUME NEW u \in Tasks, NEW p \in Procs, Complete(p, u) PROVE \A t \in Tasks : Sorted(t)'
  <2> DEFINE b == Done(mem[p][u])
  <2>1. mem[p][u] \in Buffers
    BY <1>0, <1>7 DEF Complete, TypeOK
  <2>2. Ordered(b, emitted[u])
    BY <1>0, <2>1, DoneOrdered
  <2>3. /\ mem' = [mem EXCEPT ![p][u] = b] /\ disk' = [disk EXCEPT ![u] = b]
        /\ emitted' = emitted
    BY <1>7 DEF Complete, SetMem, Write
  <2> HIDE DEF b
  <2> QED BY <1>0, <2>2, <2>3, SortedWritten
<1>8. ASSUME NEW u \in Tasks, NEW p \in Procs, Forget(p, u) \/ Unlink(p, u)
      PROVE  \A t \in Tasks : Sorted(t)'
  <2>1. /\ mem' = [mem EXCEPT ![p][u] = None] \/ mem' = mem
        /\ disk' = [disk EXCEPT ![u] = None] \/ disk' = disk
        /\ emitted' = emitted
    BY <1>8 DEF Forget, Unlink, SetMem, Write
  <2>2. Ordered(None, emitted[u])
    BY DEF Ordered
  <2> QED BY <1>0, <2>1, <2>2, SortedWritten
<1>9. CASE Poll
  <2>1. PICK u \in Tasks : SetMem("api", u, Loaded("api", u))
    BY <1>9 DEF Poll, Active, Indexed, Unfinished
  <2>2. Ordered(Loaded("api", u), emitted[u])
    BY <1>0 DEF Loaded
  <2>3. /\ mem' = [mem EXCEPT !["api"][u] = Loaded("api", u)] /\ disk' = disk
        /\ emitted' = emitted
    BY <1>9, <2>1 DEF Poll, SetMem
  <2> QED BY <1>0, <2>2, <2>3, SortedWritten
<1>10. ASSUME NEW p \in Procs, Crash(p) PROVE \A t \in Tasks : Sorted(t)'
  <2> SUFFICES ASSUME NEW t \in Tasks PROVE Sorted(t)'
    OBVIOUS
  <2>1. /\ mem' = [mem EXCEPT ![p] = [v \in Tasks |-> None]] /\ disk' = disk
        /\ emitted' = emitted
    BY <1>10 DEF Crash
  <2>2. \A q \in Procs : mem'[q][t] = mem[q][t] \/ mem'[q][t] = None
    BY <1>0, <2>1 DEF TypeOK
  <2> QED BY <1>0, <2>1, <2>2 DEF Sorted, Ordered
<1>11. CASE mem' = mem /\ disk' = disk /\ emitted' = emitted
  BY <1>0, <1>11 DEF Sorted
<1>12. \A u \in Tasks :
         Reject(u) \/ End(u) => mem' = mem /\ disk' = disk /\ emitted' = emitted
  BY DEF Reject, End
<1>13. UNCHANGED vars => mem' = mem /\ disk' = disk /\ emitted' = emitted
  BY DEF vars
<1> QED BY <1>1, <1>2, <1>3, <1>4, <1>5, <1>6, <1>7, <1>8, <1>9, <1>10, <1>11, <1>12, <1>13
        DEF Next

LEMMA StepInv == EInv /\ [Next]_vars => EInv'
<1>1. EInv /\ [Next]_vars => TypeOK'
  BY TypeStep DEF EInv
<1>2. EInv /\ [Next]_vars => \A t \in Tasks : HomeOf[t] = "ws" => Homed(t)'
  BY HomedStep
<1>3. EInv /\ [Next]_vars => \A t \in Tasks : Sorted(t)'
  BY SortedStep
<1> QED BY <1>1, <1>2, <1>3 DEF EInv

\* The invariant of the event buffers holds throughout every behaviour.
THEOREM BufferInvariant == Spec => []EInv
BY InitInv, StepInv, PTL DEF Spec

\* The state of both processes, of the files and of the timers keeps its shape.
THEOREM BufferTypes == Spec => []TypeOK
<1>1. EInv => TypeOK
  BY DEF EInv
<1> QED BY <1>1, BufferInvariant, PTL

\* The parts of the invariant that an unfinished task of the WebSocket process has.
LEMMA StreamingGood ==
  ASSUME EInv, NEW t \in Tasks, Streaming(t)
  PROVE  /\ Open(disk[t]) /\ disk[t].known
         /\ mem["ws"][t] \in Buffers /\ disk[t] \in Buffers
         /\ Lags(mem["ws"][t], disk[t])
BY DEF EInv, TypeOK, Procs, Homed, Good, Open, Streaming

\* completeTask and startTask delete or move the index of the session; an unfinished task
\* of the WebSocket process is still found, by its file.
THEOREM UnfinishedFound == Spec => []UnfinishedIsFound
<1>1. EInv => UnfinishedIsFound
  BY StreamingGood DEF UnfinishedIsFound, Unfinished, Open
<1> QED BY <1>1, BufferInvariant, PTL

\* Whatever copy a client is served from has no event twice and none out of order, though
\* addEvent cuts a full buffer, getActiveTask replaces a buffer by its file, and
\* markCompleted closes what it finds in memory and in the file.
THEOREM ReplaysInOrder == Spec => []ReplayInOrder
<1>1. EInv => ReplayInOrder
  <2> SUFFICES ASSUME EInv, NEW t \in Tasks, NEW b \in Copies(t),
                      NEW i \in DOMAIN b.events, NEW j \in DOMAIN b.events, i < j
               PROVE  b.events[i].n < b.events[j].n \/ Again(b, i, j)
    BY DEF ReplayInOrder, Again
  <2>1. b \in Buffers /\ b # None /\ Ordered(b, emitted[t])
    BY DEF EInv, TypeOK, Sorted, Copies
  <2>2. DOMAIN b.events = 1..Len(b.events)
    BY <2>1, EventsOf
  <2> QED BY <2>1, <2>2 DEF Ordered
<1> QED BY <1>1, BufferInvariant, PTL

\* addEvent writes every PersistEvery events, and an overflow leaves a number of events
\* that is written too: a crash loses less than PersistEvery events of an unfinished task.
THEOREM FileLags == Spec => []DiskLag
<1>1. EInv => DiskLag
  <2> SUFFICES ASSUME EInv, NEW t \in Tasks, Streaming(t)
               PROVE  /\ disk[t] # None
                      /\ Len(mem["ws"][t].events) - Len(disk[t].events) \in 0..PersistEvery - 1
                      /\ disk[t].events = SubSeq(mem["ws"][t].events, 1, Len(disk[t].events))
    BY DEF DiskLag
  <2> DEFINE m == mem["ws"][t].events  d == disk[t].events
  <2>1. /\ m \in Seq(Events) /\ d \in Seq(Events) /\ Len(m) \in Nat /\ Len(d) \in Nat
        /\ \A i \in 1..Len(m) : m[i] \in Events
    BY StreamingGood, EventsOf
  <2>2. disk[t] # None /\ Len(m) - Len(d) \in 0..PersistEvery - 1 /\ \A i \in 1..Len(d) : d[i] = m[i]
    BY StreamingGood DEF Open, Lags
  <2>3. Len(d) <= Len(m)
    BY <2>1, <2>2, BufferAssumption
  <2> HIDE DEF m, d
  <2>4. /\ SubSeq(m, 1, Len(d)) \in Seq(Events)
        /\ Len(SubSeq(m, 1, Len(d))) = Len(d)
        /\ \A i \in 1..Len(d) : SubSeq(m, 1, Len(d))[i] = m[i]
    BY <2>1, <2>3, SubSeqProperties
  <2>5. d = SubSeq(m, 1, Len(d))
    BY <2>1, <2>2, <2>4, SeqEqual
  <2> QED BY <2>2, <2>5 DEF m, d
<1> QED BY <1>1, BufferInvariant, PTL

\* Once the file of a task says that it is completed, no event, late result or reload
\* makes it unfinished again.
THEOREM CompletionStays == Spec => CompletionSticks
<1> DEFINE Sticks == \A t \in Tasks :
       HomeOf[t] = "ws" /\ disk[t] # None /\ disk[t].completed /\ disk'[t] # None => disk'[t].completed
<1>1. EInv /\ [Next]_vars => Sticks
  <2> SUFFICES ASSUME EInv, [Next]_vars, NEW t \in Tasks, HomeOf[t] = "ws",
                      disk[t] # None, disk[t].completed, disk'[t] # None
               PROVE  disk'[t].completed
    OBVIOUS
  <2> USE BufferAssumption, NoneIsNoBuffer
  <2>0. /\ TypeOK /\ work[t] # "new" /\ ~Open(mem["ws"][t])
        /\ mem["ws"][t] \in Buffers \cup {None} /\ disk[t] \in Buffers \cup {None}
        /\ mem["api"][t] = None
    BY DEF EInv, TypeOK, Procs, Homed, Good, Open
  <2>1. ASSUME NEW u \in Tasks, Start(u) PROVE disk'[t].completed
    <3>1. u # t
      BY <2>0, <2>1 DEF Start
    <3> QED BY <2>0, <2>1, <3>1 DEF Start, Write, TypeOK
  <2>2. ASSUME NEW u \in Tasks, NEW b \in Buffers \cup {None}, Write(u, MarkedDisk(u, b))
        PROVE  disk'[t].completed
    <3>1. ~Open(MarkedDisk(u, b))
      BY <2>0, MarkedFiles
    <3> QED BY <2>0, <2>2, <3>1 DEF Write, TypeOK, Open
  <2>3. ASSUME NEW u \in Tasks, LateResult(u) PROVE disk'[t].completed
    <3> DEFINE old == mem["ws"][u]
               o == IF old = None THEN [Fresh EXCEPT !.known = FALSE] ELSE old
               b == Done(Add(o, Event(u, "end")))
    <3>1. mem["ws"][u] \in Buffers \cup {None} /\ [Fresh EXCEPT !.known = FALSE] \in Buffers
      BY <2>0, FreshBuffer DEF TypeOK, Procs, Buffers
    <3>2. o \in Buffers
      BY <3>1
    <3>3. b.completed
      BY <2>0, <3>2, EventType, AddEvents, DoneBuffer
    <3>4. Write(u, b)
      BY <2>3 DEF LateResult
    <3> HIDE DEF b
    <3> QED BY <2>0, <3>3, <3>4 DEF Write, TypeOK
  <2>4. ASSUME NEW u \in Tasks, NEW kind \in {"chunk", "end"}, Emit(u, kind) PROVE disk'[t].completed
    <3> DEFINE b == Add(mem["ws"][u], Event(u, kind))
    <3>1. mem["ws"][u] = None => UNCHANGED <<mem, disk>>
      BY <2>4 DEF Emit
    <3>2. mem["ws"][u] # None => SetMem("ws", u, b) /\ IF Persists(b) THEN Write(u, b) ELSE UNCHANGED disk
      BY <2>4 DEF Emit
    <3>3. ASSUME u = t, mem["ws"][u] # None PROVE b.completed
      <4>1. mem["ws"][u] \in Buffers /\ mem["ws"][u].completed
        BY <2>0, <3>3 DEF Open
      <4>2. Event(u, kind) \in Events
        BY <2>0, EventType
      <4> QED BY <4>1, <4>2, AddEvents
    <3> HIDE DEF b
    <3> QED BY <2>0, <3>1, <3>2, <3>3 DEF Write, TypeOK
  <2>5. ASSUME NEW u \in Tasks, NEW p \in Procs, Complete(p, u) PROVE disk'[t].completed
    <3>1. mem[p][u] \in Buffers
      BY <2>0, <2>5 DEF Complete, TypeOK
    <3>2. Done(mem[p][u]).completed /\ Write(u, Done(mem[p][u]))
      BY <2>5, <3>1, DoneBuffer DEF Complete
    <3> QED BY <2>0, <3>2 DEF Write, TypeOK
  <2>6. ASSUME NEW u \in Tasks, NEW p \in Procs, Unlink(p, u) PROVE disk'[t].completed
    BY <2>0, <2>6 DEF Unlink, Write, TypeOK
  <2>7. ASSUME NEW u \in Tasks, RetryRefused(u) PROVE disk'[t].completed
    <3>1. mem["ws"][u] \in Buffers \cup {None} /\ Write(u, MarkedDisk(u, mem["ws"][u]))
      BY <2>0, <2>7 DEF RetryRefused, TypeOK, Procs
    <3> QED BY <2>2, <3>1
  <2>8. ASSUME NEW u \in Tasks, RecoverActive(u) PROVE disk'[t].completed
    <3>1. Loaded("ws", u) \in Buffers \cup {None}
      BY <2>0 DEF Loaded, TypeOK, Procs
    <3>2. disk' = disk \/ Write(u, MarkedDisk(u, Loaded("ws", u)))
      BY <2>8 DEF RecoverActive
    <3> QED BY <2>2, <3>1, <3>2
  <2>9. CASE disk' = disk
    BY <2>9
  <2>10. \/ disk' = disk
         \/ \E u \in Tasks :
              \/ Start(u) \/ RetryRefused(u) \/ LateResult(u) \/ RecoverActive(u)
              \/ \E kind \in {"chunk", "end"} : Emit(u, kind)
              \/ \E p \in Procs : Complete(p, u) \/ Unlink(p, u)
    BY DEF Next, vars, Reject, End, RecoverOther, Forget, Poll, Crash
  <2> QED BY <2>1, <2>3, <2>4, <2>5, <2>6, <2>7, <2>8, <2>9, <2>10
<1>2. EInv /\ [Next]_vars => [Sticks]_vars
  BY <1>1
<1>3. CompletionSticks <=> [][Sticks]_vars
  BY DEF CompletionSticks
<1> QED BY <1>2, <1>3, BufferInvariant, PTL DEF Spec

=============================================================================
