---------------------- MODULE TcpConnectionOrderProofs ----------------------
(***************************************************************************)
(* TcpConnection keeps the order of the bytes.  The bytes that have not     *)
(* been dropped stand in line: those the socket took, those that wait in    *)
(* outputBuffer_, and the arguments of the callbacks that are still to run, *)
(* of the batch and then of the queue.                                     *)
(***************************************************************************)
EXTENDS TcpConnectionProofs

USE ConnectionAssumption
    DEF vars, channelVars, socketVars, peerVars, loopVars, userVars,
        serverVars, countVars, otherVars, aroundVars

\* The bytes sendInLoop and handleWrite have handled, and the callbacks that
\* wait, by their place in line.
flow == sent \o outputBuffer
W(k) == IF k <= Len(batch) THEN batch[k] ELSE queue[k - Len(batch)]
Line == at..(Len(batch) + Len(queue))
R(k) == W(k).first..W(k).last

\* b may stand before c.
Fits(b, c) == b # c /\ (given[b] = given[c] /\ given[b] # "file" => b < c)

Numbered ==
  /\ \A i \in 1..Len(flow) : flow[i] \in 1..accepted
  /\ \A k \in Line : \A b \in R(k) : b \in 1..accepted

\* A sendInLoop that waits holds bytes of one thread, any other callback
\* those of a file or none.
Owned ==
  \A k \in Line : \A b \in R(k) :
    IF W(k).op = "sendInLoop"
      THEN given[b] \in Threads /\ \A c \in R(k) : given[b] = given[c]
      ELSE given[b] = "file"

Ordered ==
  /\ \A i, j \in 1..Len(flow) : i < j => Fits(flow[i], flow[j])
  /\ \A i \in 1..Len(flow), k \in Line : \A b \in R(k) : Fits(flow[i], b)
  /\ \A k, l \in Line : k < l => \A b \in R(k), c \in R(l) : Fits(b, c)

InOrder == Numbered /\ Owned /\ Ordered

-----------------------------------------------------------------------------
(* Every step takes callbacks from the front of the line, puts a part of    *)
(* one span of bytes at the end of the flow, and the rest of it at the end  *)
(* of the line.                                                            *)

\* The flow has grown by e bytes from a on.
Grows(a, e) ==
  /\ Len(flow') = Len(flow) + e
  /\ \A i \in 1..Len(flow) : flow'[i] = flow[i]
  /\ \A i \in (Len(flow) + 1)..(Len(flow) + e) :
       flow'[i] = a + (i - Len(flow)) - 1

\* Bytes that were given before keep their owner.
Kept == /\ accepted \in Nat /\ accepted' \in Nat /\ accepted <= accepted'
        /\ \A x \in 1..accepted : given'[x] = given[x]

FlowSizes ==
  /\ flow \in Seq(1..MaxBytes)
  /\ Len(flow) = Len(sent) + Len(outputBuffer)
  /\ Len(flow) \in Nat /\ Len(sent) \in Nat /\ Len(outputBuffer) \in Nat
  /\ Len(batch) \in Nat /\ Len(queue) \in Nat
  /\ at \in Nat /\ 1 <= at /\ at <= Len(batch) + 1

LEMMA FlowTypes == TypeOK => FlowSizes
<1> SUFFICES ASSUME TypeOK PROVE FlowSizes
  OBVIOUS
<1>1. /\ sent \in Seq(1..MaxBytes) /\ outputBuffer \in Seq(1..MaxBytes)
      /\ batch \in Seq(Tasks) /\ queue \in Seq(Tasks)
      /\ at \in 1..(Len(batch) + 1)
  BY DEF TypeOK
<1>2. Len(batch) \in Nat /\ Len(queue) \in Nat
  BY <1>1, LenProperties
<1>3. /\ flow \in Seq(1..MaxBytes)
      /\ Len(flow) = Len(sent) + Len(outputBuffer)
      /\ Len(sent) \in Nat /\ Len(outputBuffer) \in Nat
  BY <1>1, Concatenated DEF flow
<1> QED
  BY <1>1, <1>2, <1>3 DEF FlowSizes

LEMMA FlowTypesNext == TypeOK' => FlowSizes'
BY FlowTypes, PTL

\* The span from a to b: its bytes were given by one caller, and they may
\* stand behind the flow.
Span(a, b) ==
  /\ \A x \in a..b : x \in 1..accepted'
  /\ \A i \in 1..Len(flow), x \in a..b :
       /\ flow[i] # x
       /\ given'[flow[i]] = given'[x] /\ given'[x] # "file" => flow[i] < x
  /\ \A x, y \in a..b : given'[x] = given'[y]

\* Of the span the flow takes e bytes, which may stand before the callbacks of
\* the line in rest, and the others may stand behind these.
Parts(rest, a, b, e) ==
  /\ Grows(a, e)
  /\ e > 0 => a + e - 1 <= b
  /\ \A k \in rest : \A y \in R(k) :
       /\ \A x \in a..(a + e - 1) : Fits(x, y)'
       /\ \A x \in (a + e)..b : Fits(y, x)'

\* A callback with arguments of the span that no byte was taken of.
Remains(t, a, b, e) ==
  \A x \in t.first..t.last :
    /\ x \in (a + e)..b
    /\ IF t.op = "sendInLoop"
         THEN given'[x] \in Threads ELSE given'[x] = "file"

\* The new line consists of callbacks that stood d places further back, and of
\* one that was queued.
Moves(rest, d, a, b, e, last) ==
  \A k \in Line' :
    \/ k + d \in rest /\ W(k)' = W(k + d) /\ k # last
    \/ /\ k = last /\ \A l \in Line' : l <= k
       /\ \A x \in R(k)' :
            /\ x \in (a + e)..b
            /\ IF W(k)'.op = "sendInLoop"
                 THEN given'[x] \in Threads ELSE given'[x] = "file"

LEMMA Advance ==
  ASSUME TypeOK, TypeOK', InOrder, Kept,
         NEW rest \in SUBSET Line, NEW d \in Nat,
         NEW a \in Nat, NEW b \in Nat, NEW e \in Nat, NEW last,
         Span(a, b), Parts(rest, a, b, e), Moves(rest, d, a, b, e, last)
  PROVE  InOrder'
<1> USE DEF Span, Parts, Moves
<1> DEFINE Old(k) == k + d \in rest /\ W(k)' = W(k + d) /\ k # last
           New(k) == /\ k = last /\ \A l \in Line' : l <= k
                     /\ \A x \in R(k)' :
                          /\ x \in (a + e)..b
                          /\ IF W(k)'.op = "sendInLoop"
                               THEN given'[x] \in Threads
                               ELSE given'[x] = "file"
<1>1. \A k \in Line' : Old(k) \/ New(k)
  OBVIOUS
<1>2. /\ Len(flow) \in Nat /\ Len(flow') \in Nat
      /\ Line \subseteq Int /\ Line' \subseteq Int
  BY FlowTypes, FlowTypesNext DEF FlowSizes, Line
<1>3. \A k \in Line' : Old(k) => R(k)' = R(k + d)
  BY DEF R
<1>4. ASSUME NEW i \in 1..Len(flow'), ~(i <= Len(flow))
      PROVE  flow'[i] \in a..b /\ flow'[i] \in a..(a + e - 1)
             /\ flow'[i] = a + (i - Len(flow)) - 1
  <2>1. i \in (Len(flow) + 1)..(Len(flow) + e)
    BY <1>2, <1>4 DEF Grows
  <2>2. flow'[i] = a + (i - Len(flow)) - 1
    BY <2>1 DEF Grows
  <2> QED
    BY <1>2, <2>1, <2>2
<1>5. \A i \in 1..Len(flow) : flow'[i] = flow[i] /\ flow[i] \in 1..accepted
  BY DEF Grows, InOrder, Numbered
<1>6. \A k \in rest : \A x \in R(k) : x \in 1..accepted
  BY DEF InOrder, Numbered
<1>7. \A x, y \in 1..accepted : Fits(x, y)' <=> Fits(x, y)
  BY DEF Kept, Fits
<1>8. 1..accepted \subseteq 1..accepted'
  BY DEF Kept
<1> HIDE DEF Old, New
<1>9. Numbered'
  <2>1. ASSUME NEW i \in 1..Len(flow') PROVE flow'[i] \in 1..accepted'
    <3>1. CASE i <= Len(flow)
      BY <1>2, <1>5, <1>8, <3>1
    <3>2. CASE ~(i <= Len(flow))
      BY <1>4, <3>2
    <3> QED
      BY <3>1, <3>2
  <2>2. ASSUME NEW k \in Line', NEW x \in R(k)' PROVE x \in 1..accepted'
    <3>1. CASE Old(k)
      BY <1>3, <1>6, <1>8, <2>2, <3>1 DEF Old
    <3>2. CASE New(k)
      <4>1. x \in (a + e)..b
        BY <2>2, <3>2 DEF New
      <4>2. x \in a..b
        BY <4>1
      <4> QED
        BY <4>2
    <3> QED
      BY <1>1, <3>1, <3>2
  <2> QED
    BY <2>1, <2>2 DEF Numbered
<1>10. Owned'
  <2> SUFFICES ASSUME NEW k \in Line', NEW x \in R(k)'
               PROVE  IF W(k)'.op = "sendInLoop"
                        THEN /\ given'[x] \in Threads
                             /\ \A c \in R(k)' : given'[x] = given'[c]
                        ELSE given'[x] = "file"
    BY DEF Owned
  <2>1. CASE Old(k)
    <3>1. /\ k + d \in Line /\ x \in R(k + d) /\ W(k)' = W(k + d)
          /\ \A y \in R(k)' : y \in R(k + d)
      BY <1>3, <2>1 DEF Old
    <3>2. IF W(k + d).op = "sendInLoop"
            THEN /\ given[x] \in Threads
                 /\ \A c \in R(k + d) : given[x] = given[c]
            ELSE given[x] = "file"
      BY <3>1 DEF InOrder, Owned
    <3>3. \A y \in R(k + d) : given'[y] = given[y]
      BY <1>6, <2>1 DEF Old, Kept
    <3> QED
      BY <3>1, <3>2, <3>3
  <2>2. CASE New(k)
    <3>1. \A y \in R(k)' : y \in a..b
      <4>1. \A y \in R(k)' : y \in (a + e)..b
        BY <2>2 DEF New
      <4> QED
        BY <4>1
    <3> QED
      BY <2>2, <3>1 DEF New
  <2> QED
    BY <1>1, <2>1, <2>2
<1>11. Ordered'
  <2>1. ASSUME NEW i \in 1..Len(flow'), NEW j \in 1..Len(flow'), i < j
        PROVE  Fits(flow[i], flow[j])'
    <3>1. CASE j <= Len(flow)
      <4>1. i \in 1..Len(flow) /\ j \in 1..Len(flow)
        BY <1>2, <2>1, <3>1
      <4>2. Fits(flow[i], flow[j])
        BY <2>1, <4>1 DEF InOrder, Ordered
      <4> QED
        BY <1>5, <1>7, <4>1, <4>2 DEF Fits, Kept
    <3>2. CASE ~(j <= Len(flow)) /\ i <= Len(flow)
      <4>1. i \in 1..Len(flow) /\ flow'[j] \in a..b /\ flow'[i] = flow[i]
        BY <1>2, <1>4, <1>5, <3>2
      <4> QED
        BY <4>1 DEF Fits
    <3>3. CASE ~(i <= Len(flow))
      <4>1. ~(j <= Len(flow))
        BY <1>2, <2>1, <3>3
      <4>2. /\ flow'[i] = a + (i - Len(flow)) - 1
            /\ flow'[j] = a + (j - Len(flow)) - 1
        BY <1>4, <3>3, <4>1
      <4>3. flow'[i] < flow'[j]
        BY <1>2, <2>1, <4>2
      <4>4. flow'[i] \in Nat /\ flow'[j] \in Nat
        BY <1>4, <3>3, <4>1
      <4> QED
        BY <4>3, <4>4 DEF Fits
    <3> QED
      BY <3>1, <3>2, <3>3
  <2>2. ASSUME NEW i \in 1..Len(flow'), NEW k \in Line', NEW x \in R(k)'
        PROVE  Fits(flow[i], x)'
    <3>1. CASE Old(k) /\ i <= Len(flow)
      <4>1. i \in 1..Len(flow) /\ k + d \in rest /\ x \in R(k + d)
        BY <1>2, <1>3, <3>1 DEF Old
      <4>2. Fits(flow[i], x) /\ x \in 1..accepted
        BY <1>6, <4>1 DEF InOrder, Ordered
      <4> QED
        BY <1>5, <4>1, <4>2 DEF Fits, Kept
    <3>2. CASE Old(k) /\ ~(i <= Len(flow))
      <4>1. k + d \in rest /\ x \in R(k + d)
        BY <1>3, <3>2 DEF Old
      <4>2. flow'[i] \in a..(a + e - 1)
        BY <1>4, <3>2
      <4> QED
        BY <4>1, <4>2 DEF Fits
    <3>3. CASE New(k) /\ i <= Len(flow)
      <4>1. i \in 1..Len(flow) /\ flow'[i] = flow[i]
        BY <1>2, <1>5, <3>3
      <4>2. x \in (a + e)..b
        BY <3>3 DEF New
      <4>3. x \in a..b
        BY <4>2
      <4> QED
        BY <4>1, <4>3 DEF Fits
    <3>4. CASE New(k) /\ ~(i <= Len(flow))
      <4>1. x \in (a + e)..b
        BY <3>4 DEF New
      <4>2. flow'[i] < x /\ flow'[i] \in Nat /\ x \in Nat
        BY <1>4, <3>4, <4>1
      <4> QED
        BY <4>2 DEF Fits
    <3> QED
      BY <1>1, <3>1, <3>2, <3>3, <3>4
  <2>3. ASSUME NEW k \in Line', NEW l \in Line', k < l,
               NEW x \in R(k)', NEW y \in R(l)'
        PROVE  Fits(x, y)'
    <3>1. Old(k)
      <4>1. ~(l <= k)
        BY <1>2, <2>3
      <4> QED
        BY <1>1, <4>1 DEF New
    <3>2. k + d \in rest /\ x \in R(k + d)
      BY <1>3, <3>1 DEF Old
    <3>3. CASE Old(l)
      <4>1. l + d \in rest /\ y \in R(l + d) /\ k + d < l + d
        BY <1>2, <1>3, <2>3, <3>3 DEF Old
      <4>2. Fits(x, y) /\ x \in 1..accepted /\ y \in 1..accepted
        BY <1>6, <3>2, <4>1 DEF InOrder, Ordered
      <4> QED
        BY <4>2 DEF Fits, Kept
    <3>4. CASE New(l)
      <4>1. y \in (a + e)..b
        BY <3>4 DEF New
      <4> QED
        BY <3>2, <4>1
    <3> QED
      BY <1>1, <3>3, <3>4
  <2> QED
    BY <2>1, <2>2, <2>3 DEF Ordered
<1> QED
  BY <1>9, <1>10, <1>11 DEF InOrder

-----------------------------------------------------------------------------
(* The line                                                                *)

\* The line when callbacks stay queued, and when one joins the queue.
LEMMA LineGrows ==
  ASSUME TypeOK, batch' = batch, at' \in {at, at + 1},
         NEW e \in Tasks, queue' = Append(queue, e)
  PROVE  \A k \in Line' :
           \/ /\ k \in Line /\ k >= at' /\ W(k)' = W(k)
              /\ k # Len(batch) + Len(queue) + 1
           \/ /\ k = Len(batch) + Len(queue) + 1 /\ W(k)' = e
              /\ \A l \in Line' : l <= k
<1>1. /\ Len(batch) \in Nat /\ Len(queue) \in Nat /\ at \in Nat /\ 1 <= at
      /\ at <= Len(batch) + 1
  BY FlowTypes DEF FlowSizes
<1>2. /\ Len(queue') = Len(queue) + 1
      /\ \A i \in 1..Len(queue) : queue'[i] = queue[i]
      /\ queue'[Len(queue) + 1] = e
  BY Appended DEF TypeOK
<1> SUFFICES ASSUME NEW k \in Line'
             PROVE  \/ /\ k \in Line /\ k >= at' /\ W(k)' = W(k)
                       /\ k # Len(batch) + Len(queue) + 1
                    \/ /\ k = Len(batch) + Len(queue) + 1 /\ W(k)' = e
                       /\ \A l \in Line' : l <= k
  OBVIOUS
<1>3. /\ k \in Int /\ at' <= k /\ k <= Len(batch) + Len(queue) + 1
      /\ \A l \in Line' : l <= Len(batch) + Len(queue) + 1
  BY <1>1, <1>2 DEF Line
<1>4. CASE k = Len(batch) + Len(queue) + 1
  <2>1. ~(k <= Len(batch)) /\ k - Len(batch) = Len(queue) + 1
    BY <1>1, <1>4
  <2>2. W(k)' = e
    BY <1>2, <2>1 DEF W
  <2> QED
    BY <1>3, <1>4, <2>2
<1>5. CASE k # Len(batch) + Len(queue) + 1
  <2>1. k \in Line /\ k >= at'
    BY <1>1, <1>3, <1>5 DEF Line
  <2>2. ~(k <= Len(batch)) => k - Len(batch) \in 1..Len(queue)
    BY <1>1, <1>3, <1>5
  <2>3. W(k)' = W(k)
    BY <1>2, <2>2 DEF W
  <2> QED
    BY <1>5, <2>1, <2>3
<1> QED
  BY <1>4, <1>5

LEMMA LineKept ==
  ASSUME TypeOK, UNCHANGED <<batch, queue>>, at' \in {at, at + 1}
  PROVE  \A k \in Line' : k \in Line /\ k >= at' /\ W(k)' = W(k)
<1>1. Len(batch) \in Nat /\ Len(queue) \in Nat /\ at \in Nat
  BY FlowTypes DEF FlowSizes
<1> QED
  BY <1>1 DEF Line, W

\* A step that handles one span of bytes, a to b, and queues its rest.
LEMMA Handled ==
  ASSUME TypeOK, TypeOK', InOrder, Kept, batch' = batch, at' \in {at, at + 1},
         NEW a \in Nat, NEW b \in Nat, NEW e \in Nat, Span(a, b),
         Parts({k \in Line : k >= at'}, a, b, e),
         \/ queue' = queue
         \/ \E t \in Tasks : queue' = Append(queue, t) /\ Remains(t, a, b, e)
  PROVE  InOrder'
<1> DEFINE rest == {k \in Line : k >= at'}
           last == Len(batch) + Len(queue) + 1
<1>1. /\ Len(batch) \in Nat /\ Len(queue) \in Nat /\ at \in Nat
  BY FlowTypes DEF FlowSizes
<1>2. /\ rest \in SUBSET Line /\ 0 \in Nat
      /\ \A k \in Line : k + 0 = k /\ k # last
  BY <1>1 DEF Line
<1>3. CASE queue' = queue
  <2>1. Moves(rest, 0, a, b, e, last)
    BY <1>2, <1>3, LineKept DEF Moves
  <2> HIDE DEF rest, last
  <2>2. Parts(rest, a, b, e)
    BY DEF rest
  <2> QED
    BY <1>2, <2>1, <2>2, Advance
<1>4. CASE queue' # queue
  <2>1. PICK t \in Tasks : queue' = Append(queue, t) /\ Remains(t, a, b, e)
    BY <1>4
  <2>2. \A k \in Line' :
          \/ k \in Line /\ k >= at' /\ W(k)' = W(k) /\ k # last
          \/ k = last /\ W(k)' = t /\ \A l \in Line' : l <= k
    BY <2>1, LineGrows
  <2>3. Moves(rest, 0, a, b, e, last)
    <3> SUFFICES ASSUME NEW k \in Line'
                 PROVE  \/ k + 0 \in rest /\ W(k)' = W(k + 0) /\ k # last
                        \/ /\ k = last /\ \A l \in Line' : l <= k
                           /\ Remains(W(k)', a, b, e)
      BY DEF Moves, Remains, R
    <3> QED
      BY <1>2, <2>1, <2>2
  <2> HIDE DEF rest, last
  <2>4. Parts(rest, a, b, e)
    BY DEF rest
  <2> QED
    BY <1>2, <2>3, <2>4, Advance
<1> QED
  BY <1>3, <1>4

\* No bytes are handled.
LEMMA NoSpan ==
  ASSUME TypeOK, UNCHANGED <<sent, outputBuffer, given>>
  PROVE  Kept /\ Span(1, 0) /\ \A rest : Parts(rest, 1, 0, 0)
<1>1. Len(flow) \in Nat
  BY FlowTypes DEF FlowSizes
<1>2. Kept
  BY LenProperties DEF Kept, accepted, TypeOK
<1>3. Grows(1, 0)
  BY <1>1 DEF Grows, flow
<1> QED
  BY <1>2, <1>3 DEF Span, Parts

LEMMA EmptyTask ==
  ASSUME NEW op \in Ops, NEW a, NEW b, NEW e
  PROVE  Task(op) \in Tasks /\ Remains(Task(op), a, b, e)
<1>1. Task(op).first = 1 /\ Task(op).last = 0
  BY DEF Task
<1>2. Task(op).first..Task(op).last = {}
  BY <1>1
<1> QED
  BY <1>2, TasksAreTasks DEF Remains

\* A step that leaves the bytes alone and queues a callback without bytes at
\* most.
LEMMA Untouched ==
  ASSUME TypeOK, TypeOK', InOrder,
         UNCHANGED <<sent, outputBuffer, given, batch>>, at' \in {at, at + 1},
         queue' = queue \/ \E op \in Ops : queue' = Append(queue, Task(op))
  PROVE  InOrder'
<1>1. \/ queue' = queue
      \/ \E t \in Tasks : queue' = Append(queue, t) /\ Remains(t, 1, 0, 0)
  BY EmptyTask
<1>2. /\ Kept /\ Span(1, 0) /\ Parts({k \in Line : k >= at'}, 1, 0, 0)
      /\ 0 \in Nat /\ 1 \in Nat
  BY NoSpan
<1> QED
  BY <1>1, <1>2, Handled

\* The whole line moves up, or its end is dropped.
LEMMA Shifted ==
  ASSUME TypeOK, TypeOK', InOrder, UNCHANGED <<sent, outputBuffer, given>>,
         NEW d \in Nat,
         \A k \in Line' : k + d \in Line /\ W(k)' = W(k + d)
  PROVE  InOrder'
<1>1. \A k \in Line' : k # 0
  BY FlowTypesNext DEF FlowSizes, Line
<1>2. Moves(Line, d, 1, 0, 0, 0)
  BY <1>1 DEF Moves
<1> QED
  BY <1>2, NoSpan, Advance

-----------------------------------------------------------------------------
(* What the operations do to the flow                                      *)

\* u is t behind s.
Joined(s, t, u) ==
  /\ u \in Seq(1..MaxBytes)
  /\ Len(s) \in Nat /\ Len(t) \in Nat /\ Len(u) = Len(s) + Len(t)
  /\ \A i \in 1..Len(s) : u[i] = s[i]
  /\ \A i \in (Len(s) + 1)..(Len(s) + Len(t)) : u[i] = t[i - Len(s)]

LEMMA Joins ==
  ASSUME NEW s \in Seq(1..MaxBytes), NEW t \in Seq(1..MaxBytes)
  PROVE  Joined(s, t, s \o t)
<1>1. /\ s \o t \in Seq(1..MaxBytes)
      /\ Len(s \o t) = Len(s) + Len(t)
      /\ \A i \in 1..(Len(s) + Len(t)) :
           (s \o t)[i] = IF i <= Len(s) THEN s[i] ELSE t[i - Len(s)]
      /\ Len(s) \in Nat /\ Len(t) \in Nat
  BY Concatenated
<1>2. \A i \in 1..Len(s) : (s \o t)[i] = s[i]
  BY <1>1
<1>3. \A i \in (Len(s) + 1)..(Len(s) + Len(t)) : (s \o t)[i] = t[i - Len(s)]
  BY <1>1
<1> QED
  BY <1>1, <1>2, <1>3 DEF Joined

\* The n bytes from a on.
LEMMA BytesFrom ==
  ASSUME NEW a \in 1..(MaxBytes + 1), NEW c \in 0..MaxBytes, a <= c + 1
  PROVE  /\ Bytes(a, c) \in Seq(1..MaxBytes)
         /\ Len(Bytes(a, c)) = c + 1 - a
         /\ \A i \in 1..(c + 1 - a) : Bytes(a, c)[i] = a + i - 1
<1>1. /\ Bytes(a, c) \in Seq(1..MaxBytes)
      /\ Len(Bytes(a, c)) = IF a <= c THEN c + 1 - a ELSE 0
      /\ \A i \in 1..Len(Bytes(a, c)) : Bytes(a, c)[i] = a + i - 1
  BY BytesProperties
<1>2. Len(Bytes(a, c)) = c + 1 - a
  <2>1. CASE a <= c
    BY <1>1, <2>1
  <2>2. CASE ~(a <= c)
    BY <1>1, <2>2
  <2> QED
    BY <2>1, <2>2
<1> QED
  BY <1>1, <1>2

LEMMA Associates ==
  ASSUME NEW s \in Seq(1..MaxBytes), NEW t \in Seq(1..MaxBytes),
         NEW u \in Seq(1..MaxBytes)
  PROVE  (s \o t) \o u = s \o (t \o u)
BY ConcatAssociative, SMTT(30)

\* Bytes a to c go to the socket and those behind them, to b, to the empty
\* outputBuffer_.
LEMMA WrittenFlow ==
  ASSUME TypeOK, TypeOK', outputBuffer = <<>>,
         NEW a \in 1..(MaxBytes + 1), NEW c \in 0..MaxBytes,
         NEW b \in 0..MaxBytes, a <= c + 1, c <= b,
         sent' = sent \o Bytes(a, c),
         IF c < b THEN outputBuffer' = Bytes(c + 1, b) ELSE outputBuffer' = <<>>
  PROVE  Grows(a, b + 1 - a)
<1>1. sent \in Seq(1..MaxBytes) /\ Len(sent) \in Nat /\ Len(outputBuffer) = 0
  BY FlowTypes, EmptySeq DEF TypeOK, FlowSizes
<1>2. flow = sent
  BY <1>1, ConcatEmptySeq DEF flow
<1>3. /\ Bytes(a, c) \in Seq(1..MaxBytes)
      /\ Len(Bytes(a, c)) = c + 1 - a
      /\ \A i \in 1..(c + 1 - a) : Bytes(a, c)[i] = a + i - 1
  BY BytesFrom
<1>4. Joined(sent, Bytes(a, c), sent')
  BY <1>1, <1>3, Joins
<1>5. /\ sent' \in Seq(1..MaxBytes)
      /\ Len(sent') = Len(sent) + (c + 1 - a)
      /\ \A i \in 1..Len(sent) : sent'[i] = sent[i]
      /\ \A i \in (Len(sent) + 1)..Len(sent') :
           sent'[i] = a + (i - Len(sent)) - 1
  <2>1. /\ sent' \in Seq(1..MaxBytes)
        /\ Len(sent') = Len(sent) + (c + 1 - a)
        /\ \A i \in 1..Len(sent) : sent'[i] = sent[i]
    BY <1>3, <1>4 DEF Joined
  <2>2. ASSUME NEW i \in (Len(sent) + 1)..Len(sent')
        PROVE  sent'[i] = a + (i - Len(sent)) - 1
    <3>1. i - Len(sent) \in 1..(c + 1 - a)
      BY <1>1, <2>1, SMTT(30)
    <3>2. sent'[i] = Bytes(a, c)[i - Len(sent)]
      BY <1>3, <1>4, <2>1 DEF Joined
    <3> QED
      BY <1>3, <3>1, <3>2
  <2> QED
    BY <2>1, <2>2
<1>6. CASE c < b
  <2>1. c + 1 \in 1..(MaxBytes + 1) /\ c + 1 <= b + 1
    BY <1>6
  <2>2. /\ outputBuffer' \in Seq(1..MaxBytes)
        /\ Len(outputBuffer') = b + 1 - (c + 1)
        /\ \A i \in 1..(b + 1 - (c + 1)) : outputBuffer'[i] = c + 1 + i - 1
    <3>1. outputBuffer' = Bytes(c + 1, b)
      BY <1>6
    <3> QED
      BY <2>1, <3>1, BytesFrom
  <2>3. Joined(sent', outputBuffer', flow')
    BY <1>5, <2>2, Joins DEF flow
  <2>4. Len(flow') = Len(sent) + (b + 1 - a)
    BY <1>1, <1>5, <2>2, <2>3 DEF Joined
  <2>5. ASSUME NEW i \in (Len(sent') + 1)..Len(flow')
        PROVE  flow'[i] = a + (i - Len(sent)) - 1
    <3>1. i - Len(sent') \in 1..(b + 1 - (c + 1))
      BY <1>1, <1>5, <2>4
    <3>2. flow'[i] = outputBuffer'[i - Len(sent')]
      BY <2>3 DEF Joined
    <3>3. flow'[i] = c + 1 + (i - Len(sent')) - 1
      BY <2>2, <3>1, <3>2
    <3> QED
      BY <1>1, <1>5, <3>3
  <2>6. \A i \in 1..Len(sent') : flow'[i] = sent'[i]
    BY <2>3 DEF Joined
  <2>7. ASSUME NEW i \in 1..Len(sent) PROVE flow'[i] = sent[i]
    <3>1. i \in 1..Len(sent')
      BY <1>1, <1>5
    <3> QED
      BY <1>5, <2>6, <3>1
  <2>8. ASSUME NEW i \in (Len(sent) + 1)..(Len(sent) + (b + 1 - a))
        PROVE  flow'[i] = a + (i - Len(sent)) - 1
    <3>1. CASE i <= Len(sent')
      BY <1>1, <1>5, <2>6, <3>1
    <3>2. CASE ~(i <= Len(sent'))
      <4>1. i \in (Len(sent') + 1)..Len(flow')
        BY <1>1, <1>5, <2>4, <3>2
      <4> QED
        BY <2>5, <4>1
    <3> QED
      BY <3>1, <3>2
  <2>9. Len(flow') = Len(flow) + (b + 1 - a)
    BY <1>2, <2>4
  <2> QED
    BY <1>2, <2>7, <2>8, <2>9, Zenon DEF Grows
<1>7. CASE ~(c < b)
  <2>1. flow' = sent' /\ c = b
    <3>1. outputBuffer' = <<>> /\ c = b
      BY <1>7
    <3>2. sent' \o <<>> = sent'
      BY <1>5, ConcatEmptySeq
    <3> QED
      BY <3>1, <3>2 DEF flow
  <2> QED
    BY <1>1, <1>2, <1>5, <2>1 DEF Grows
<1> QED
  BY <1>6, <1>7

\* Bytes a to b join outputBuffer_.
LEMMA BufferedFlow ==
  ASSUME TypeOK, NEW a \in 1..(MaxBytes + 1), NEW b \in 0..MaxBytes,
         sent' = sent, outputBuffer' = outputBuffer \o Bytes(a, b)
  PROVE  Grows(a, Len(Bytes(a, b)))
<1> DEFINE more == Bytes(a, b)
<1>1. /\ more \in Seq(1..MaxBytes) /\ Len(more) \in Nat
      /\ \A i \in 1..Len(more) : more[i] = a + i - 1
  BY BytesProperties, LenProperties
<1> HIDE DEF more
<1>2. flow \in Seq(1..MaxBytes) /\ Len(flow) \in Nat
  BY FlowTypes DEF FlowSizes
<1>3. flow' = flow \o more
  <2>1. sent \in Seq(1..MaxBytes) /\ outputBuffer \in Seq(1..MaxBytes)
    BY DEF TypeOK
  <2>2. (sent \o outputBuffer) \o more = sent \o (outputBuffer \o more)
    BY <1>1, <2>1, Associates
  <2>3. flow = sent \o outputBuffer /\ flow' = sent' \o outputBuffer'
    BY DEF flow
  <2>4. outputBuffer' = outputBuffer \o more
    BY DEF more
  <2> QED
    BY <2>2, <2>3, <2>4, Zenon
<1>4. Joined(flow, more, flow')
  BY <1>1, <1>2, <1>3, Joins
<1>5. ASSUME NEW i \in (Len(flow) + 1)..(Len(flow) + Len(more))
      PROVE  flow'[i] = a + (i - Len(flow)) - 1
  <2>1. i - Len(flow) \in 1..Len(more)
    BY <1>1, <1>2
  <2>2. flow'[i] = more[i - Len(flow)]
    BY <1>4 DEF Joined
  <2> QED
    BY <1>1, <2>1, <2>2
<1> QED
  BY <1>4, <1>5 DEF Grows, Joined, more

\* sendInLoop: the flow takes all of the bytes, or none if the socket is
\* broken.
LEMMA SendInLoopFlow ==
  ASSUME TypeOK, TypeOK', NEW a \in 1..(MaxBytes + 1), NEW b \in 0..MaxBytes,
         SendInLoop(a, b)
  PROVE  /\ \E e \in Nat : /\ Grows(a, e) /\ (e > 0 => a + e - 1 <= b)
                           /\ ~Broken /\ a <= b => e = b + 1 - a
         /\ queue' = queue \/ \E op \in Ops : queue' = Append(queue, Task(op))
<1>1. queue' = queue \/ \E op \in Ops : queue' = Append(queue, Task(op))
  BY SendInLoopTypes DEF Ops
<1>2. CASE ~IsWriting /\ outputBuffer = <<>> /\ ~Broken
  <2>1. PICK taken \in 0..(b + 1 - a) :
          /\ sent' = sent \o Bytes(a, a + taken - 1)
          /\ IF a + taken <= b THEN BufferRest(Bytes(a + taken, b))
                               ELSE UNCHANGED outputBuffer
    BY <1>2 DEF SendInLoop
  <2> DEFINE c == a + taken - 1
  <2>2. /\ c \in 0..MaxBytes /\ a <= c + 1 /\ c <= b /\ c + 1 = a + taken
        /\ b + 1 - a \in Nat
    OBVIOUS
  <2>3. IF c < b THEN outputBuffer' = Bytes(c + 1, b) ELSE outputBuffer' = <<>>
    <3>1. CASE a + taken <= b
      <4>1. a + taken \in 1..(MaxBytes + 1) /\ c < b
        BY <3>1
      <4>2. Bytes(a + taken, b) \in Seq(1..MaxBytes)
        BY <4>1, BytesProperties
      <4>3. outputBuffer' = <<>> \o Bytes(a + taken, b)
        BY <1>2, <2>1, <3>1 DEF BufferRest
      <4> QED
        BY <2>2, <4>1, <4>2, <4>3, ConcatEmptySeq
    <3>2. CASE ~(a + taken <= b)
      BY <1>2, <2>1, <3>2
    <3> QED
      BY <3>1, <3>2
  <2> HIDE DEF c
  <2>4. sent' = sent \o Bytes(a, c)
    BY <2>1 DEF c
  <2>5. Grows(a, b + 1 - a)
    BY <1>2, <2>2, <2>3, <2>4, WrittenFlow
  <2>6. a + (b + 1 - a) - 1 <= b
    OBVIOUS
  <2> QED
    BY <1>1, <2>2, <2>5, <2>6
<1>3. CASE ~IsWriting /\ outputBuffer = <<>> /\ Broken
  <2>1. Grows(a, 0)
    <3>1. sent' = sent /\ outputBuffer' = outputBuffer
      BY <1>3 DEF SendInLoop
    <3>2. flow' = flow /\ Len(flow) \in Nat
      BY <3>1, FlowTypes DEF flow, FlowSizes
    <3> QED
      BY <3>2 DEF Grows
  <2> QED
    BY <1>1, <1>3, <2>1
<1>4. CASE IsWriting \/ outputBuffer # <<>>
  <2>1. Grows(a, Len(Bytes(a, b)))
    BY <1>4, BufferedFlow DEF SendInLoop, BufferRest
  <2>2. /\ Len(Bytes(a, b)) \in Nat
        /\ Len(Bytes(a, b)) > 0 => a + Len(Bytes(a, b)) - 1 <= b
        /\ a <= b => Len(Bytes(a, b)) = b + 1 - a
    <3>1. Len(Bytes(a, b)) = IF a <= b THEN b + 1 - a ELSE 0
      BY BytesProperties
    <3> QED
      BY <3>1
  <2> QED
    BY <1>1, <2>1, <2>2
<1> QED
  BY <1>2, <1>3, <1>4

\* sendFileInLoop: the flow takes a part, and the rest may be queued again.
LEMMA SendFileInLoopFlow ==
  ASSUME TypeOK, TypeOK', NEW a \in 1..(MaxBytes + 1), NEW b \in 0..MaxBytes,
         SendFileInLoop(a, b)
  PROVE  \E e \in Nat :
           /\ Grows(a, e) /\ (e > 0 => a + e - 1 <= b)
           /\ \/ queue' = queue
              \/ queue' = Append(queue, Task("writeComplete"))
              \/ /\ a + e \in 1..(MaxBytes + 1)
                 /\ queue' = Append(queue,
                                    DataTask("sendFileInLoop", a + e, b))
<1>1. CASE state # "kDisconnecting" /\ ~IsWriting /\ outputBuffer = <<>> /\ ~Broken
  <2>1. PICK taken \in 0..(b + 1 - a) :
          /\ sent' = sent \o Bytes(a, a + taken - 1)
          /\ queue' = Append(queue,
                        IF a + taken <= b
                          THEN DataTask("sendFileInLoop", a + taken, b)
                          ELSE Task("writeComplete"))
    BY <1>1 DEF SendFileInLoop
  <2> DEFINE c == a + taken - 1
  <2>2. /\ c \in 0..MaxBytes /\ a <= c + 1 /\ c <= b /\ c + 1 - a = taken
        /\ taken \in Nat /\ a + taken - 1 <= b
        /\ a + taken <= b => a + taken \in 1..(MaxBytes + 1)
    OBVIOUS
  <2> HIDE DEF c
  <2>3. sent' = sent \o Bytes(a, c) /\ outputBuffer' = <<>> /\ ~(c < c)
    BY <1>1, <2>1, <2>2 DEF c, SendFileInLoop
  <2>4. Grows(a, c + 1 - a)
    <3>1. IF c < c THEN outputBuffer' = Bytes(c + 1, c) ELSE outputBuffer' = <<>>
      BY <2>3
    <3>2. c <= c
      BY <2>2
    <3> QED
      BY <1>1, <2>2, <2>3, <3>1, <3>2, WrittenFlow
  <2> QED
    BY <2>1, <2>2, <2>4
<1>2. CASE ~(state # "kDisconnecting" /\ ~IsWriting /\ outputBuffer = <<>> /\ ~Broken)
  <2>1. UNCHANGED <<sent, outputBuffer>>
        /\ \/ queue' = queue
           \/ queue' = Append(queue, DataTask("sendFileInLoop", a, b))
    BY <1>2 DEF SendFileInLoop
  <2>2. Grows(a, 0) /\ a + 0 = a
    BY <2>1, FlowTypes DEF Grows, flow, FlowSizes
  <2> QED
    BY <2>1, <2>2
<1> QED
  BY <1>1, <1>2

\* handleWrite moves bytes from outputBuffer_ to the socket.
LEMMA HandleWriteFlow ==
  ASSUME TypeOK, HandleWrite
  PROVE  flow' = flow
<1>1. CASE IsWriting /\ ~Broken
  <2>1. PICK n \in 1..Len(outputBuffer) :
          /\ sent' = sent \o SubSeq(outputBuffer, 1, n)
          /\ outputBuffer' = SubSeq(outputBuffer, n + 1, Len(outputBuffer))
    BY <1>1 DEF HandleWrite
  <2>2. /\ outputBuffer \in Seq(1..MaxBytes) /\ sent \in Seq(1..MaxBytes)
        /\ Len(outputBuffer) \in Nat
    BY LenProperties DEF TypeOK
  <2> DEFINE s == SubSeq(outputBuffer, 1, n)
             t == SubSeq(outputBuffer, n + 1, Len(outputBuffer))
  <2>3. /\ s \in Seq(1..MaxBytes) /\ Len(s) = n
        /\ \A i \in 1..n : s[i] = outputBuffer[i]
    BY <2>2, SubSeqProperties, ElementOfSeq
  <2>4. /\ t \in Seq(1..MaxBytes) /\ Len(t) = Len(outputBuffer) - n
        /\ \A i \in 1..(Len(outputBuffer) - n) : t[i] = outputBuffer[n + i]
    <3>1. /\ n + 1 \in Int /\ Len(outputBuffer) \in Int
          /\ \A i \in (n + 1)..Len(outputBuffer) :
               outputBuffer[i] \in 1..MaxBytes
      BY <2>2, ElementOfSeq
    <3>2. /\ t \in Seq(1..MaxBytes)
          /\ Len(t) = IF n + 1 <= Len(outputBuffer)
                        THEN Len(outputBuffer) - (n + 1) + 1 ELSE 0
          /\ \A i \in 1..(Len(outputBuffer) - (n + 1) + 1) :
               t[i] = outputBuffer[n + 1 + i - 1]
      BY <3>1, SubSeqProperties
    <3> QED
      BY <2>2, <3>2
  <2> HIDE DEF s, t
  <2>5. Joined(s, t, s \o t) /\ Len(s \o t) = Len(outputBuffer)
    <3>1. Joined(s, t, s \o t)
      BY <2>3, <2>4, Joins
    <3>2. Len(s \o t) = n + (Len(outputBuffer) - n)
      BY <2>3, <2>4, <3>1 DEF Joined
    <3> QED
      BY <2>2, <3>1, <3>2
  <2>6. ASSUME NEW i \in 1..Len(outputBuffer) PROVE (s \o t)[i] = outputBuffer[i]
    <3>1. CASE i <= n
      BY <2>3, <2>5, <3>1 DEF Joined
    <3>2. CASE ~(i <= n)
      <4>1. i - n \in 1..(Len(outputBuffer) - n) /\ n + (i - n) = i
        BY <2>2, <3>2
      <4>2. (s \o t)[i] = t[i - n]
        <5>1. i \in (Len(s) + 1)..(Len(s) + Len(t))
          BY <2>2, <2>3, <2>4, <3>2
        <5> QED
          BY <2>3, <2>5, <5>1 DEF Joined
      <4> QED
        BY <2>4, <4>1, <4>2
    <3> QED
      BY <3>1, <3>2
  <2>7. s \o t = outputBuffer
    BY <2>2, <2>5, <2>6, SeqEqual DEF Joined
  <2>8. flow' = (sent \o s) \o t
    BY <2>1 DEF flow, s, t
  <2>9. (sent \o s) \o t = sent \o (s \o t)
    <3>1. /\ sent \in Seq(1..MaxBytes) /\ s \in Seq(1..MaxBytes)
          /\ t \in Seq(1..MaxBytes)
      BY <2>2, <2>3, <2>4
    <3> QED
      BY <3>1, Associates, SMTT(30)
  <2> QED
    BY <2>7, <2>8, <2>9, ZenonT(30) DEF flow
<1>2. CASE ~(IsWriting /\ ~Broken)
  BY <1>2 DEF HandleWrite, flow
<1> QED
  BY <1>1, <1>2

-----------------------------------------------------------------------------
(* The spans that the steps handle                                         *)

\* The argument of the callback that runs now.
LEMMA CurrentSpan ==
  ASSUME TypeOK, InOrder, NEW ops, AtTask(ops), UNCHANGED given, at' = at + 1,
         NEW a, NEW b, a = batch[at].first, b = batch[at].last
  PROVE  /\ Kept /\ Span(a, b)
         /\ \A k \in Line : k >= at' => \A y \in R(k), x \in a..b : Fits(x, y)'
         /\ batch[at].op # "sendInLoop" =>
              /\ \A x \in a..b : given'[x] = "file"
              /\ \A k \in Line : k >= at' =>
                   \A y \in R(k), x \in a..b : Fits(y, x)'
<1>1. /\ at \in 1..Len(batch) /\ Len(queue) \in Nat /\ Len(batch) \in Nat
  BY CurrentTask, FlowTypes DEF FlowSizes
<1>2. at \in Line /\ W(at) = batch[at] /\ R(at) = a..b
  BY <1>1 DEF Line, W, R
<1>3. Kept /\ accepted' = accepted
  BY LenProperties DEF Kept, accepted, TypeOK
<1>4. \A x \in a..b : x \in 1..accepted
  BY <1>2 DEF InOrder, Numbered
<1>5. \A i \in 1..Len(flow), x \in a..b : Fits(flow[i], x)
  BY <1>2 DEF InOrder, Ordered
<1>6. \A x \in a..b :
        IF batch[at].op = "sendInLoop"
          THEN given[x] \in Threads /\ \A y \in a..b : given[x] = given[y]
          ELSE given[x] = "file"
  <2>1. \A x \in R(at) :
          IF W(at).op = "sendInLoop"
            THEN given[x] \in Threads /\ \A y \in R(at) : given[x] = given[y]
            ELSE given[x] = "file"
    BY <1>2 DEF InOrder, Owned
  <2> QED
    BY <1>2, <2>1
<1>7. Span(a, b)
  <2>1. \A x, y \in a..b : given[x] = given[y]
    BY <1>6
  <2> QED
    BY <1>3, <1>4, <1>5, <2>1 DEF Span, Fits
<1>8. ASSUME NEW k \in Line, k >= at', NEW y \in R(k), NEW x \in a..b
      PROVE  /\ Fits(x, y)'
             /\ batch[at].op # "sendInLoop" => Fits(y, x)'
  <2>1. at < k
    BY <1>1, <1>8 DEF Line
  <2>2. Fits(x, y)
    BY <1>2, <2>1 DEF InOrder, Ordered
  <2>3. batch[at].op # "sendInLoop" => given[x] = "file"
    BY <1>6
  <2> QED
    BY <2>2, <2>3 DEF Fits
<1>9. batch[at].op # "sendInLoop" => \A x \in a..b : given'[x] = "file"
  BY <1>6
<1> QED
  BY <1>3, <1>7, <1>8, <1>9

\* The bytes that are given just now.
LEMMA FreshSpan ==
  ASSUME TypeOK, InOrder, NEW n \in Nat, n <= MaxBytes - accepted,
         NEW by \in {"loop", "file"} \cup Threads, Accept(n, by),
         NEW a, NEW b, a = accepted + 1, b = accepted + n
  PROVE  /\ Kept /\ Span(a, b)
         /\ a \in 1..(MaxBytes + 1) /\ b \in 0..MaxBytes
         /\ \A x \in a..b : given'[x] = by
         /\ \A k \in Line : \A y \in R(k), x \in a..b : Fits(y, x)'
         /\ by \notin Threads =>
              \A k \in Line : \A y \in R(k), x \in a..b : Fits(x, y)'
<1>1. /\ accepted \in Nat /\ accepted' = accepted + n
      /\ a \in 1..(MaxBytes + 1) /\ b \in 0..MaxBytes
      /\ \A i \in 1..accepted' :
           given'[i] = IF i <= accepted THEN given[i] ELSE by
  BY AcceptTypes
<1>2. Kept
  BY <1>1 DEF Kept
<1>3. \A x \in a..b : x \in 1..accepted' /\ given'[x] = by /\ ~(x <= accepted)
  BY <1>1
<1>4. ASSUME NEW i \in 1..Len(flow), NEW x \in a..b
      PROVE  flow[i] < x /\ flow[i] # x
  <2>1. flow[i] \in 1..accepted
    BY DEF InOrder, Numbered
  <2> QED
    BY <1>1, <2>1
<1>5. Span(a, b)
  BY <1>3, <1>4 DEF Span
<1>6. ASSUME NEW k \in Line, NEW y \in R(k), NEW x \in a..b
      PROVE  Fits(y, x)' /\ (by \notin Threads => Fits(x, y)')
  <2>1. y \in 1..accepted /\ given'[y] = given[y]
    <3>1. y \in 1..accepted
      BY DEF InOrder, Numbered
    <3> QED
      BY <1>2, <3>1 DEF Kept
  <2>2. y < x /\ y # x
    BY <1>1, <2>1
  <2>3. given'[y] \in Threads \cup {"file"}
    <3>1. \/ given[y] \in Threads
          \/ given[y] = "file"
      BY DEF InOrder, Owned
    <3> QED
      BY <2>1, <3>1
  <2>4. by \notin Threads => given'[x] # given'[y] \/ given'[x] = "file"
    BY <1>3, <2>3
  <2> QED
    BY <2>2, <2>4 DEF Fits
<1> QED
  BY <1>1, <1>2, <1>3, <1>5, <1>6

\* The flow takes what it takes of the span, and nothing of it is queued.
LEMMA NothingRemains ==
  ASSUME TypeOK, TypeOK', InOrder, Kept, batch' = batch, at' \in {at, at + 1},
         NEW a \in Nat \ {0}, NEW b \in Nat, Span(a, b), NEW e \in Nat,
         Grows(a, e), e > 0 => a + e - 1 <= b,
         \A k \in Line : k >= at' => \A y \in R(k), x \in a..b : Fits(x, y)',
         queue' = queue \/ \E op \in Ops : queue' = Append(queue, Task(op))
  PROVE  InOrder'
<1> DEFINE c == a + e - 1
<1>1. /\ c \in Nat /\ (e > 0 => c <= b) /\ (a + e)..c = {} /\ c = a + e - 1
      /\ \A x \in a..c : x \in a..b
  OBVIOUS
<1> HIDE DEF c
<1>2. Span(a, c)
  BY <1>1 DEF Span
<1>3. Parts({k \in Line : k >= at'}, a, c, e)
  BY <1>1 DEF Parts
<1>4. \/ queue' = queue
      \/ \E t \in Tasks : queue' = Append(queue, t) /\ Remains(t, a, c, e)
  BY EmptyTask
<1> QED
  BY <1>1, <1>2, <1>3, <1>4, Handled

\* A file's span: what the flow does not take of it may be queued.
LEMMA FileRemains ==
  ASSUME TypeOK, TypeOK', InOrder, Kept, batch' = batch, at' \in {at, at + 1},
         NEW a \in 1..(MaxBytes + 1), NEW b \in 0..MaxBytes, Span(a, b),
         SendFileInLoop(a, b),
         \A x \in a..b : given'[x] = "file",
         \A k \in Line : k >= at' =>
           \A y \in R(k), x \in a..b : Fits(x, y)' /\ Fits(y, x)'
  PROVE  InOrder'
<1>1. PICK e \in Nat :
        /\ Grows(a, e) /\ (e > 0 => a + e - 1 <= b)
        /\ \/ queue' = queue
           \/ queue' = Append(queue, Task("writeComplete"))
           \/ /\ a + e \in 1..(MaxBytes + 1)
              /\ queue' = Append(queue, DataTask("sendFileInLoop", a + e, b))
  BY SendFileInLoopFlow
<1>2. /\ a \in Nat /\ b \in Nat
      /\ \A x \in a..(a + e - 1) : x \in a..b
      /\ \A x \in (a + e)..b : x \in a..b
  BY <1>1
<1>3. Parts({k \in Line : k >= at'}, a, b, e)
  BY <1>1, <1>2 DEF Parts
<1>4. \/ queue' = queue
      \/ \E t \in Tasks : queue' = Append(queue, t) /\ Remains(t, a, b, e)
  <2>1. CASE queue' = Append(queue, Task("writeComplete"))
    BY <2>1, EmptyTask DEF Ops
  <2>2. CASE /\ a + e \in 1..(MaxBytes + 1)
             /\ queue' = Append(queue, DataTask("sendFileInLoop", a + e, b))
    <3> DEFINE t == DataTask("sendFileInLoop", a + e, b)
    <3>1. t \in Tasks
      BY <2>2, TasksAreTasks DEF Ops
    <3>2. t.first = a + e /\ t.last = b /\ t.op = "sendFileInLoop"
      BY DEF DataTask
    <3> HIDE DEF t
    <3>3. Remains(t, a, b, e)
      BY <1>2, <3>2 DEF Remains
    <3> QED
      BY <2>2, <3>1, <3>3 DEF t
  <2> QED
    BY <1>1, <2>1, <2>2
<1> QED
  BY <1>1, <1>2, <1>3, <1>4, Handled

\* Bytes of another thread's call are queued with the task, or lost with the
\* loop.
LEMMA ThreadQueues ==
  ASSUME TypeOK, TypeOK', InOrder,
         NEW n \in (IF accepted < MaxBytes THEN 1..(MaxBytes - accepted)
                    ELSE {0}),
         NEW op \in {"sendInLoop", "sendFileInLoop"},
         NEW by \in Threads \cup {"file"},
         by \in Threads <=> op = "sendInLoop",
         Accept(n, by), UNCHANGED <<sent, outputBuffer, batch, at>>,
         RunInLoop(DataTask(op, accepted + 1, accepted + n))
  PROVE  InOrder'
<1> DEFINE a == accepted + 1
           b == accepted + n
<1>1. accepted \in Nat /\ accepted <= MaxBytes
  BY LenProperties DEF TypeOK, accepted
<1>2. /\ n \in Nat /\ n <= MaxBytes - accepted
      /\ by \in {"loop", "file"} \cup Threads
      /\ a = accepted + 1 /\ b = accepted + n
  BY <1>1
<1> HIDE DEF a, b
<1>3. /\ Kept /\ Span(a, b)
      /\ a \in 1..(MaxBytes + 1) /\ b \in 0..MaxBytes
      /\ \A x \in a..b : given'[x] = by
      /\ \A k \in Line : \A y \in R(k), x \in a..b : Fits(y, x)'
  BY <1>2, FreshSpan
<1>4. Grows(a, 0)
  <2>1. flow' = flow /\ Len(flow) \in Nat
    BY FlowTypes DEF flow, FlowSizes
  <2> QED
    BY <2>1 DEF Grows
<1>5. a \in Nat /\ b \in Nat /\ a..(a + 0 - 1) = {} /\ a + 0 = a
  BY <1>3
<1>6. Parts({k \in Line : k >= at'}, a, b, 0)
  BY <1>3, <1>4, <1>5 DEF Parts
<1> DEFINE t == DataTask(op, a, b)
<1>7. t \in Tasks /\ t.op = op /\ t.first = a /\ t.last = b
  BY <1>3, TasksAreTasks DEF DataTask, Ops, RawOps
<1>8. queue' = queue \/ queue' = Append(queue, t)
  BY DEF RunInLoop, a, b
<1> HIDE DEF t
<1>9. Remains(t, a, b, 0)
  BY <1>3, <1>5, <1>7 DEF Remains
<1> QED
  BY <1>3, <1>5, <1>6, <1>7, <1>8, <1>9, Handled

-----------------------------------------------------------------------------
(* SendOrder                                                               *)

\* The queue becomes the batch, which was empty.
LEMMA StartBatchOrder ==
  ASSUME TypeOK, TypeOK', InOrder, StartBatch, batch = <<>>,
         UNCHANGED <<sent, outputBuffer, given>>
  PROVE  InOrder'
<1>1. /\ Len(batch) = 0 /\ at = 1 /\ Len(queue) \in Nat /\ Len(queue') = 0
      /\ batch' = queue /\ at' = 1
  BY FlowTypes, EmptySeq DEF StartBatch, FlowSizes
<1>2. ASSUME NEW k \in Line' PROVE k + 0 \in Line /\ W(k)' = W(k + 0)
  <2>1. k \in 1..Len(queue)
    BY <1>1 DEF Line
  <2> QED
    BY <1>1, <2>1 DEF Line, W
<1> QED
  BY <1>2, Shifted

LEMMA EndBatchOrder ==
  ASSUME TypeOK, TypeOK', InOrder, EndBatch
  PROVE  InOrder'
<1>1. /\ Len(batch) \in Nat /\ at \in Nat /\ at <= Len(batch) + 1
      /\ Len(queue) \in Nat
  BY FlowTypes DEF FlowSizes
<1>2. /\ at = Len(batch) + 1 /\ Len(batch') = 0 /\ queue' = queue /\ at' = 1
  BY <1>1, EmptySeq DEF EndBatch
<1>3. ASSUME NEW k \in Line'
      PROVE  k + Len(batch) \in Line /\ W(k)' = W(k + Len(batch))
  <2>1. k \in 1..Len(queue)
    BY <1>1, <1>2 DEF Line
  <2> DEFINE l == k + Len(batch)
  <2>2. /\ ~(k <= 0) /\ k - 0 = k
        /\ ~(l <= Len(batch)) /\ l - Len(batch) = k /\ l \in Line
    BY <1>1, <1>2, <2>1 DEF Line
  <2> HIDE DEF l
  <2>3. W(k)' = queue[k]
    BY <1>2, <2>2 DEF W
  <2>4. W(l) = queue[k]
    BY <2>2 DEF W
  <2> QED
    BY <2>2, <2>3, <2>4 DEF l
<1> QED
  BY <1>1, <1>3, Shifted DEF EndBatch

LEMMA StopLoopOrder ==
  ASSUME TypeOK, TypeOK', InOrder, StopLoop
  PROVE  InOrder'
<1>1. /\ batch = <<>> /\ batch' = <<>> /\ queue' = <<>> /\ at' = at
      /\ at \in Nat /\ 1 <= at
  BY FlowTypes DEF StopLoop, TypeOK, FlowSizes
<1>2. Line' = {}
  BY <1>1, EmptySeq DEF Line
<1> QED
  BY <1>2, Shifted DEF StopLoop

\* The application's callbacks send and send files.
LEMMA CallbackOrder ==
  ASSUME TypeOK, TypeOK', InOrder, NEW n \in 1..(MaxBytes - accepted),
         Send(n) \/ SendFile(n)
  PROVE  InOrder'
<1> DEFINE a == accepted + 1
           b == accepted + n
<1>1. accepted \in Nat /\ accepted <= MaxBytes
  BY LenProperties DEF TypeOK, accepted
<1>2. /\ n \in Nat /\ n <= MaxBytes - accepted
      /\ a = accepted + 1 /\ b = accepted + n
  BY <1>1
<1>3. /\ Send(n) => Accept(n, "loop") /\ SendInLoop(a, b)
      /\ SendFile(n) => Accept(n, "file") /\ SendFileInLoop(a, b)
      /\ batch' = batch /\ at' \in {at, at + 1}
  BY DEF Send, SendFile
<1> HIDE DEF a, b
<1>4. CASE Send(n)
  <2>1. /\ Kept /\ Span(a, b)
        /\ a \in 1..(MaxBytes + 1) /\ b \in 0..MaxBytes
        /\ \A k \in Line : \A y \in R(k), x \in a..b : Fits(x, y)'
    <3>1. "loop" \notin Threads
      OBVIOUS
    <3> QED
      BY <1>2, <1>3, <1>4, <3>1, FreshSpan
  <2>2. /\ \E e \in Nat : Grows(a, e) /\ (e > 0 => a + e - 1 <= b)
        /\ queue' = queue \/ \E op \in Ops : queue' = Append(queue, Task(op))
    BY <1>3, <1>4, <2>1, SendInLoopFlow
  <2>3. a \in Nat \ {0} /\ b \in Nat
    BY <2>1
  <2> QED
    BY <1>3, <2>1, <2>2, <2>3, NothingRemains
<1>5. CASE SendFile(n)
  <2>1. /\ Kept /\ Span(a, b)
        /\ a \in 1..(MaxBytes + 1) /\ b \in 0..MaxBytes
        /\ \A x \in a..b : given'[x] = "file"
        /\ \A k \in Line : \A y \in R(k), x \in a..b : Fits(y, x)'
        /\ \A k \in Line : \A y \in R(k), x \in a..b : Fits(x, y)'
    <3>1. "file" \notin Threads
      OBVIOUS
    <3> QED
      BY <1>2, <1>3, <1>5, <3>1, FreshSpan
  <2> QED
    BY <1>3, <1>5, <2>1, FileRemains
<1> QED
  BY <1>4, <1>5

\* sendInLoop, shutdownInLoop and sendFileInLoop as callbacks of the batch.
LEMMA TaskOrder ==
  ASSUME TypeOK, TypeOK', InOrder, RunRaw \/ RunSendFile
  PROVE  InOrder'
<1> DEFINE a == batch[at].first
           b == batch[at].last
<1>1. \E ops : AtTask(ops)
  BY DEF RunRaw, RunSendFile
<1>2. /\ a \in 1..(MaxBytes + 1) /\ b \in 0..MaxBytes
      /\ UNCHANGED <<batch, given>> /\ at' = at + 1
  BY <1>1, CurrentTask DEF RunRaw, RunSendFile, NextTask
<1>3. a = batch[at].first /\ b = batch[at].last
  OBVIOUS
<1> HIDE DEF a, b
<1>4. /\ Kept /\ Span(a, b)
      /\ \A k \in Line : k >= at' => \A y \in R(k), x \in a..b : Fits(x, y)'
      /\ batch[at].op # "sendInLoop" =>
           /\ \A x \in a..b : given'[x] = "file"
           /\ \A k \in Line : k >= at' =>
                \A y \in R(k), x \in a..b : Fits(y, x)'
  BY <1>1, <1>2, <1>3, CurrentSpan
<1>5. CASE RunRaw /\ batch[at].op = "sendInLoop"
  <2>1. SendInLoop(a, b)
    BY <1>3, <1>5 DEF RunRaw
  <2>2. /\ \E e \in Nat : Grows(a, e) /\ (e > 0 => a + e - 1 <= b)
        /\ queue' = queue \/ \E op \in Ops : queue' = Append(queue, Task(op))
    BY <1>2, <2>1, SendInLoopFlow
  <2>3. a \in Nat \ {0} /\ b \in Nat
    BY <1>2
  <2> QED
    BY <1>2, <1>4, <2>2, <2>3, NothingRemains
<1>6. CASE RunRaw /\ batch[at].op # "sendInLoop"
  BY <1>2, <1>6, Untouched DEF RunRaw
<1>7. CASE RunSendFile
  <2>1. SendFileInLoop(a, b) /\ batch[at].op # "sendInLoop"
    BY <1>3, <1>7 DEF RunSendFile, AtTask
  <2> QED
    BY <1>2, <1>4, <2>1, FileRemains
<1> QED
  BY <1>5, <1>6, <1>7

\* handleWrite moves bytes within the flow.
LEMMA HandleWriteOrder ==
  ASSUME TypeOK, TypeOK', InOrder, HandleWrite
  PROVE  InOrder'
<1>1. flow' = flow /\ Len(flow) \in Nat
  BY HandleWriteFlow, FlowTypes DEF FlowSizes
<1>2. UNCHANGED <<batch, at, given>>
  BY DEF HandleWrite
<1>3. Kept /\ Span(1, 0) /\ Parts({k \in Line : k >= at'}, 1, 0, 0)
  <2>1. Kept
    BY <1>2, LenProperties DEF Kept, accepted, TypeOK
  <2>2. Grows(1, 0)
    BY <1>1 DEF Grows
  <2> QED
    BY <2>1, <2>2 DEF Span, Parts
<1>4. queue' = queue \/ queue' = Append(queue, Task("writeComplete"))
  BY DEF HandleWrite, Drained
<1>5. \/ queue' = queue
      \/ \E t \in Tasks : queue' = Append(queue, t) /\ Remains(t, 1, 0, 0)
  BY <1>4, EmptyTask DEF Ops
<1>6. 0 \in Nat /\ 1 \in Nat
  OBVIOUS
<1> QED
  BY <1>2, <1>3, <1>5, <1>6, Handled

LEMMA InOrderStep == TypeOK /\ TypeOK' /\ InOrder /\ [Next]_vars => InOrder'
<1> SUFFICES ASSUME TypeOK, TypeOK', InOrder, [Next]_vars PROVE InOrder'
  OBVIOUS
<1>1. ASSUME UNCHANGED <<sent, outputBuffer, given, batch>>,
             at' \in {at, at + 1},
             \/ queue' = queue
             \/ queue' = Append(queue, Task("connectDestroyed"))
             \/ queue' = Append(queue, Task("shutdownInLoop"))
      PROVE  InOrder'
  <2>1. "connectDestroyed" \in Ops /\ "shutdownInLoop" \in Ops
    BY DEF Ops, RawOps
  <2> QED
    BY <1>1, <2>1, Untouched
<1>2. CASE Poll
  <2>1. CASE UNCHANGED <<queue, batch, at>>
    BY <1>1, <1>2, <2>1 DEF Poll
  <2>2. CASE ~UNCHANGED <<queue, batch, at>>
    <3>1. StartBatch /\ batch = <<>> /\ UNCHANGED <<sent, outputBuffer, given>>
      BY <1>2, <2>2 DEF Poll, TypeOK
    <3> QED
      BY <3>1, StartBatchOrder
  <2> QED
    BY <2>1, <2>2
<1>3. CASE HandleHup \/ HandleError \/ HandleRead
  BY <1>1, <1>3 DEF HandleHup, HandleError, HandleRead
<1>4. CASE HandleWrite
  BY <1>4, HandleWriteOrder
<1>5. CASE EndEvents
  <2>1. StartBatch /\ batch = <<>> /\ UNCHANGED <<sent, outputBuffer, given>>
    BY <1>5 DEF EndEvents, TypeOK
  <2> QED
    BY <2>1, StartBatchOrder
<1>6. CASE RunEstablished \/ RunDestroyed \/ DestroyConnected \/ RunCallback
  BY <1>1, <1>6
  DEF RunEstablished, RunDestroyed, DestroyConnected, RunCallback, NextTask
<1>7. CASE RunRaw \/ RunSendFile
  BY <1>7, TaskOrder
<1>8. CASE EndBatch
  BY <1>8, EndBatchOrder
<1>9. CASE EndStep
  BY <1>1, <1>9 DEF EndStep, EndCallback, EndDownClosed, EndDownDestroyed
<1>10. ASSUME NEW n \in 1..(MaxBytes - accepted), Send(n) \/ SendFile(n)
       PROVE  InOrder'
  BY <1>10, CallbackOrder
<1>11. CASE Shutdown
  BY <1>1, <1>11 DEF Shutdown
<1>12. ASSUME NEW t \in Threads,
              FinishCall(t) \/ Release(t) \/ \E op \in ThreadOps : Call(t, op)
       PROVE  InOrder'
  <2>1. ASSUME NEW n \in (IF accepted < MaxBytes THEN 1..(MaxBytes - accepted)
                          ELSE {0}),
               QueueSend(t, n) \/ QueueSendFile(t, n)
        PROVE  InOrder'
    <3>1. UNCHANGED <<sent, outputBuffer, batch, at>>
      BY <2>1 DEF QueueSend, QueueSendFile
    <3>2. CASE QueueSend(t, n)
      <4>1. /\ Accept(n, t)
            /\ RunInLoop(DataTask("sendInLoop", accepted + 1, accepted + n))
        BY <3>2 DEF QueueSend
      <4> QED
        BY <3>1, <4>1, ThreadQueues
    <3>3. CASE QueueSendFile(t, n)
      <4>1. /\ Accept(n, "file")
            /\ RunInLoop(DataTask("sendFileInLoop", accepted + 1, accepted + n))
        BY <3>3 DEF QueueSendFile
      <4>2. "file" \notin Threads
        OBVIOUS
      <4> QED
        BY <3>1, <4>1, <4>2, ThreadQueues
    <3> QED
      BY <2>1, <3>2, <3>3
  <2>2. CASE SetDisconnecting(t) \/ QueueShutdown(t) \/ Release(t)
             \/ \E op \in ThreadOps : Call(t, op)
    BY <1>1, <2>2 DEF SetDisconnecting, QueueShutdown, Release, Call, RunInLoop
  <2> QED
    BY <1>12, <2>1, <2>2 DEF FinishCall
<1>13. CASE PeerSend \/ PeerFin \/ PeerReset \/ UNCHANGED vars
  BY <1>1, <1>13 DEF PeerSend, PeerFin, PeerReset
<1>14. CASE RemoveConnectionInLoop \/ DestroyServer
  BY <1>1, <1>14 DEF RemoveConnectionInLoop, DestroyServer
<1>15. CASE StopLoop
  BY <1>15, StopLoopOrder
<1> QED
  BY <1>2, <1>3, <1>4, <1>5, <1>6, <1>7, <1>8, <1>9, <1>10, <1>11, <1>12,
     <1>13, <1>14, <1>15
  DEF Next, LoopStep, EventStep, BatchStep, CallbackStep

LEMMA InitInOrder == Init => InOrder
<1> SUFFICES ASSUME Init PROVE InOrder
  OBVIOUS
<1>1. /\ flow = <<>> \o <<>> /\ batch = <<>> /\ at = 1
      /\ queue = <<Task("connectEstablished")>>
  BY DEF Init, flow
<1>2. Len(flow) = 0 /\ Len(batch) = 0 /\ Len(queue) = 1
  BY <1>1
<1>3. Line = {1} /\ W(1) = Task("connectEstablished")
  BY <1>1, <1>2 DEF Line, W
<1>4. R(1) = {}
  BY <1>3 DEF R, Task
<1> QED
  BY <1>2, <1>3, <1>4 DEF InOrder, Numbered, Owned, Ordered

\* No byte goes out twice, and the bytes one thread gave to send() go out in
\* the order in which it gave them, written at once, buffered or queued.
THEOREM SendOrderHolds == Spec => []SendOrder
<1>1. TypeOK /\ InOrder => SendOrder
  <2> SUFFICES ASSUME TypeOK, InOrder,
                      NEW i \in 1..Len(sent), NEW j \in 1..Len(sent), i < j
               PROVE  /\ sent[i] # sent[j]
                      /\ given[sent[i]] = given[sent[j]]
                           /\ given[sent[i]] # "file" => sent[i] < sent[j]
    BY DEF SendOrder
  <2>1. Joined(sent, outputBuffer, flow)
    BY Joins DEF flow, TypeOK
  <2>2. /\ i \in 1..Len(flow) /\ j \in 1..Len(flow)
        /\ flow[i] = sent[i] /\ flow[j] = sent[j]
    BY <2>1 DEF Joined
  <2>3. Fits(flow[i], flow[j])
    BY <2>2 DEF InOrder, Ordered
  <2> QED
    BY <2>2, <2>3 DEF Fits
<1>2. Spec => []TypeOK
  BY TypeCorrect
<1>3. Spec => []InOrder
  BY <1>2, InitInOrder, InOrderStep, PTL DEF Spec
<1> QED
  BY <1>1, <1>2, <1>3, PTL
=============================================================================
