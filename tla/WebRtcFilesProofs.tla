-------------------------- MODULE WebRtcFilesProofs --------------------------
(***************************************************************************)
(* WebRtcTransfer implements FileTransfer, and keeps the chunks of every   *)
(* file in order: proofs for any files, sizes, PINs, selections, faults.   *)
(*                                                                         *)
(* The argument is about the queue of the receiver's task: what comes next *)
(* in it, after the file the receiver has open or after any message, is    *)
(* either the next chunk of the same file or a sign that the file is whole.*)
(***************************************************************************)
EXTENDS WebRtcTransferProofs

\* What the receiver's task has still to read, in order.
Queue == inbox[R] \o wire[R]

IsFile(m) == m.type \in {"Header", "Chunk"}
\* Chunks of its file up to a message.
CountOf(m) == IF m.type = "Chunk" THEN m.n ELSE 0
\* The file whose outcome the receiving app owes or has reported.
Current == IF task[R] = "result" THEN last_file ELSE file_state
Ended == {"ok", "err"}

\* The file has gone out with n chunks.
Sent(x, n) == x \in whole /\ given[x] = n
\* What may come after n chunks of file x: a message, or the sender's next step.
Follows(x, n, m) == IF m.type = "Chunk" THEN m.id = x /\ m.n = n + 1 ELSE Sent(x, n)
AtEnd(x, n) ==
  IF task[S] = "file" THEN sending = x /\ given[x] = n ELSE Sent(x, n) \/ ~CanSend(S)
Then(i, x, n) == IF i < Len(Queue) THEN Follows(x, n, Queue[i + 1]) ELSE AtEnd(x, n)

\* The slots between the tasks and the apps hold one file at most.
Slots ==
  /\ feed = <<>> \/ \E x \in File : feed = <<x>> /\ x \in fed
  /\ receiving = <<>> \/ \E x \in File : receiving = <<x>> /\ reader[x] = "none"
  /\ reader = [x \in File |-> reader[x]]
  /\ given \in [File -> Nat] /\ got \in [File -> Nat] /\ whole \subseteq File
  /\ main = [e \in End |-> main[e]]

\* Of the app only the current file is owed anything, and in one place only: the slot
\* for the app, the app itself, or the slot for its report.
Own ==
  /\ file_state # None => task[R] = "files" /\ file_state \in File
  /\ task[R] = "result" => last_file \in File
  /\ task[R] \notin Ended =>
       /\ receiving # <<>> =>
            receiving = <<Current>> /\ outcome = <<>> /\ \A x \in File : reader[x] # "reading"
       /\ \A x \in File : reader[x] = "reading" => x = Current /\ outcome = <<>>
       /\ outcome # <<>> => Current \in File /\ \E ok \in BOOLEAN : outcome = <<[id |-> Current, success |-> ok]>>

\* Before the selection arrives no file is under way.
Before ==
  /\ published # None => task[S] \in Feeding \cup Ended
  /\ published = None => file_state = None /\ \A i \in 1..Len(Queue) : ~IsFile(Queue[i])

\* A header that is still to be read begins a file the receiver knows nothing of, and a
\* chunk has been counted by the sender.
Unread(m) ==
  /\ IsFile(m) => m.id \in File
  /\ m.type = "Header" =>
       /\ got[m.id] = 0 /\ m.id \notin answered \cup {file_state, last_file}
       /\ reader[m.id] = "none" /\ receiving # <<m.id>>
  /\ m.type = "Chunk" => m.n \in Nat /\ m.n <= given[m.id]
Alike(m, n) == m.type = "Header" /\ n.type = "Header" /\ m.id = n.id
Fresh ==
  /\ \A i \in 1..Len(Queue) : Unread(Queue[i])
  /\ \A i, j \in 1..Len(Queue) : Alike(Queue[i], Queue[j]) => i = j

Linked ==
  /\ \A i \in 1..Len(Queue) : IsFile(Queue[i]) => Then(i, Queue[i].id, CountOf(Queue[i]))
  /\ file_state # None => Then(0, file_state, got[file_state])

\* No file is sent twice: the sending app hands each over once.
Started(x) ==
  \/ \E i \in 1..Len(Queue) : Alike(Queue[i], Header(x))
  \/ x \in {file_state, last_file} \cup answered \cup whole \/ receiving = <<x>>
  \/ got[x] > 0 \/ given[x] > 0 \/ reader[x] # "none" \/ (task[S] = "file" /\ x = sending)
Once == \A x \in File : Started(x) => x \in fed /\ feed # <<x>>

\* The sender works on one file at a time, and the receiver gets no more than was sent.
InTurn ==
  /\ task[S] = "file" => sending \in File \ whole
  /\ CanSend(S) => \A x \in File : given[x] > 0 => x \in whole \/ (task[S] = "file" /\ x = sending)
  /\ \A x \in File : got[x] <= given[x]

\* The receiver has open and answers only what was selected, once, and answers for a
\* file it has all of.
Answering ==
  /\ file_state # None => selection # None /\ file_state \in selection \ answered
  /\ task[R] = "result" =>
       /\ selection # None /\ last_file \in (selection \cap whole) \ answered
       /\ got[last_file] = given[last_file]

FileInv == Slots /\ Own /\ Before /\ Fresh /\ Linked /\ Once /\ InTurn /\ Answering

-----------------------------------------------------------------------------
(* The queue.                                                               *)

LEMMA Concat ==
  \A M : \A s, t \in Seq(M) :
    /\ s \o t \in Seq(M) /\ Len(s) \in Nat /\ Len(t) \in Nat /\ Len(s \o t) = Len(s) + Len(t)
    /\ \A i \in 1..Len(s \o t) : (s \o t)[i] = IF i <= Len(s) THEN s[i] ELSE t[i - Len(s)]
<1> SUFFICES ASSUME NEW M, NEW s \in Seq(M), NEW t \in Seq(M)
             PROVE  /\ s \o t \in Seq(M) /\ Len(s) \in Nat /\ Len(t) \in Nat
                    /\ Len(s \o t) = Len(s) + Len(t)
                    /\ \A i \in 1..Len(s \o t) :
                         (s \o t)[i] = IF i <= Len(s) THEN s[i] ELSE t[i - Len(s)]
  OBVIOUS
<1>1. Len(s) \in Nat /\ Len(t) \in Nat
  OBVIOUS
<1> QED BY <1>1, ConcatProperties

LEMMA Single == \A M : \A m \in M : <<m>> \in Seq(M) /\ Len(<<m>>) = 1 /\ <<m>>[1] = m
  OBVIOUS

LEMMA Regroup == \A M : \A s, t, u \in Seq(M) : (s \o t) \o u = s \o (t \o u)
  BY ConcatAssociative

LEMMA Beheaded ==
  \A M : \A s \in Seq(M) : s # <<>> =>
    /\ Head(s) \in M /\ Head(s) = s[1] /\ Tail(s) \in Seq(M)
    /\ Len(s) \in Nat /\ Len(s) > 0 /\ Len(Tail(s)) = Len(s) - 1
    /\ \A i \in 1..Len(Tail(s)) : Tail(s)[i] = s[i + 1]
<1> SUFFICES ASSUME NEW M, NEW s \in Seq(M), s # <<>>
             PROVE  /\ Head(s) \in M /\ Head(s) = s[1] /\ Tail(s) \in Seq(M)
                    /\ Len(s) \in Nat /\ Len(s) > 0 /\ Len(Tail(s)) = Len(s) - 1
                    /\ \A i \in 1..Len(Tail(s)) : Tail(s)[i] = s[i + 1]
  OBVIOUS
<1>1. Len(s) \in Nat /\ Len(s) > 0 /\ Head(s) = s[1]
  BY EmptySeq
<1> QED BY <1>1, HeadTailProperties

LEMMA HeadFirst ==
  \A M : \A w, h \in Seq(M) : w # <<>> /\ h = <<Head(w)>> => h \o Tail(w) = w
<1> SUFFICES ASSUME NEW M, NEW w \in Seq(M), NEW h \in Seq(M), w # <<>>, h = <<Head(w)>>
             PROVE  h \o Tail(w) = w
  OBVIOUS
<1>1. h \o Tail(w) \in Seq(M) /\ Len(h \o Tail(w)) = Len(w)
  BY Concat, Beheaded
<1>2. ASSUME NEW i \in 1..Len(w) PROVE w[i] = (h \o Tail(w))[i]
  <2>1. /\ Len(h) = 1 /\ h[1] = w[1] /\ Len(w) \in Nat /\ Len(Tail(w)) = Len(w) - 1
        /\ \A j \in 1..Len(Tail(w)) : Tail(w)[j] = w[j + 1]
    BY Beheaded
  <2>2. (h \o Tail(w))[i] = IF i <= 1 THEN h[i] ELSE Tail(w)[i - 1]
    BY <1>1, <2>1, Concat, Beheaded
  <2>3. CASE i = 1
    BY <2>1, <2>2, <2>3
  <2>4. CASE i # 1
    <3>1. i - 1 \in 1..Len(Tail(w)) /\ (i - 1) + 1 = i /\ ~(i <= 1)
      BY <2>1, <2>4
    <3> QED BY <2>1, <2>2, <3>1
  <2> QED BY <2>3, <2>4
<1> QED BY <1>1, <1>2, SeqEqual

LEMMA ReadPlaces ==
  \A M : \A s, t \in Seq(M) : s # <<>> =>
    /\ Len(s \o t) \in Nat /\ Len(s \o t) > 0 /\ (s \o t)[1] = Head(s)
    /\ Len(Tail(s) \o t) = Len(s \o t) - 1
    /\ \A i \in 1..Len(Tail(s) \o t) : i + 1 \in 1..Len(s \o t) /\ (Tail(s) \o t)[i] = (s \o t)[i + 1]
<1> SUFFICES ASSUME NEW M, NEW s \in Seq(M), NEW t \in Seq(M), s # <<>>,
                    NEW q, q = s \o t, NEW r, r = Tail(s) \o t
             PROVE  /\ Len(q) \in Nat /\ Len(q) > 0 /\ q[1] = Head(s) /\ Len(r) = Len(q) - 1
                    /\ \A i \in 1..Len(r) : i + 1 \in 1..Len(q) /\ r[i] = q[i + 1]
  OBVIOUS
<1>1. /\ Len(s) \in Nat /\ Len(t) \in Nat /\ Len(q) = Len(s) + Len(t)
      /\ \A i \in 1..Len(q) : q[i] = IF i <= Len(s) THEN s[i] ELSE t[i - Len(s)]
  BY Concat
<1>2. PICK u \in Seq(M) : u = Tail(s)
  BY Beheaded
<1>3. /\ Len(s) > 0 /\ Head(s) = s[1] /\ Len(u) = Len(s) - 1
      /\ \A i \in 1..Len(u) : u[i] = s[i + 1]
  BY <1>2, Beheaded
<1>4. /\ Len(r) = Len(u) + Len(t)
      /\ \A i \in 1..Len(r) : r[i] = IF i <= Len(u) THEN u[i] ELSE t[i - Len(u)]
  BY <1>2, Concat
<1>5. ASSUME NEW i \in 1..Len(r) PROVE i + 1 \in 1..Len(q) /\ r[i] = q[i + 1]
  <2>1. i + 1 \in 1..Len(q) /\ i \in Nat /\ i >= 1
    BY <1>1, <1>3, <1>4
  <2>2. CASE i <= Len(u)
    <3>1. i + 1 <= Len(s) /\ i \in 1..Len(u)
      BY <1>1, <1>3, <2>1, <2>2
    <3> QED BY <1>1, <1>3, <1>4, <2>1, <2>2, <3>1
  <2>3. CASE ~(i <= Len(u))
    <3>1. ~(i + 1 <= Len(s)) /\ i - Len(u) = (i + 1) - Len(s)
      BY <1>1, <1>3, <2>1, <2>3
    <3> QED BY <1>1, <1>4, <2>1, <2>3, <3>1
  <2> QED BY <2>1, <2>2, <2>3
<1>6. 1 \in 1..Len(q) /\ q[1] = Head(s)
  BY <1>1, <1>3
<1> QED BY <1>1, <1>3, <1>4, <1>5, <1>6

LEMMA Queues ==
  ASSUME Channels
  PROVE  \E M : inbox[R] \in Seq(M) /\ wire[R] \in Seq(M) /\ M = ToRead(R)
BY Ends, SeqMonotonic DEF Channels, IsSeq, ToRead

LEMMA QueueIsSeq ==
  ASSUME Channels
  PROVE  Queue \in Seq(ToRead(R)) /\ Len(Queue) \in Nat
<1>1. PICK M : inbox[R] \in Seq(M) /\ wire[R] \in Seq(M) /\ M = ToRead(R)
  BY Queues
<1> QED BY <1>1, Concat DEF Queue

\* A message that a task of the receiver reads is the first of the queue.
Drops ==
  /\ Len(Queue) \in Nat /\ Len(Queue) > 0 /\ Queue[1] = Head(inbox[R])
  /\ Len(Queue') = Len(Queue) - 1
  /\ \A i \in 1..Len(Queue') : i + 1 \in 1..Len(Queue) /\ Queue'[i] = Queue[i + 1]

LEMMA QueueRead ==
  ASSUME Channels, inbox[R] # <<>>, Read(R), wire'[R] = wire[R]
  PROVE  Drops
<1>1. PICK M : inbox[R] \in Seq(M) /\ wire[R] \in Seq(M) /\ M = ToRead(R)
  BY Queues
<1>2. inbox'[R] = Tail(inbox[R])
  BY Ends DEF Channels, Read
<1>3. Queue = inbox[R] \o wire[R] /\ Queue' = Tail(inbox[R]) \o wire[R]
  BY <1>2 DEF Queue
<1>4. PICK s \in Seq(M) : s = inbox[R]
  BY <1>1
<1>5. PICK t \in Seq(M) : t = wire[R]
  BY <1>1
<1>6. s # <<>> /\ Queue = s \o t /\ Queue' = Tail(s) \o t /\ Head(inbox[R]) = Head(s)
  BY <1>3, <1>4, <1>5
<1>7. PICK q : q = s \o t
  OBVIOUS
<1>8. PICK r : r = Tail(s) \o t
  OBVIOUS
<1>9. /\ Len(q) \in Nat /\ Len(q) > 0 /\ q[1] = Head(s)
      /\ Len(r) = Len(q) - 1
      /\ \A i \in 1..Len(r) : i + 1 \in 1..Len(q) /\ r[i] = q[i + 1]
  BY <1>6, <1>7, <1>8, ReadPlaces
<1>10. Queue = q /\ Queue' = r
  BY <1>6, <1>7, <1>8
<1> QED BY <1>6, <1>9, <1>10 DEF Drops

Adds(m) ==
  /\ Len(Queue) \in Nat /\ Len(Queue') = Len(Queue) + 1
  /\ \A i \in 1..Len(Queue) : Queue'[i] = Queue[i]
  /\ Queue'[Len(Queue) + 1] = m

LEMMA QueueSent ==
  ASSUME Channels, NEW m, Send(S, <<m>>), inbox'[R] = inbox[R]
  PROVE  Adds(m)
<1>1. PICK M : inbox[R] \in Seq(M) /\ wire[R] \in Seq(M) /\ m \in M
  <2>1. PICK N : inbox[R] \in Seq(N) /\ wire[R] \in Seq(N) /\ N = ToRead(R)
    BY Queues
  <2>2. inbox[R] \in Seq(N \cup {m}) /\ wire[R] \in Seq(N \cup {m})
    BY <2>1, SeqMonotonic
  <2> QED BY <2>2
<1>2. PICK t \in Seq(M) : t = <<m>>
  BY <1>1, Single
<1>3. wire'[R] = wire[R] \o t
  BY <1>2, Ends, Others DEF Channels, Send
<1>4. Queue' = Queue \o t /\ Queue \in Seq(M)
  <2>1. PICK b \in Seq(M) : b = inbox[R]
    BY <1>1
  <2>2. PICK w \in Seq(M) : w = wire[R]
    BY <1>1
  <2>3. (b \o w) \o t = b \o (w \o t) /\ b \o w \in Seq(M)
    BY Regroup, Concat
  <2> QED BY <1>3, <2>1, <2>2, <2>3 DEF Queue
<1>5. /\ Len(Queue) \in Nat /\ Len(Queue') = Len(Queue) + Len(t)
      /\ \A i \in 1..Len(Queue') : Queue'[i] = IF i <= Len(Queue) THEN Queue[i] ELSE t[i - Len(Queue)]
  BY <1>4, Concat
<1>6. Len(t) = 1 /\ t[1] = m
  BY <1>2
<1> QED BY <1>5, <1>6 DEF Adds

LEMMA QueueDelivered ==
  ASSUME Channels, NEW e \in End, Deliver(e)
  PROVE  Queue' = Queue
<1>1. /\ wire[e] # <<>> /\ inbox' = [inbox EXCEPT ![e] = Append(@, Head(wire[e]))]
      /\ wire' = [wire EXCEPT ![e] = Tail(@)]
  BY DEF Deliver
<1>2. CASE e = S
  BY <1>1, <1>2, Ends DEF Channels, Queue
<1>3. CASE e = R
  <2>1. PICK M : inbox[R] \in Seq(M) /\ wire[R] \in Seq(M) /\ M = ToRead(R)
    BY Queues
  <2>2. inbox'[R] = Append(inbox[R], Head(wire[R])) /\ wire'[R] = Tail(wire[R]) /\ wire[R] # <<>>
    BY <1>1, <1>3, Ends DEF Channels
  <2>3. PICK w \in Seq(M) : w = wire[R]
    BY <2>1
  <2>4. PICK b \in Seq(M) : b = inbox[R]
    BY <2>1
  <2>5. Head(w) \in M /\ Tail(w) \in Seq(M)
    BY <2>2, <2>3, Beheaded
  <2>6. PICK t \in Seq(M) : t = <<Head(w)>>
    BY <2>5, Single
  <2>7. w = t \o Tail(w)
    BY <2>2, <2>3, <2>6, HeadFirst
  <2>8. inbox'[R] = b \o t
    BY <2>2, <2>3, <2>4, <2>5, <2>6, AppendIsConcat
  <2>9. (b \o t) \o Tail(w) = b \o (t \o Tail(w))
    BY <2>5, Regroup
  <2> QED BY <2>2, <2>3, <2>4, <2>7, <2>8, <2>9 DEF Queue
<1> QED BY <1>2, <1>3, Ends

-----------------------------------------------------------------------------
(* What a change of the queue leaves of each part.                          *)

LEMMA LinkedRead ==
  ASSUME Linked, Drops, task'[S] = task[S], UNCHANGED <<sending, main, given, whole>>
  PROVE  /\ \A i \in 1..Len(Queue') : (IsFile(Queue[i]) => Then(i, Queue[i].id, CountOf(Queue[i])))'
         /\ \A x, n : Then(1, x, n) => Then(0, x, n)'
<1>1. \A x, n : AtEnd(x, n) => AtEnd(x, n)'
  BY DEF AtEnd, Sent, CanSend
<1>2. \A x, n, m : Follows(x, n, m) => Follows(x, n, m)'
  BY DEF Follows, Sent
<1>3. ASSUME NEW i \in 0..Len(Queue'), NEW x, NEW n, Then(i + 1, x, n) PROVE Then(i, x, n)'
  <2>1. CASE i < Len(Queue')
    <3>1. i + 1 \in 1..Len(Queue') /\ i + 1 < Len(Queue) /\ (i + 1) + 1 \in 1..Len(Queue)
          /\ Queue'[i + 1] = Queue[(i + 1) + 1]
      BY <2>1 DEF Drops
    <3>2. PICK m : m = Queue[(i + 1) + 1]
      OBVIOUS
    <3>3. Follows(x, n, m)'
      BY <1>2, <1>3, <3>1, <3>2 DEF Then
    <3> QED BY <2>1, <3>1, <3>2, <3>3 DEF Then, Follows, Sent
  <2>2. CASE ~(i < Len(Queue'))
    <3>1. ~(i + 1 < Len(Queue))
      BY <2>2 DEF Drops
    <3> QED BY <1>1, <1>3, <2>2, <3>1 DEF Then
  <2> QED BY <2>1, <2>2
<1>4. ASSUME NEW i \in 1..Len(Queue'), IsFile(Queue'[i])
      PROVE  Then(i, Queue[i].id, CountOf(Queue[i]))'
  <2>1. i + 1 \in 1..Len(Queue) /\ Queue'[i] = Queue[i + 1] /\ i \in 0..Len(Queue')
    BY DEF Drops
  <2>2. PICK x, n : x = Queue[i + 1].id /\ n = CountOf(Queue[i + 1])
    OBVIOUS
  <2>3. Then(i, x, n)'
    BY <1>3, <1>4, <2>1, <2>2 DEF Linked
  <2> QED BY <2>1, <2>2, <2>3 DEF Then, Follows, AtEnd, Sent
<1>5. ASSUME NEW x, NEW n, Then(1, x, n) PROVE Then(0, x, n)'
  <2>1. 0 \in 0..Len(Queue') /\ 0 + 1 = 1
    BY DEF Drops
  <2> QED BY <1>3, <1>5, <2>1
<1> QED BY <1>4, <1>5

LEMMA LinkedSent ==
  ASSUME Linked, NEW m, Adds(m), \A x, n : Sent(x, n) => Sent(x, n)',
         \A x, n : AtEnd(x, n) => Follows(x, n, m)',
         IsFile(m) => AtEnd(m.id, CountOf(m))',
         UNCHANGED <<file_state, got>>
  PROVE  Linked'
<1>1. ASSUME NEW i \in 0..Len(Queue), NEW x, NEW n, Then(i, x, n) PROVE Then(i, x, n)'
  <2>1. i < Len(Queue') /\ i + 1 \in 1..Len(Queue') /\ (i < Len(Queue) => i + 1 \in 1..Len(Queue))
    BY DEF Adds
  <2>2. PICK k : k = Queue'[i + 1]
    OBVIOUS
  <2>3. Follows(x, n, k)'
    <3>1. CASE i < Len(Queue)
      <4>1. Follows(x, n, k)
        BY <1>1, <2>1, <2>2, <3>1 DEF Then, Adds
      <4> QED BY <4>1 DEF Follows
    <3>2. CASE ~(i < Len(Queue))
      <4>1. i + 1 = Len(Queue) + 1 /\ k = m
        BY <2>2, <3>2 DEF Adds
      <4> QED BY <1>1, <3>2, <4>1 DEF Then
    <3> QED BY <3>1, <3>2
  <2> QED BY <2>1, <2>2, <2>3 DEF Then, Follows, Sent
<1>2. ASSUME NEW i \in 1..Len(Queue'), IsFile(Queue'[i])
      PROVE  Then(i, Queue[i].id, CountOf(Queue[i]))'
  <2>1. PICK x, n : x = Queue'[i].id /\ n = CountOf(Queue'[i])
    OBVIOUS
  <2>2. Then(i, x, n)'
    <3>1. CASE i <= Len(Queue)
      <4>1. i \in 1..Len(Queue) /\ i \in 0..Len(Queue) /\ Queue'[i] = Queue[i]
        BY <3>1 DEF Adds
      <4> QED BY <1>1, <1>2, <2>1, <4>1 DEF Linked
    <3>2. CASE ~(i <= Len(Queue))
      <4>1. i = Len(Queue) + 1 /\ ~(i < Len(Queue')) /\ Queue'[i] = m
        BY <3>2 DEF Adds
      <4> QED BY <1>2, <2>1, <4>1 DEF Then
    <3> QED BY <3>1, <3>2
  <2> QED BY <2>1, <2>2 DEF Then, Follows, AtEnd, Sent
<1>3. file_state' # None => Then(0, file_state, got[file_state])'
  <2> SUFFICES ASSUME file_state # None PROVE Then(0, file_state, got[file_state])'
    OBVIOUS
  <2>1. PICK x, n : x = file_state /\ n = got[file_state]
    OBVIOUS
  <2>2. Then(0, x, n)'
    <3>1. 0 \in 0..Len(Queue)
      BY DEF Adds
    <3> QED BY <1>1, <2>1, <3>1 DEF Linked
  <2> QED BY <2>1, <2>2 DEF Then, Follows, AtEnd, Sent
<1> QED BY <1>2, <1>3 DEF Linked

LEMMA LinkedSame ==
  ASSUME Linked, Queue' = Queue, \A x, n : Sent(x, n) => Sent(x, n)',
         \A x, n : AtEnd(x, n) => AtEnd(x, n)',
         UNCHANGED got, file_state' \in {file_state, None}
  PROVE  Linked'
<1>1. \A i, x, n : Then(i, x, n) => Then(i, x, n)'
  BY DEF Then, Follows
<1>2. ASSUME NEW i \in 1..Len(Queue'), IsFile(Queue'[i])
      PROVE  Then(i, Queue[i].id, CountOf(Queue[i]))'
  <2>1. PICK x, n : x = Queue[i].id /\ n = CountOf(Queue[i])
    OBVIOUS
  <2>2. Then(i, x, n)'
    BY <1>1, <1>2, <2>1 DEF Linked
  <2> QED BY <2>1, <2>2 DEF Then, Follows, AtEnd, Sent
<1>3. file_state' # None => Then(0, file_state, got[file_state])'
  <2> SUFFICES ASSUME file_state' # None PROVE Then(0, file_state, got[file_state])'
    OBVIOUS
  <2>1. PICK x, n : x = file_state /\ n = got[file_state]
    OBVIOUS
  <2>2. Then(0, x, n)'
    BY <1>1, <2>1 DEF Linked
  <2> QED BY <2>1, <2>2 DEF Then, Follows, AtEnd, Sent
<1> QED BY <1>2, <1>3 DEF Linked

LEMMA FreshRead ==
  ASSUME Fresh, Drops, \A i \in 2..Len(Queue) : \A m : m = Queue[i] => Unread(m)'
  PROVE  Fresh'
<1>1. \A i \in 1..Len(Queue') : i + 1 \in 2..Len(Queue) /\ i + 1 \in 1..Len(Queue) /\ Queue'[i] = Queue[i + 1]
  BY DEF Drops
<1>2. \A i \in 1..Len(Queue') : Unread(Queue[i])'
  BY <1>1 DEF Unread
<1>3. ASSUME NEW i \in 1..Len(Queue'), NEW j \in 1..Len(Queue'), Alike(Queue'[i], Queue'[j])
      PROVE  i = j
  <2>1. i + 1 = j + 1
    BY <1>1, <1>3 DEF Fresh
  <2> QED BY <2>1 DEF Drops
<1> QED BY <1>2, <1>3 DEF Fresh

LEMMA FreshSent ==
  ASSUME Fresh, NEW m, Adds(m), Unread(m)', \A n : Unread(n) => Unread(n)',
         \A i \in 1..Len(Queue) : ~Alike(Queue[i], m)
  PROVE  Fresh'
<1>1. \A i \in 1..Len(Queue') : \/ i \in 1..Len(Queue) /\ Queue'[i] = Queue[i]
                                \/ i = Len(Queue) + 1 /\ Queue'[i] = m
  BY DEF Adds
<1>2. \A i \in 1..Len(Queue') : Unread(Queue[i])'
  BY <1>1 DEF Fresh, Unread
<1>3. ASSUME NEW i \in 1..Len(Queue'), NEW j \in 1..Len(Queue'), Alike(Queue'[i], Queue'[j])
      PROVE  i = j
  <2>1. ~(\E k \in 1..Len(Queue) : Alike(Queue[k], m) \/ Alike(m, Queue[k]))
    BY DEF Alike
  <2> QED BY <1>1, <1>3, <2>1 DEF Fresh
<1> QED BY <1>2, <1>3 DEF Fresh

LEMMA FreshSame ==
  ASSUME Fresh, Queue' = Queue, \A m : Unread(m) => Unread(m)'
  PROVE  Fresh'
BY DEF Fresh

LEMMA OnceKept ==
  ASSUME Once, fed \subseteq fed', feed' \in {feed, <<>>}, \A x \in File : Started(x)' => Started(x)
  PROVE  Once'
<1>1. \A x \in File : <<x>> # <<>>
  OBVIOUS
<1> QED BY <1>1 DEF Once

-----------------------------------------------------------------------------
(* Before the files: nothing of one is under way.                           *)

fileVars == <<feed, fed, receiving, reader, outcome, file_state, last_file, given, whole, got, answered>>

LEMMA Members ==
  \A s, t : IsSeq(s) /\ IsSeq(t) => \A i \in 1..Len(s \o t) : (s \o t)[i] \in Range(t) \cup Range(s)
<1> SUFFICES ASSUME NEW s, NEW t, IsSeq(s), IsSeq(t), NEW i \in 1..Len(s \o t)
             PROVE  (s \o t)[i] \in Range(t) \cup Range(s)
  OBVIOUS
<1>1. PICK M : M = Range(t) \cup Range(s)
  OBVIOUS
<1>2. s \in Seq(M) /\ t \in Seq(M)
  BY <1>1, SeqMonotonic DEF IsSeq
<1>3. s \o t \in Seq(M)
  BY <1>2, Concat
<1> QED BY <1>1, <1>3

LEMMA ToReadHolds ==
  ASSUME Channels, NEW m \in ToRead(R)
  PROVE  \E i \in 1..Len(Queue) : Queue[i] = m
<1>1. PICK M : inbox[R] \in Seq(M) /\ wire[R] \in Seq(M)
  BY Queues
<1>2. PICK s \in Seq(M) : s = inbox[R]
  BY <1>1
<1>3. PICK t \in Seq(M) : t = wire[R]
  BY <1>1
<1>4. /\ Len(s) \in Nat /\ Len(t) \in Nat /\ Len(s \o t) = Len(s) + Len(t)
      /\ \A i \in 1..Len(s \o t) : (s \o t)[i] = IF i <= Len(s) THEN s[i] ELSE t[i - Len(s)]
  BY Concat
<1>5. Queue = s \o t
  BY <1>2, <1>3 DEF Queue
<1>6. CASE m \in Range(s)
  <2>1. PICK i \in 1..Len(s) : s[i] = m
    BY <1>6 DEF Range
  <2>2. i \in 1..Len(s \o t) /\ (s \o t)[i] = m
    BY <1>4, <2>1
  <2> QED BY <1>5, <2>2
<1>7. CASE m \in Range(t)
  <2>1. PICK i \in 1..Len(t) : t[i] = m
    BY <1>7 DEF Range
  <2>2. i + Len(s) \in 1..Len(s \o t) /\ ~(i + Len(s) <= Len(s)) /\ (i + Len(s)) - Len(s) = i
    BY <1>4, <2>1
  <2>3. (s \o t)[i + Len(s)] = m
    BY <1>4, <2>1, <2>2
  <2> QED BY <1>5, <2>2, <2>3
<1> QED BY <1>2, <1>3, <1>6, <1>7 DEF ToRead

LEMMA Early ==
  ASSUME ConsentInv, FileInv, Channels', published = None, UNCHANGED <<fileVars, main>>,
         \A m \in ToRead(R)' : m \in ToRead(R) \/ ~IsFile(m),
         task'[S] # "file", task'[R] # "result", task[R] \in Ended => task'[R] \in Ended,
         published' # None => task'[S] \in Feeding \cup Ended
  PROVE  FileInv'
<1> USE DEF fileVars
<1>1. /\ file_state = None /\ whole = {} /\ \A x \in File : given[x] = 0 /\ ~(given[x] > 0)
      /\ \A i \in 1..Len(Queue) : ~IsFile(Queue[i])
  <2>1. ASSUME NEW x \in File PROVE given[x] = 0 /\ ~(given[x] > 0)
    BY DEF ConsentInv, Moving, FileInv, Slots
  <2>2. whole = {}
    BY DEF ConsentInv, Moving, FileInv, Slots
  <2> QED BY <2>1, <2>2 DEF FileInv, Before
<1>2. task[R] # "result"
  BY <1>1 DEF FileInv, Answering
<1>3. \A i \in 1..Len(Queue') : ~IsFile(Queue'[i])
  <2>1. ASSUME NEW i \in 1..Len(Queue') PROVE ~IsFile(Queue'[i])
    <3>1. Queue'[i] \in ToRead(R)'
      BY Ends, Members DEF Channels, ToRead, Queue
    <3>2. Queue'[i] \notin ToRead(R) \/ \E j \in 1..Len(Queue) : Queue[j] = Queue'[i]
      BY ToReadHolds DEF ConsentInv
    <3> QED BY <1>1, <3>1, <3>2
  <2> QED BY <2>1
<1>4. Slots' /\ Before' /\ Answering'
  BY <1>1, <1>3 DEF FileInv, Slots, Before, Answering
<1>5. Own'
  BY <1>1, <1>2 DEF FileInv, Own, Current
<1>6. Fresh' /\ Linked'
  BY <1>1, <1>3 DEF Fresh, Unread, Linked, IsFile, Alike
<1>7. \A x \in File : Started(x)' => Started(x)
  BY <1>3 DEF Started, IsFile, Alike
<1>8. Once'
  BY <1>7, OnceKept DEF FileInv
<1>9. InTurn'
  BY <1>1 DEF FileInv, InTurn
<1> QED BY <1>4, <1>5, <1>6, <1>8, <1>9 DEF FileInv

\* The usual step before the files: a task goes on, with a message that is not of one.
LEMMA EarlyStep ==
  ASSUME ConsentInv, FileInv, NEW e \in End, NEW there, task' = [task EXCEPT ![e] = there],
         there \notin {"file", "result"},
         e = S => task[S] \notin Feeding \cup Ended,
         e = R => task[R] \notin Granted,
         NEW ms, IsSeq(ms), \A m \in Range(ms) : ~IsFile(m),
         UNCHANGED wire \/ Send(e, ms),
         \/ UNCHANGED inbox
         \/ inbox[e] # <<>> /\ Read(e)
         \/ Strings(e) # {} /\ Collect(e),
         UNCHANGED published \/ (e = S /\ there \in Feeding),
         UNCHANGED <<fileVars, main>>
  PROVE  FileInv'
<1>1. published = None
  BY Ends DEF ConsentInv, Asking, Moving, FileInv, Before
<1>2. /\ Channels' /\ ToRead(e)' \subseteq ToRead(e)
      /\ ToRead(Other(e))' \subseteq ToRead(Other(e)) \cup Range(ms)
  BY Speak DEF ConsentInv
<1>3. \A m \in ToRead(R)' : m \in ToRead(R) \/ ~IsFile(m)
  BY <1>2, Ends, Others
<1>4. task = [x \in End |-> task[x]]
  BY DEF ConsentInv, Phases
<1>5. task[S] # "file" /\ task[R] # "result"
  BY <1>1 DEF ConsentInv, Moving, Feeding, FileInv, Answering, Slots
<1>6. task'[S] # "file" /\ task'[R] # "result" /\ (task[R] \in Ended => task'[R] \in Ended)
  BY <1>4, <1>5, Ends DEF Granted, Ended
<1>7. published' # None => task'[S] \in Feeding \cup Ended
  BY <1>1, <1>4, Ends
<1> QED BY <1>1, <1>2, <1>3, <1>6, <1>7, Early

LEMMA NoFile ==
  ASSUME NEW e \in End, NEW m, ~IsFile(m)
  PROVE  /\ IsSeq(<<m>>) /\ \A n \in Range(<<m>>) : ~IsFile(n)
         /\ IsSeq(Framed(e, m)) /\ \A n \in Range(Framed(e, m)) : ~IsFile(n)
<1>1. ~IsFile(Delimiter)
  BY DEF Delimiter, IsFile
<1> QED BY <1>1, One, Frames

LEMMA NoneOpen ==
  ASSUME ConsentInv, FileInv, task[R] \notin Granted
  PROVE  file_state = None
BY DEF ConsentInv, Asking, Moving, FileInv, Before

\* A task of an end before the files: it goes on, sends no message of a file, reads what
\* is its own, and leaves the files alone.
Opening == {"open", "nonce", "token", "verify", "pin", "list", "ask", "slot", "typing", "answer",
            "selection", "choose"}
GoesOn(e) ==
  /\ task[e] \in Opening
  /\ \E there : /\ Go(e, there) /\ there \notin {"file", "result"}
                /\ UNCHANGED published \/ (e = S /\ there \in Feeding)
Utters(e) == \E ms : IsSeq(ms) /\ (\A m \in Range(ms) : ~IsFile(m)) /\ (UNCHANGED wire \/ Send(e, ms))
Hears(e) == UNCHANGED inbox \/ (inbox[e] # <<>> /\ Read(e)) \/ (Strings(e) # {} /\ Collect(e))
LeavesFiles(e) ==
  /\ UNCHANGED <<feed, fed, receiving, reader, outcome, last_file, given, whole, got, answered, main>>
  /\ UNCHANGED file_state \/ (e = R /\ file_state' = None)

LEMMA EarlyTask ==
  ASSUME ConsentInv, FileInv, NEW e \in End, GoesOn(e), Utters(e), Hears(e), LeavesFiles(e)
  PROVE  FileInv'
<1>1. task[e] \notin Feeding \cup Ended /\ task[e] \notin Granted
  BY DEF GoesOn, Opening, Feeding, Ended, Granted
<1>2. PICK there : /\ task' = [task EXCEPT ![e] = there] /\ there \notin {"file", "result"}
                   /\ UNCHANGED published \/ (e = S /\ there \in Feeding)
  BY DEF GoesOn, Go
<1>3. PICK ms : IsSeq(ms) /\ (\A m \in Range(ms) : ~IsFile(m)) /\ (UNCHANGED wire \/ Send(e, ms))
  BY DEF Utters
<1>4. e = S => task[S] \notin Feeding \cup Ended
  BY <1>1
<1>5. e = R => task[R] \notin Granted
  BY <1>1
<1>6. file_state' = file_state
  BY <1>5, NoneOpen DEF LeavesFiles
<1>7. UNCHANGED <<fileVars, main>>
  BY <1>6 DEF LeavesFiles, fileVars
<1>8. \/ UNCHANGED inbox
      \/ inbox[e] # <<>> /\ Read(e)
      \/ Strings(e) # {} /\ Collect(e)
  BY DEF Hears
<1> QED BY <1>2, <1>3, <1>4, <1>5, <1>7, <1>8, EarlyStep

LEMMA Utterances ==
  ASSUME NEW e \in End
  PROVE  /\ UNCHANGED wire => Utters(e)
         /\ \A m : ~IsFile(m) /\ (Send(e, <<m>>) \/ Send(e, Framed(e, m))) => Utters(e)
<1>1. UNCHANGED wire => Utters(e)
  BY Silence DEF Utters
<1>2. ASSUME NEW m, ~IsFile(m), Send(e, <<m>>) \/ Send(e, Framed(e, m)) PROVE Utters(e)
  BY <1>2, NoFile DEF Utters
<1> QED BY <1>1, <1>2

LEMMA Going ==
  ASSUME NEW e, NEW there, Go(e, there), there \notin {"file", "result"}, task[e] \in Opening,
         UNCHANGED published
  PROVE  GoesOn(e)
BY DEF GoesOn, Go

LEMMA PinOkSent ==
  ASSUME Channels, NEW e \in End, PinRight(e)
  PROVE  UNCHANGED wire \/ Send(e, <<PinOk>>)
<1>1. CASE e = R
  <2>1. wire[S] \in Seq(Range(wire[S]) \cup {PinOk})
    BY Ends, SeqMonotonic DEF Channels, IsSeq
  <2>2. Append(wire[S], PinOk) = wire[S] \o <<PinOk>>
    BY <2>1, AppendIsConcat
  <2> QED BY <1>1, <2>2, Others DEF PinRight, Send
<1>2. CASE e # R
  BY <1>2 DEF PinRight
<1> QED BY <1>1, <1>2

\* Nonces, tokens, PINs, list and selection.
LEMMA EarlySteps ==
  ASSUME ConsentInv, FileInv, NEW e \in End,
         \/ OpenChannel \/ ReceiveNonce(e) \/ ReceiveToken \/ ReceiveTokenResponse
         \/ AskPin(e) \/ FillSlot(e) \/ TypePin(e) \/ TypePinTooLate(e)
         \/ ReceivePinReceivingResponse \/ ReceivePinSendingResponse \/ Verify(e)
         \/ SendList \/ Choose \/ ReceiveSelection
         \/ SendFails(e) /\ task[e] # "result"
  PROVE  FileInv'
<1> USE Ends DEF callVars, senderVars, receiverVars, appVars, historyVars, Opening, Hears, LeavesFiles
<1>1. /\ ~IsFile(Nonce(S)) /\ ~IsFile(Nonce(R)) /\ ~IsFile(TokenMsg(LocalToken(S))) /\ ~IsFile(TokenBad)
      /\ ~IsFile(TokenOk(LocalToken(R))) /\ ~IsFile(TokenPin(LocalToken(R))) /\ ~IsFile(PinOk)
      /\ ~IsFile(PinRequired) /\ ~IsFile(PinTooMany) /\ ~IsFile(List) /\ ~IsFile(Declined)
      /\ \A p : ~IsFile(PinMsg(p)) /\ ~IsFile(Grant(p))
  BY DEF IsFile, Nonce, TokenMsg, TokenBad, PinOk, TokenOk, TokenPin, PinRequired, PinTooMany, List,
     Declined, PinMsg, Grant
<1>2. ASSUME NEW x \in End, Challenge(x) PROVE \E there \in {"list", "verify"} : Go(x, there)
  BY <1>2 DEF Challenge
<1>3. CASE OpenChannel
  <2>1. GoesOn(S)
    BY <1>3, Going DEF OpenChannel
  <2>2. Utters(S) /\ Hears(S) /\ LeavesFiles(S)
    BY <1>1, <1>3, Utterances DEF OpenChannel
  <2> QED BY <2>1, <2>2, EarlyTask
<1>4. CASE ReceiveNonce(e)
  <2>1. GoesOn(e)
    BY <1>4, Going DEF ReceiveNonce
  <2>2. Utters(e) /\ Hears(e) /\ LeavesFiles(e)
    BY <1>1, <1>4, Utterances DEF ReceiveNonce
  <2> QED BY <2>1, <2>2, EarlyTask
<1>5. CASE ReceiveToken
  <2>1. GoesOn(R)
    BY <1>2, <1>5, Going DEF ReceiveToken, Fail
  <2>2. Utters(R)
    BY <1>1, <1>5, Utterances DEF ReceiveToken
  <2>3. Hears(R) /\ LeavesFiles(R)
    BY <1>5 DEF ReceiveToken, Fail
  <2> QED BY <2>1, <2>2, <2>3, EarlyTask
<1>6. CASE ReceiveTokenResponse
  <2>1. GoesOn(S)
    BY <1>2, <1>6, Going DEF ReceiveTokenResponse
  <2>2. Utters(S) /\ Hears(S) /\ LeavesFiles(S)
    BY <1>6, Utterances DEF ReceiveTokenResponse
  <2> QED BY <2>1, <2>2, EarlyTask
<1>7. CASE AskPin(e) \/ FillSlot(e)
  <2>1. GoesOn(e)
    BY <1>7, Going DEF AskPin, FillSlot
  <2>2. Utters(e) /\ Hears(e) /\ LeavesFiles(e)
    BY <1>7, Utterances DEF AskPin, FillSlot, channelVars
  <2> QED BY <2>1, <2>2, EarlyTask
<1>8. CASE TypePin(e) \/ TypePinTooLate(e)
  <2>1. task[e] = "typing"
    BY <1>8 DEF TypePin, TypePinTooLate, ConsentInv, Phases
  <2>2. GoesOn(e)
    BY <1>8, <2>1, Going DEF TypePin, TypePinTooLate, Fail
  <2>3. Utters(e)
    BY <1>1, <1>8, Utterances DEF TypePin, TypePinTooLate, channelVars
  <2>4. Hears(e) /\ LeavesFiles(e)
    BY <1>8 DEF TypePin, TypePinTooLate, Fail, channelVars
  <2> QED BY <2>2, <2>3, <2>4, EarlyTask
<1>9. CASE ReceivePinReceivingResponse
  <2>1. GoesOn(S)
    BY <1>2, <1>9, Going DEF ReceivePinReceivingResponse
  <2>2. Utters(S) /\ Hears(S) /\ LeavesFiles(S)
    BY <1>9, Utterances DEF ReceivePinReceivingResponse
  <2> QED BY <2>1, <2>2, EarlyTask
<1>10. CASE ReceivePinSendingResponse
  <2>1. GoesOn(R)
    BY <1>10, Going DEF ReceivePinSendingResponse, Fail
  <2>2. Utters(R) /\ Hears(R) /\ LeavesFiles(R)
    BY <1>10, Utterances DEF ReceivePinSendingResponse, Fail
  <2> QED BY <2>1, <2>2, EarlyTask
<1>11. CASE PinRight(e)
  <2>1. GoesOn(e)
    BY <1>11, Going DEF PinRight
  <2>2. Utters(e)
    BY <1>1, <1>11, PinOkSent, Utterances DEF ConsentInv
  <2>3. Hears(e) /\ LeavesFiles(e)
    BY <1>11 DEF PinRight
  <2> QED BY <2>1, <2>2, <2>3, EarlyTask
<1>12. CASE PinWanted(e) \/ PinExhausted(e) \/ ReceivePin(e)
  <2>1. GoesOn(e)
    BY <1>12, Going DEF PinWanted, PinExhausted, ReceivePin, Fail
  <2>2. UNCHANGED wire \/ Send(e, Framed(e, PinRequired)) \/ Send(e, Framed(e, PinTooMany))
    BY <1>12 DEF PinWanted, PinExhausted, ReceivePin, Send
  <2>3. Utters(e)
    BY <1>1, <2>2, Utterances
  <2>4. Hears(e) /\ LeavesFiles(e)
    BY <1>12 DEF PinWanted, PinExhausted, ReceivePin, Fail
  <2> QED BY <2>1, <2>3, <2>4, EarlyTask
<1>13. CASE SendList
  <2>1. GoesOn(S)
    BY <1>13, Going DEF SendList
  <2>2. Utters(S) /\ Hears(S) /\ LeavesFiles(S)
    BY <1>1, <1>13, Utterances DEF SendList
  <2> QED BY <2>1, <2>2, EarlyTask
<1>14. CASE Choose
  <2>1. GoesOn(R)
    BY <1>14, Going DEF Choose
  <2>2. Utters(R)
    BY <1>1, <1>14, Utterances DEF Choose
  <2>3. Hears(R) /\ LeavesFiles(R)
    BY <1>14 DEF Choose
  <2> QED BY <2>1, <2>2, <2>3, EarlyTask
<1>15. CASE ReceiveSelection
  <2>1. \/ Go(S, "feed")
        \/ Go(S, "ok") /\ UNCHANGED published
    BY <1>15 DEF ReceiveSelection
  <2>2. GoesOn(S)
    BY <1>15, <2>1 DEF ReceiveSelection, GoesOn, Go, Feeding
  <2>3. Utters(S) /\ Hears(S) /\ LeavesFiles(S)
    BY <1>15, Utterances DEF ReceiveSelection
  <2> QED BY <2>2, <2>3, EarlyTask
<1>16. CASE SendFails(e) /\ task[e] # "result"
  <2>1. GoesOn(e)
    BY <1>16, Going DEF SendFails, Fail
  <2>2. Utters(e) /\ Hears(e) /\ LeavesFiles(e)
    BY <1>16, Utterances DEF SendFails, Fail, channelVars
  <2> QED BY <2>1, <2>2, EarlyTask
<1> QED BY <1>3, <1>4, <1>5, <1>6, <1>7, <1>8, <1>9, <1>10, <1>11, <1>12, <1>13, <1>14, <1>15, <1>16
           DEF Verify

-----------------------------------------------------------------------------
(* The calls, the network, and an app that reads or stops sending.          *)

LEMMA SameFiles ==
  ASSUME FileInv, Queue' = Queue, UNCHANGED <<fileVars, task, published, selection, sending>>,
         main' = [e \in End |-> main'[e]], CanSend(S)' => CanSend(S)
  PROVE  FileInv'
<1> USE DEF fileVars
<1>1. Slots'
  BY DEF FileInv, Slots
<1>2. Before'
  BY DEF FileInv, Before, IsFile
<1>3. Answering'
  BY DEF FileInv, Answering
<1>4. Own'
  BY DEF FileInv, Own, Current
<1>5. Fresh'
  <2>1. \A m : Unread(m) => Unread(m)'
    BY DEF Unread
  <2> QED BY <2>1, FreshSame DEF FileInv
<1>6. Linked'
  <2>1. \A x, n : (Sent(x, n) => Sent(x, n)') /\ (AtEnd(x, n) => AtEnd(x, n)')
    BY DEF Sent, AtEnd
  <2> QED BY <2>1, LinkedSame DEF FileInv
<1>7. Once'
  BY DEF FileInv, Once, Started
<1>8. InTurn'
  BY DEF FileInv, InTurn
<1> QED BY <1>1, <1>2, <1>3, <1>4, <1>5, <1>6, <1>7, <1>8 DEF FileInv

LEMMA CallSteps ==
  ASSUME ConsentInv, FileInv,
         \/ SendOffer \/ OnAnswer \/ AcceptOffer \/ ReceiveAnswer \/ LoseLink
         \/ \E e \in End : Call(e) \/ Deliver(e)
         \/ DropSendController \/ \E f \in File : Write(f)
         \/ UNCHANGED vars
  PROVE  FileInv'
<1> USE DEF fileVars, channelVars, callVars, senderVars, receiverVars, appVars, historyVars
<1>1. main = [e \in End |-> main[e]]
  BY DEF FileInv, Slots
<1>2. CASE \/ SendOffer \/ OnAnswer \/ AcceptOffer \/ ReceiveAnswer \/ LoseLink
           \/ \E e \in End : Call(e)
  <2>1. UNCHANGED <<fileVars, task, published, selection, sending, wire, inbox>>
    BY <1>2 DEF SendOffer, OnAnswer, AcceptOffer, ReceiveAnswer, LoseLink, Call, JoinTask, Disconnected
  <2>2. \/ UNCHANGED main
        \/ \E e \in End : main[e] # "closed" /\ \E there : main' = [main EXCEPT ![e] = there]
    BY <1>2, Ends DEF SendOffer, OnAnswer, AcceptOffer, ReceiveAnswer, LoseLink, Call, JoinTask, Disconnected, Close
  <2>3. main' = [e \in End |-> main'[e]] /\ (CanSend(S)' => CanSend(S))
    BY <1>1, <2>2, Ends DEF CanSend
  <2>4. Queue' = Queue
    BY <2>1 DEF Queue
  <2> QED BY <2>1, <2>3, <2>4, SameFiles
<1>3. ASSUME NEW e \in End, Deliver(e) PROVE FileInv'
  <2>1. UNCHANGED <<fileVars, task, published, selection, sending, main>>
    BY <1>3 DEF Deliver
  <2>2. Queue' = Queue
    BY <1>3, QueueDelivered DEF ConsentInv
  <2> QED BY <1>1, <2>1, <2>2, SameFiles DEF CanSend
<1>4. CASE DropSendController \/ (\E f \in File : Write(f)) \/ UNCHANGED vars
  <2>1. UNCHANGED <<fileVars, task, published, selection, sending, main, wire, inbox>>
    BY <1>4 DEF DropSendController, Write, vars
  <2> QED BY <1>1, <2>1, SameFiles DEF CanSend, Queue
<1> QED BY <1>2, <1>3, <1>4

-----------------------------------------------------------------------------
(* The sender.                                                              *)

\* What a step of the sender leaves of the receiver's parts.
LEMMA ReceiverKept ==
  ASSUME FileInv, task'[R] = task[R], whole \subseteq whole', \A x \in whole : given'[x] = given[x],
         UNCHANGED <<file_state, last_file, selection, receiving, reader, outcome, got, answered>>
  PROVE  Own' /\ Answering'
<1>1. Own'
  BY DEF FileInv, Own, Current
<1>2. Answering'
  BY DEF FileInv, Answering
<1> QED BY <1>1, <1>2

LEMMA SendFileStep ==
  ASSUME FileInv, NEW f \in File, SendFile(f)
  PROVE  FileInv'
<1>1. /\ feed = <<>> /\ f \notin fed /\ feed' = <<f>> /\ fed' = fed \cup {f} /\ Queue' = Queue
      /\ UNCHANGED <<task, main, published, selection, sending, file_state, last_file, receiving, reader,
                     outcome, given, whole, got, answered>>
  BY DEF SendFile, Queue, callVars, channelVars, receiverVars, appVars, historyVars
<1>2. Slots'
  BY <1>1 DEF FileInv, Slots
<1>3. Own' /\ Answering'
  BY <1>1, ReceiverKept
<1>4. Before'
  BY <1>1 DEF FileInv, Before, IsFile
<1>5. Fresh'
  BY <1>1 DEF FileInv, Fresh, Unread
<1>6. Linked'
  <2>1. \A x, n : (Sent(x, n) => Sent(x, n)') /\ (AtEnd(x, n) => AtEnd(x, n)')
    BY <1>1 DEF Sent, AtEnd, CanSend
  <2> QED BY <1>1, <2>1, LinkedSame DEF FileInv
<1>7. Once'
  <2>1. \A x \in File : Started(x)' => Started(x)
    BY <1>1 DEF Started
  <2>2. \A x \in File : Started(x) => x \in fed
    BY DEF FileInv, Once
  <2> QED BY <1>1, <2>1, <2>2 DEF Once
<1>8. InTurn'
  BY <1>1 DEF FileInv, InTurn, CanSend
<1> QED BY <1>2, <1>3, <1>4, <1>5, <1>6, <1>7, <1>8 DEF FileInv

\* The file in the slot has not been started: its header is the first of it.
LEMMA StartFileStep ==
  ASSUME ConsentInv, FileInv, StartFile
  PROVE  FileInv'
<1>1. /\ task[S] = "feed" /\ feed' = <<>>
      /\ UNCHANGED <<inbox, main, published, selection, fed, file_state, last_file, receiving, reader, outcome,
                     given, whole, got, answered>>
  BY DEF StartFile, callVars, receiverVars, appVars, historyVars
<1>2. PICK x \in File : feed = <<x>> /\ x \in fed
  BY DEF StartFile, FileInv, Slots
<1>3. Head(feed) = x /\ ~Started(x)
  BY <1>2 DEF FileInv, Once
<1>4. task = [e \in End |-> task[e]] /\ Channels
  BY DEF ConsentInv, Phases
<1>5. Slots'
  BY <1>1 DEF FileInv, Slots
<1>6. CASE UNCHANGED <<wire, sending, task>>
  <2>1. Queue' = Queue
    BY <1>1, <1>6 DEF Queue
  <2>2. Own' /\ Answering'
    BY <1>1, <1>6, ReceiverKept
  <2>3. Before'
    BY <1>1, <1>6, <2>1 DEF FileInv, Before, IsFile
  <2>4. Fresh'
    BY <1>1, <2>1 DEF FileInv, Fresh, Unread
  <2>5. Linked'
    <3>1. \A y, n : (Sent(y, n) => Sent(y, n)') /\ (AtEnd(y, n) => AtEnd(y, n)')
      BY <1>1, <1>6 DEF Sent, AtEnd, CanSend
    <3> QED BY <1>1, <2>1, <3>1, LinkedSame DEF FileInv
  <2>6. Once'
    <3>1. \A y \in File : Started(y)' => Started(y)
      BY <1>1, <1>6, <2>1 DEF Started
    <3> QED BY <1>1, <3>1, OnceKept DEF FileInv
  <2>7. InTurn'
    BY <1>1, <1>6 DEF FileInv, InTurn, CanSend
  <2> QED BY <1>5, <2>2, <2>3, <2>4, <2>5, <2>6, <2>7 DEF FileInv
<1>7. CASE CanSend(S) /\ Send(S, <<Header(x)>>) /\ sending' = x /\ Go(S, "file")
  <2>1. task'[S] = "file" /\ task'[R] = task[R]
    BY <1>4, <1>7, Ends DEF Go
  <2>2. PICK m : m = Header(x)
    OBVIOUS
  <2>3. m.type = "Header" /\ m.id = x /\ IsFile(m) /\ CountOf(m) = 0
    BY <2>2 DEF Header, IsFile, CountOf
  <2>4. Adds(m)
    BY <1>1, <1>4, <1>7, <2>2, QueueSent
  <2>5. Own' /\ Answering'
    BY <1>1, <2>1, ReceiverKept
  <2>6. Before'
    <3>1. published' # None
      BY <1>1 DEF ConsentInv, Moving, Feeding
    <3> QED BY <2>1, <3>1 DEF Before, Feeding
  <2>7. Fresh'
    <3>1. Unread(m)'
      BY <1>1, <1>3, <2>3 DEF Unread, Started, FileInv, Slots
    <3>2. \A n : Unread(n) => Unread(n)'
      BY <1>1 DEF Unread
    <3>3. \A i \in 1..Len(Queue) : ~Alike(Queue[i], m)
      BY <1>3, <2>2 DEF Started
    <3> QED BY <2>4, <3>1, <3>2, <3>3, FreshSent DEF FileInv
  <2>8. Linked'
    <3>1. \A y, n : Sent(y, n) => Sent(y, n)'
      BY <1>1 DEF Sent
    <3>2. \A y, n : AtEnd(y, n) => Follows(y, n, m)'
      BY <1>1, <1>7, <2>3 DEF AtEnd, Follows, Sent
    <3>3. AtEnd(m.id, CountOf(m))'
      <4>1. given[x] = 0
        BY <1>3 DEF Started, FileInv, Slots
      <4> QED BY <1>1, <1>7, <2>1, <2>3, <4>1 DEF AtEnd
    <3> QED BY <1>1, <2>4, <3>1, <3>2, <3>3, LinkedSent DEF FileInv
  <2>9. Once'
    <3>1. \A y \in File : Started(y)' => Started(y) \/ y = x
      <4>1. \A y \in File : (\E i \in 1..Len(Queue') : Alike(Queue'[i], Header(y))) =>
                               (\E i \in 1..Len(Queue) : Alike(Queue[i], Header(y))) \/ y = x
        BY <2>3, <2>4 DEF Adds, Alike, Header
      <4> QED BY <1>1, <1>7, <4>1 DEF Started
    <3>2. \A y \in File : <<>> # <<y>>
      OBVIOUS
    <3> QED BY <1>1, <1>2, <3>1, <3>2 DEF FileInv, Once
  <2>10. InTurn'
    <3>1. x \notin whole
      BY <1>3 DEF Started
    <3> QED BY <1>1, <1>7, <2>1, <3>1 DEF FileInv, InTurn, CanSend
  <2> QED BY <1>5, <2>5, <2>6, <2>7, <2>8, <2>9, <2>10 DEF FileInv
<1> QED BY <1>3, <1>6, <1>7 DEF StartFile

\* The chunk that goes out is the next after the last one of the queue.
LEMMA SendChunkStep ==
  ASSUME ConsentInv, FileInv, SendChunk
  PROVE  FileInv'
<1>1. /\ task[S] = "file" /\ CanSend(S) /\ given' = [given EXCEPT ![sending] = @ + 1]
      /\ Send(S, <<Chunk(sending, given[sending] + 1)>>)
      /\ UNCHANGED <<task, inbox, main, published, selection, feed, fed, sending, file_state, last_file, receiving,
                     reader, outcome, whole, got, answered>>
  BY DEF SendChunk, callVars, senderVars, receiverVars, appVars
<1>2. sending \in File \ whole /\ Started(sending)
  BY <1>1 DEF FileInv, InTurn, Started
<1>3. PICK x \in File : x = sending
  BY <1>2
<1>4. PICK n \in Nat : n = given[x]
  BY DEF FileInv, Slots
<1>5. PICK m : m = Chunk(x, n + 1)
  OBVIOUS
<1>6. m.type = "Chunk" /\ m.id = x /\ m.n = n + 1 /\ IsFile(m) /\ CountOf(m) = n + 1
  BY <1>5 DEF Chunk, IsFile, CountOf
<1>7. Adds(m)
  BY <1>1, <1>3, <1>4, <1>5, QueueSent DEF ConsentInv
<1>8. given \in [File -> Nat] /\ given'[x] = n + 1 /\ \A y \in File : y # x => given'[y] = given[y]
  BY <1>1, <1>3, <1>4 DEF FileInv, Slots
<1>9. Slots'
  BY <1>1, <1>3, <1>4 DEF FileInv, Slots
<1>10. Own' /\ Answering'
  <2>1. \A y \in whole : given'[y] = given[y]
    BY <1>2, <1>3, <1>8 DEF FileInv, Slots
  <2> QED BY <1>1, <2>1, ReceiverKept
<1>11. Before'
  <2>1. published # None
    BY <1>1 DEF ConsentInv, Moving, Feeding
  <2> QED BY <1>1, <2>1 DEF FileInv, Before
<1>12. Fresh'
  <2>1. Unread(m)'
    BY <1>6, <1>8 DEF Unread
  <2>2. \A k : Unread(k) => Unread(k)'
    <3>1. ASSUME NEW k, Unread(k), k.type = "Chunk" PROVE k.n <= given'[k.id]
      <4>1. k.id \in File /\ k.n \in Nat /\ k.n <= given[k.id]
        BY <3>1 DEF Unread, IsFile
      <4> QED BY <1>4, <1>8, <4>1
    <3> QED BY <1>1, <3>1 DEF Unread
  <2>3. \A i \in 1..Len(Queue) : ~Alike(Queue[i], m)
    BY <1>6 DEF Alike
  <2> QED BY <1>7, <2>1, <2>2, <2>3, FreshSent DEF FileInv
<1>13. Linked'
  <2>1. \A y, k : Sent(y, k) => Sent(y, k)'
    BY <1>1, <1>2, <1>3, <1>8 DEF Sent, FileInv, Slots
  <2>2. \A y, k : AtEnd(y, k) => Follows(y, k, m)'
    BY <1>1, <1>3, <1>4, <1>6 DEF AtEnd, Follows
  <2>3. AtEnd(m.id, CountOf(m))'
    BY <1>1, <1>3, <1>6, <1>8 DEF AtEnd
  <2> QED BY <1>1, <1>7, <2>1, <2>2, <2>3, LinkedSent DEF FileInv
<1>14. Once'
  <2>1. \A y \in File : (\E i \in 1..Len(Queue') : Alike(Queue'[i], Header(y))) =>
                           (\E i \in 1..Len(Queue) : Alike(Queue[i], Header(y)))
    BY <1>6, <1>7 DEF Adds, Alike
  <2>2. \A y \in File : Started(y)' => Started(y)
    BY <1>1, <1>2, <1>3, <1>8, <2>1 DEF Started
  <2> QED BY <1>1, <2>2, OnceKept DEF FileInv
<1>15. InTurn'
  <2>1. \A y \in File : got'[y] <= given'[y]
    <3>1. \A y \in File : got[y] \in Nat /\ given[y] \in Nat /\ got[y] <= given[y]
      BY DEF FileInv, Slots, InTurn
    <3> QED BY <1>1, <1>4, <1>8, <3>1
  <2> QED BY <1>1, <1>2, <1>3, <1>8, <2>1 DEF FileInv, InTurn, CanSend
<1> QED BY <1>9, <1>10, <1>11, <1>12, <1>13, <1>14, <1>15 DEF FileInv

LEMMA EndFileStep ==
  ASSUME ConsentInv, FileInv, EndFile
  PROVE  FileInv'
<1>1. /\ task[S] = "file" /\ whole' = IF CanSend(S) THEN whole \cup {sending} ELSE whole
      /\ task' = [task EXCEPT ![S] = "feed"]
      /\ UNCHANGED <<inbox, wire, main, published, selection, feed, fed, file_state, last_file, receiving,
                     reader, outcome, given, got, answered>>
  BY DEF EndFile, Go, callVars, channelVars, receiverVars, appVars
<1>2. sending \in File \ whole
  BY <1>1 DEF FileInv, InTurn
<1>3. task'[S] = "feed" /\ task'[R] = task[R]
  BY <1>1, Ends DEF ConsentInv, Phases
<1>4. Queue' = Queue
  BY <1>1 DEF Queue
<1>5. Slots'
  BY <1>1, <1>2 DEF FileInv, Slots
<1>6. Own' /\ Answering'
  BY <1>1, <1>3, ReceiverKept
<1>7. Before'
  <2>1. published # None
    BY <1>1 DEF ConsentInv, Moving, Feeding
  <2> QED BY <1>1, <1>3, <2>1 DEF Before, Feeding
<1>8. Fresh'
  <2>1. \A m : Unread(m) => Unread(m)'
    BY <1>1 DEF Unread
  <2> QED BY <1>4, <2>1, FreshSame DEF FileInv
<1>9. Linked'
  <2>1. \A x, n : Sent(x, n) => Sent(x, n)'
    BY <1>1 DEF Sent
  <2>2. \A x, n : AtEnd(x, n) => AtEnd(x, n)'
    BY <1>1, <1>3 DEF AtEnd, Sent, CanSend
  <2> QED BY <1>1, <1>4, <2>1, <2>2, LinkedSame DEF FileInv
<1>10. Once'
  <2>1. \A x \in File : Started(x)' => Started(x)
    BY <1>1, <1>3, <1>4 DEF Started
  <2> QED BY <1>1, <2>1, OnceKept DEF FileInv
<1>11. InTurn'
  BY <1>1, <1>3 DEF FileInv, InTurn, CanSend
<1> QED BY <1>5, <1>6, <1>7, <1>8, <1>9, <1>10, <1>11 DEF FileInv

\* The delimiter follows a file that is whole: the channel of the sender is open.
LEMMA LastSteps ==
  ASSUME ConsentInv, FileInv, SendDelimiter \/ ReceiveLast
  PROVE  FileInv'
<1>1. /\ task[S] \in {"feed", "last"}
      /\ \E there \in {"last", "ok"} : task' = [task EXCEPT ![S] = there]
      /\ UNCHANGED <<main, published, selection, feed, fed, sending, file_state, last_file, receiving,
                     reader, outcome, given, whole, got, answered>>
  BY DEF SendDelimiter, ReceiveLast, Go, callVars, senderVars, receiverVars, appVars, historyVars
<1>2. task'[S] \in {"last", "ok"} /\ task'[R] = task[R]
  BY <1>1, Ends DEF ConsentInv, Phases
<1>3. \/ Queue' = Queue
      \/ CanSend(S) /\ task[S] = "feed" /\ Adds(Delimiter)
  <2>1. CASE SendDelimiter
    BY <2>1, QueueSent DEF SendDelimiter, ConsentInv
  <2>2. CASE ReceiveLast
    <3>1. inbox'[R] = inbox[R] /\ wire'[R] = wire[R]
      BY <2>2, Ends DEF ReceiveLast, Read, ConsentInv, Channels
    <3> QED BY <3>1 DEF Queue
  <2> QED BY <2>1, <2>2
<1>4. PICK m : m = Delimiter
  OBVIOUS
<1>5. m.type = "Delimiter" /\ ~IsFile(m)
  BY <1>4 DEF Delimiter, IsFile
<1>6. Slots' /\ InTurn'
  BY <1>1, <1>2 DEF FileInv, Slots, InTurn, CanSend
<1>7. Own' /\ Answering'
  BY <1>1, <1>2, ReceiverKept
<1>8. Before'
  <2>1. published # None
    BY <1>1 DEF ConsentInv, Moving, Feeding
  <2> QED BY <1>1, <1>2, <2>1 DEF Before, Feeding, Ended
<1>9. Fresh'
  <2>1. \A k : Unread(k) => Unread(k)'
    BY <1>1 DEF Unread
  <2>2. Unread(m)' /\ \A k : ~Alike(k, m)
    BY <1>5 DEF Unread, IsFile, Alike
  <2> QED BY <1>3, <1>4, <2>1, <2>2, FreshSame, FreshSent DEF FileInv
<1>10. Linked'
  <2>1. \A x, n : Sent(x, n) => Sent(x, n)'
    BY <1>1 DEF Sent
  <2>2. CASE Queue' = Queue
    <3>1. \A x, n : AtEnd(x, n) => AtEnd(x, n)'
      BY <1>1, <1>2 DEF AtEnd, Sent, CanSend
    <3> QED BY <1>1, <2>1, <2>2, <3>1, LinkedSame DEF FileInv
  <2>3. CASE CanSend(S) /\ task[S] = "feed" /\ Adds(m)
    <3>1. \A x, n : AtEnd(x, n) => Follows(x, n, m)'
      BY <1>1, <1>5, <2>3 DEF AtEnd, Follows, Sent
    <3> QED BY <1>1, <1>5, <2>1, <2>3, <3>1, LinkedSent DEF FileInv
  <2> QED BY <1>3, <1>4, <2>2, <2>3
<1>11. Once'
  <2>1. \A x \in File : (\E i \in 1..Len(Queue') : Alike(Queue'[i], Header(x))) =>
                           (\E i \in 1..Len(Queue) : Alike(Queue[i], Header(x)))
    BY <1>3, <1>4, <1>5 DEF Adds, Alike
  <2>2. \A x \in File : Started(x)' => Started(x)
    BY <1>1, <1>2, <2>1 DEF Started
  <2> QED BY <1>1, <2>2, OnceKept DEF FileInv
<1> QED BY <1>6, <1>7, <1>8, <1>9, <1>10, <1>11 DEF FileInv

LEMMA SenderFailsStep ==
  ASSUME ConsentInv, FileInv, SendFails(S)
  PROVE  FileInv'
<1>1. /\ task[S] \notin {"file"} /\ task' = [task EXCEPT ![S] = "err"]
      /\ UNCHANGED <<wire, inbox, main, published, selection, feed, fed, sending, file_state, last_file, receiving,
                     reader, outcome, given, whole, got, answered>>
  BY Ends DEF SendFails, Fail, Go, callVars, channelVars, senderVars, appVars, historyVars
<1>2. task'[S] = "err" /\ task'[R] = task[R]
  BY <1>1, Ends DEF ConsentInv, Phases
<1>3. Queue' = Queue
  BY <1>1 DEF Queue
<1>4. Slots' /\ InTurn'
  BY <1>1, <1>2 DEF FileInv, Slots, InTurn, CanSend
<1>5. Own' /\ Answering'
  BY <1>1, <1>2, ReceiverKept
<1>6. Before'
  BY <1>1, <1>2, <1>3 DEF FileInv, Before, Ended, IsFile
<1>7. Fresh'
  BY <1>1, <1>3 DEF FileInv, Fresh, Unread
<1>8. Linked'
  <2>1. \A x, n : (Sent(x, n) => Sent(x, n)') /\ (AtEnd(x, n) => AtEnd(x, n)')
    BY <1>1, <1>2 DEF AtEnd, Sent, CanSend
  <2> QED BY <1>1, <1>3, <2>1, LinkedSame DEF FileInv
<1>9. Once'
  <2>1. \A x \in File : Started(x)' => Started(x)
    BY <1>1, <1>2, <1>3 DEF Started
  <2> QED BY <1>1, <2>1, OnceKept DEF FileInv
<1> QED BY <1>4, <1>5, <1>6, <1>7, <1>8, <1>9 DEF FileInv

-----------------------------------------------------------------------------
(* The receiver.                                                            *)

\* What a step of the receiver leaves of the sender's parts.
LEMMA SenderKept ==
  ASSUME FileInv, task'[S] = task[S], UNCHANGED <<main, published, sending, given, whole>>
  PROVE  /\ \A x, n : Sent(x, n) => Sent(x, n)'
         /\ \A x, n : AtEnd(x, n) => AtEnd(x, n)'
         /\ UNCHANGED got => InTurn'
<1>1. InTurn' \/ ~UNCHANGED got
  BY DEF FileInv, InTurn, CanSend
<1>2. \A x, n : (Sent(x, n) => Sent(x, n)') /\ (AtEnd(x, n) => AtEnd(x, n)')
  BY DEF Sent, AtEnd, CanSend
<1> QED BY <1>1, <1>2

LEMMA FirstMessage ==
  ASSUME Channels, inbox[R] # <<>>
  PROVE  Len(Queue) \in Nat /\ Len(Queue) > 0 /\ 1 \in 1..Len(Queue) /\ Queue[1] = Head(inbox[R])
<1>1. PICK M : inbox[R] \in Seq(M) /\ wire[R] \in Seq(M)
  BY Queues
<1>2. PICK s \in Seq(M) : s = inbox[R]
  BY <1>1
<1>3. PICK t \in Seq(M) : t = wire[R]
  BY <1>1
<1>4. PICK q : q = s \o t
  OBVIOUS
<1>5. Len(q) \in Nat /\ Len(q) > 0 /\ q[1] = Head(s)
  BY <1>2, <1>4, ReadPlaces
<1>6. Queue = q /\ Head(inbox[R]) = Head(s)
  BY <1>2, <1>3, <1>4 DEF Queue
<1> QED BY <1>5, <1>6

\* The rest of the queue after a message of the receiver's inbox.
LEMMA HeadersRead ==
  ASSUME Drops
  PROVE  /\ \A x : (\E i \in 1..Len(Queue') : Alike(Queue'[i], Header(x)))
                     => \E i \in 1..Len(Queue) : Alike(Queue[i], Header(x))
         /\ (\A i \in 1..Len(Queue) : ~IsFile(Queue[i])) => \A i \in 1..Len(Queue') : ~IsFile(Queue'[i])
BY DEF Drops

\* What comes after the chunks of the open file tells that it is whole.
LEMMA CloseFileStep ==
  ASSUME ConsentInv, FileInv, CloseFile
  PROVE  FileInv'
<1>1. /\ task[R] = "files" /\ inbox[R] # <<>> /\ file_state # None /\ Head(inbox[R]).type # "Chunk"
      /\ last_file' = file_state /\ file_state' = None /\ task' = [task EXCEPT ![R] = "result"]
      /\ UNCHANGED <<inbox, wire, main, published, selection, feed, fed, sending, receiving, reader, outcome,
                     given, whole, got, answered>>
  BY DEF CloseFile, Go, callVars, channelVars, senderVars, appVars, historyVars
<1>2. task'[S] = task[S] /\ task'[R] = "result"
  BY <1>1, Ends DEF ConsentInv, Phases
<1>3. PICK x \in File : x = file_state
  BY <1>1 DEF FileInv, Own
<1>4. Queue' = Queue
  BY <1>1 DEF Queue
<1>5. x \in whole /\ given[x] = got[x]
  <2>1. 0 < Len(Queue) /\ Queue[0 + 1] = Head(inbox[R])
    BY <1>1, FirstMessage DEF ConsentInv
  <2>2. Follows(x, got[x], Head(inbox[R]))
    BY <1>1, <1>3, <2>1 DEF FileInv, Linked, Then
  <2> QED BY <1>1, <2>2 DEF Follows, Sent
<1>6. Slots'
  BY <1>1 DEF FileInv, Slots
<1>7. Own'
  BY <1>1, <1>2, <1>3 DEF FileInv, Own, Current, Ended
<1>8. Before'
  BY <1>1, <1>2, <1>4 DEF FileInv, Before, IsFile
<1>9. Fresh'
  <2>1. \A m : Unread(m) => Unread(m)'
    BY <1>1, TransferAssumption DEF Unread, IsFile
  <2> QED BY <1>4, <2>1, FreshSame DEF FileInv
<1>10. Linked' /\ InTurn'
  BY <1>1, <1>2, <1>4, SenderKept, LinkedSame DEF FileInv
<1>11. Once'
  <2>1. \A y \in File : Started(y)' => Started(y)
    BY <1>1, <1>2, <1>4, TransferAssumption DEF Started
  <2> QED BY <1>1, <2>1, OnceKept DEF FileInv
<1>12. Answering'
  BY <1>1, <1>2, <1>3, <1>5 DEF FileInv, Answering
<1> QED BY <1>6, <1>7, <1>8, <1>9, <1>10, <1>11, <1>12 DEF FileInv

\* The app owes nothing any more for the file that is answered.
LEMMA SendResultStep ==
  ASSUME ConsentInv, FileInv, SendResult
  PROVE  FileInv'
<1>1. /\ task[R] = "result" /\ outcome # <<>> /\ outcome' = <<>>
      /\ answered' = answered \cup {last_file} /\ last_file' = None
      /\ \E ms : Send(R, ms)
      /\ \E there \in {"flush", "files"} : task' = [task EXCEPT ![R] = there]
      /\ UNCHANGED <<inbox, main, published, selection, feed, fed, sending, file_state, receiving, reader,
                     given, whole, got>>
  BY DEF SendResult, Go, callVars, senderVars
<1>2. task'[S] = task[S] /\ task'[R] \in {"flush", "files"}
  BY <1>1, Ends DEF ConsentInv, Phases
<1>3. Queue' = Queue
  <2>1. wire'[R] = wire[R]
    BY <1>1, Ends, Others DEF Send, ConsentInv, Channels
  <2> QED BY <1>1, <2>1 DEF Queue
<1>4. /\ file_state = None /\ last_file \in File /\ receiving = <<>>
      /\ \A x \in File : reader[x] # "reading"
  BY <1>1 DEF FileInv, Own, Ended
<1>5. Slots'
  BY <1>1 DEF FileInv, Slots
<1>6. Own'
  BY <1>1, <1>2, <1>4 DEF Own
<1>7. Before'
  BY <1>1, <1>2, <1>3 DEF FileInv, Before, IsFile
<1>8. Fresh'
  <2>1. \A m : Unread(m) => Unread(m)'
    BY <1>1, TransferAssumption DEF Unread, IsFile
  <2> QED BY <1>3, <2>1, FreshSame DEF FileInv
<1>9. Linked' /\ InTurn'
  BY <1>1, <1>2, <1>3, SenderKept, LinkedSame DEF FileInv
<1>10. Once'
  <2>1. \A y \in File : Started(y)' => Started(y)
    BY <1>1, <1>2, <1>3, TransferAssumption DEF Started
  <2> QED BY <1>1, <2>1, OnceKept DEF FileInv
<1>11. Answering'
  BY <1>1, <1>2, <1>4 DEF Answering
<1> QED BY <1>5, <1>6, <1>7, <1>8, <1>9, <1>10, <1>11 DEF FileInv

\* The receiver's task ends, with or without a last message; only a file that it has
\* open can be lost with it.
LEMMA EndTaskStep ==
  ASSUME ConsentInv, FileInv, NEW there \in Ended, task' = [task EXCEPT ![R] = there],
         Queue' = Queue \/ Drops, file_state' = None,
         UNCHANGED <<main, published, selection, feed, fed, sending, last_file, receiving, reader, outcome,
                     given, whole, got, answered>>
  PROVE  FileInv'
<1>1. task'[S] = task[S] /\ task'[R] \in Ended /\ task'[R] # "result"
  BY Ends DEF ConsentInv, Phases, Ended
<1>2. Slots'
  BY DEF FileInv, Slots
<1>3. Own'
  BY <1>1 DEF Own
<1>4. Before'
  BY <1>1, HeadersRead DEF FileInv, Before, IsFile
<1>5. Fresh'
  <2>1. \A m : Unread(m) => Unread(m)'
    BY TransferAssumption DEF Unread, IsFile
  <2>2. CASE Queue' = Queue
    BY <2>1, <2>2, FreshSame DEF FileInv
  <2>3. CASE Drops
    <3>1. \A i \in 2..Len(Queue) : \A m : m = Queue[i] => Unread(m)'
      <4>1. \A i \in 2..Len(Queue) : i \in 1..Len(Queue)
        BY <2>3 DEF Drops
      <4> QED BY <2>1, <4>1 DEF FileInv, Fresh
    <3> QED BY <2>3, <3>1, FreshRead DEF FileInv
  <2> QED BY <2>2, <2>3
<1>6. Linked'
  <2>1. CASE Queue' = Queue
    BY <1>1, <2>1, SenderKept, LinkedSame DEF FileInv
  <2>2. CASE Drops
    BY <1>1, <2>2, LinkedRead DEF FileInv, Linked
  <2> QED BY <2>1, <2>2
<1>7. Once'
  <2>1. \A y \in File : Started(y)' => Started(y)
    BY <1>1, HeadersRead, TransferAssumption DEF Started
  <2> QED BY <2>1, OnceKept DEF FileInv
<1>8. InTurn' /\ Answering'
  BY <1>1, SenderKept DEF Answering
<1> QED BY <1>2, <1>3, <1>4, <1>5, <1>6, <1>7, <1>8 DEF FileInv

\* Nobody has heard of the file of a header before.
LEMMA ReadHeaderStep ==
  ASSUME ConsentInv, FileInv, ReadHeader
  PROVE  FileInv'
<1>1. /\ task[R] = "files" /\ inbox[R] # <<>> /\ Head(inbox[R]).type = "Header" /\ file_state = None
      /\ Read(R) /\ wire' = wire
      /\ UNCHANGED <<task, main, published, selection, feed, fed, sending, last_file, reader, outcome,
                     given, whole, got, answered>>
  BY DEF ReadHeader, callVars, senderVars, historyVars
<1>2. PICK m : m = Head(inbox[R])
  OBVIOUS
<1>3. Drops /\ 1 \in 1..Len(Queue) /\ Queue[1] = m
  BY <1>1, <1>2, QueueRead, FirstMessage DEF ConsentInv
<1>4. PICK x \in File : /\ m.id = x /\ m.type = "Header" /\ IsFile(m) /\ CountOf(m) = 0 /\ Unread(m)
                        /\ Then(1, x, 0)
  <2>1. m.type = "Header" /\ IsFile(m) /\ Unread(m) /\ CountOf(m) = 0
    BY <1>1, <1>2, <1>3 DEF FileInv, Fresh, IsFile, CountOf
  <2>2. Then(1, m.id, CountOf(m))
    BY <1>3, <2>1 DEF FileInv, Linked
  <2> QED BY <2>1, <2>2 DEF Unread
<1>5. /\ got[x] = 0 /\ x \notin answered /\ x # last_file /\ reader[x] = "none" /\ receiving # <<x>>
      /\ Started(x)
  <2>1. Alike(Queue[1], Header(x))
    BY <1>3, <1>4 DEF Alike, Header
  <2> QED BY <1>3, <1>4, <2>1 DEF Unread, Started
<1>6. published # None /\ selection # None
  <2>1. published # None
    BY <1>3, <1>4 DEF FileInv, Before
  <2> QED BY <2>1 DEF ConsentInv, Moving
<1>7. InTurn' /\ (\A i \in 1..Len(Queue') : (IsFile(Queue[i]) => Then(i, Queue[i].id, CountOf(Queue[i])))')
      /\ (\A y, n : Then(1, y, n) => Then(0, y, n)')
  BY <1>1, <1>3, SenderKept, LinkedRead DEF FileInv
<1>8. Before'
  BY <1>1, <1>6 DEF FileInv, Before
<1>9. CASE UNCHANGED <<file_state, receiving>>
  <2>1. Slots' /\ Answering'
    BY <1>1, <1>9 DEF FileInv, Slots, Answering
  <2>2. Own'
    BY <1>1, <1>9 DEF FileInv, Own, Current
  <2>3. Fresh'
    <3>1. \A n : Unread(n) => Unread(n)'
      BY <1>1, <1>9 DEF Unread
    <3>2. \A i \in 2..Len(Queue) : i \in 1..Len(Queue)
      BY <1>3 DEF Drops
    <3>3. \A i \in 2..Len(Queue) : \A n : n = Queue[i] => Unread(n)'
      BY <3>1, <3>2 DEF FileInv, Fresh
    <3> QED BY <1>3, <3>3, FreshRead DEF FileInv
  <2>4. Linked'
    BY <1>1, <1>7, <1>9 DEF Linked
  <2>5. Once'
    <3>1. \A y \in File : Started(y)' => Started(y)
      BY <1>1, <1>3, <1>9, HeadersRead DEF Started
    <3> QED BY <1>1, <3>1, OnceKept DEF FileInv
  <2> QED BY <1>7, <1>8, <2>1, <2>2, <2>3, <2>4, <2>5 DEF FileInv
<1>10. CASE x \in selection /\ receiving = <<>> /\ file_state' = x /\ receiving' = <<x>>
  <2>1. Slots'
    BY <1>1, <1>5, <1>10 DEF FileInv, Slots
  <2>2. Answering'
    BY <1>1, <1>5, <1>6, <1>10 DEF Answering
  <2>3. Own'
    <3>1. Current = None /\ Current' = x /\ None \notin File
      BY <1>1, <1>10, TransferAssumption DEF Current
    <3>2. outcome = <<>> /\ \A y \in File : reader[y] # "reading"
      BY <1>1, <3>1 DEF FileInv, Own, Ended
    <3> QED BY <1>1, <1>10, <3>1, <3>2 DEF Own
  <2>4. Fresh'
    <3>1. ASSUME NEW i \in 2..Len(Queue), NEW n, n = Queue[i] PROVE Unread(n)'
      <4>1. i \in 1..Len(Queue) /\ i # 1
        BY <1>3 DEF Drops
      <4>2. Unread(n) /\ ~Alike(n, m)
        BY <1>3, <3>1, <4>1 DEF FileInv, Fresh
      <4>3. n.type = "Header" => n.id # x
        BY <1>4, <4>2 DEF Alike
      <4>4. \A y : y # x => <<y>> # <<x>>
        OBVIOUS
      <4> QED BY <1>1, <1>10, <4>2, <4>3, <4>4 DEF Unread
    <3> QED BY <1>3, <3>1, FreshRead DEF FileInv
  <2>5. Linked'
    <3>1. Then(0, x, 0)'
      BY <1>4, <1>7
    <3> QED BY <1>1, <1>5, <1>7, <1>10, <3>1 DEF Linked, Then, Follows, AtEnd, Sent
  <2>6. Once'
    <3>1. \A y \in File : Started(y)' => Started(y)
      <4>1. \A y : <<x>> = <<y>> => x = y
        OBVIOUS
      <4> QED BY <1>1, <1>3, <1>5, <1>10, <4>1, HeadersRead DEF Started
    <3> QED BY <1>1, <3>1, OnceKept DEF FileInv
  <2> QED BY <1>7, <1>8, <2>1, <2>2, <2>3, <2>4, <2>5, <2>6 DEF FileInv
<1> QED BY <1>2, <1>4, <1>9, <1>10 DEF ReadHeader

\* The chunk is the next of the open file, and its sender has counted it.
LEMMA ReadChunkStep ==
  ASSUME ConsentInv, FileInv, ReadChunk
  PROVE  FileInv'
<1>1. /\ task[R] = "files" /\ inbox[R] # <<>> /\ Head(inbox[R]).type = "Chunk" /\ Read(R) /\ wire' = wire
      /\ UNCHANGED <<main, published, selection, feed, fed, sending, last_file, receiving, reader, outcome,
                     given, whole, answered>>
  BY DEF ReadChunk, callVars, senderVars
<1>2. PICK m : m = Head(inbox[R])
  OBVIOUS
<1>3. Drops /\ 1 \in 1..Len(Queue) /\ Queue[1] = m
  BY <1>1, <1>2, QueueRead, FirstMessage DEF ConsentInv
<1>4. /\ m.type = "Chunk" /\ IsFile(m) /\ CountOf(m) = m.n /\ m.id \in File /\ m.n \in Nat
      /\ m.n <= given[m.id] /\ Then(1, m.id, m.n)
  <2>1. m.type = "Chunk" /\ IsFile(m) /\ Unread(m) /\ CountOf(m) = m.n
    BY <1>1, <1>2, <1>3 DEF FileInv, Fresh, IsFile, CountOf
  <2>2. Then(1, m.id, CountOf(m))
    BY <1>3, <2>1 DEF FileInv, Linked
  <2> QED BY <2>1, <2>2 DEF Unread
<1>5. published # None
  BY <1>3, <1>4 DEF FileInv, Before
<1>6. CASE Fail(R) /\ UNCHANGED got
  <2>1. task' = [task EXCEPT ![R] = "err"] /\ file_state' = None /\ "err" \in Ended
    BY <1>6 DEF Fail, Go, Ended
  <2> QED BY <1>1, <1>3, <1>6, <2>1, EndTaskStep
<1>7. CASE /\ UNCHANGED <<task, file_state>>
           /\ \/ file_state = None /\ UNCHANGED got
              \/ file_state # None /\ got' = [got EXCEPT ![file_state] = @ + 1]
  <2>1. /\ \A x \in File : got'[x] = got[x] \/ (x = file_state /\ got'[x] = got[x] + 1)
        /\ got' \in [File -> Nat]
        /\ file_state # None => file_state \in File
    BY <1>7 DEF FileInv, Slots, Own
  <2>2. file_state # None => m.id = file_state /\ got'[file_state] = m.n
    <3> SUFFICES ASSUME file_state # None PROVE m.id = file_state /\ got'[file_state] = m.n
      OBVIOUS
    <3>1. PICK x \in File : x = file_state
      BY <2>1
    <3>2. 0 < Len(Queue) /\ Queue[0 + 1] = m
      BY <1>3 DEF Drops
    <3>3. Follows(x, got[x], m)
      BY <3>1, <3>2 DEF FileInv, Linked, Then
    <3> QED BY <1>4, <1>7, <3>1, <3>3 DEF Follows, FileInv, Slots
  <2>3. Slots' /\ Own'
    <3>1. Slots'
      BY <1>1, <2>1 DEF FileInv, Slots
    <3> QED BY <1>1, <1>7, <3>1 DEF FileInv, Own, Current
  <2>4. Before'
    BY <1>1, <1>5, <1>7 DEF FileInv, Before
  <2>5. Fresh'
    <3>1. \A n : Unread(n) => Unread(n)'
      <4>1. ASSUME NEW n, Unread(n), n.type = "Header" PROVE got'[n.id] = 0
        BY <2>1, <4>1 DEF Unread, IsFile
      <4> QED BY <1>1, <1>7, <4>1 DEF Unread
    <3>2. \A i \in 2..Len(Queue) : i \in 1..Len(Queue)
      BY <1>3 DEF Drops
    <3>3. \A i \in 2..Len(Queue) : \A n : n = Queue[i] => Unread(n)'
      BY <3>1, <3>2 DEF FileInv, Fresh
    <3> QED BY <1>3, <3>3, FreshRead DEF FileInv
  <2>6. Linked'
    <3>1. /\ \A i \in 1..Len(Queue') : (IsFile(Queue[i]) => Then(i, Queue[i].id, CountOf(Queue[i])))'
          /\ \A y, n : Then(1, y, n) => Then(0, y, n)'
      BY <1>1, <1>3, <1>7, LinkedRead DEF FileInv
    <3>2. PICK y, n : y = m.id /\ n = m.n
      OBVIOUS
    <3>3. Then(0, y, n)'
      BY <1>4, <3>1, <3>2
    <3>4. file_state' # None => y = file_state' /\ n = got'[file_state']
      BY <1>7, <2>2, <3>2
    <3> QED BY <3>1, <3>3, <3>4 DEF Linked, Then, Follows, AtEnd, Sent
  <2>7. Once'
    <3>1. \A x \in File : Started(x)' => Started(x)
      BY <1>1, <1>3, <1>7, <2>1, HeadersRead DEF Started
    <3> QED BY <1>1, <3>1, OnceKept DEF FileInv
  <2>8. InTurn'
    <3>1. ASSUME NEW x \in File PROVE got'[x] <= given[x]
      <4>1. CASE got'[x] = got[x]
        BY <4>1 DEF FileInv, InTurn
      <4>2. CASE x = file_state
        <5>1. file_state # None
          BY <4>2, TransferAssumption
        <5> QED BY <1>4, <2>2, <4>2, <5>1
      <4> QED BY <2>1, <4>1, <4>2
    <3> QED BY <1>1, <1>7, <3>1 DEF FileInv, InTurn, CanSend
  <2>9. Answering'
    BY <1>1, <1>7 DEF FileInv, Answering
  <2> QED BY <2>3, <2>4, <2>5, <2>6, <2>7, <2>8, <2>9 DEF FileInv
<1> QED BY <1>6, <1>7 DEF ReadChunk

LEMMA EndTaskSteps ==
  ASSUME ConsentInv, FileInv,
         \/ EndOfAllFiles \/ DelimiterAsHeader
         \/ SendFails(R) /\ task[R] = "result"
  PROVE  FileInv'
<1> USE DEF callVars, senderVars, receiverVars, appVars, historyVars
<1>1. /\ \E there \in Ended : task' = [task EXCEPT ![R] = there]
      /\ UNCHANGED <<main, published, selection, feed, fed, sending, last_file, receiving, reader, outcome,
                     given, whole, got, answered>>
  BY DEF EndOfAllFiles, DelimiterAsHeader, SendFails, Fail, Go, Ended
<1>2. file_state' = None
  BY DEF EndOfAllFiles, DelimiterAsHeader, SendFails, Fail, FileInv, Own
<1>3. Queue' = Queue \/ Drops
  BY QueueRead DEF EndOfAllFiles, DelimiterAsHeader, SendFails, channelVars, Queue, ConsentInv
<1> QED BY <1>1, <1>2, <1>3, EndTaskStep

-----------------------------------------------------------------------------
(* The receiving app.                                                       *)

\* What a step of the receiving app leaves alone.
LEMMA TasksKept ==
  ASSUME FileInv, Queue' = Queue,
         UNCHANGED <<task, main, published, selection, sending, file_state, last_file, given, whole, got, answered>>
  PROVE  Before' /\ Linked' /\ InTurn' /\ Answering'
<1>1. Before'
  BY DEF FileInv, Before, IsFile
<1>2. Linked' /\ InTurn'
  BY SenderKept, LinkedSame DEF FileInv
<1>3. Answering'
  BY DEF FileInv, Answering
<1> QED BY <1>1, <1>2, <1>3

LEMMA TakeFileStep ==
  ASSUME FileInv, TakeFile
  PROVE  FileInv'
<1>1. /\ receiving # <<>> /\ receiving' = <<>> /\ reader' = [reader EXCEPT ![Head(receiving)] = "reading"]
      /\ Queue' = Queue
      /\ UNCHANGED <<task, main, published, selection, feed, fed, sending, file_state, last_file, outcome,
                     given, whole, got, answered>>
  BY DEF TakeFile, Queue, callVars, channelVars, senderVars, historyVars
<1>2. PICK x \in File : receiving = <<x>> /\ Head(receiving) = x
  BY <1>1 DEF FileInv, Slots
<1>3. /\ reader'[x] = "reading" /\ reader' = [y \in File |-> reader'[y]]
      /\ \A y \in File : y # x => reader'[y] = reader[y]
  BY <1>1, <1>2 DEF FileInv, Slots
<1>4. Slots'
  BY <1>1, <1>3 DEF FileInv, Slots
<1>5. Own'
  <2>1. \A y : <<x>> = <<y>> => x = y
    OBVIOUS
  <2>2. task[R] \notin Ended => x = Current /\ outcome = <<>> /\ \A y \in File : reader[y] # "reading"
    BY <1>2, <2>1 DEF FileInv, Own
  <2>3. Current' = Current
    BY <1>1 DEF Current
  <2> QED BY <1>1, <1>3, <2>2, <2>3 DEF FileInv, Own
<1>6. Before' /\ Linked' /\ InTurn' /\ Answering'
  BY <1>1, TasksKept
<1>7. Fresh'
  <2>1. \A m : Unread(m) => Unread(m)'
    <3>1. ASSUME NEW m, Unread(m), m.type = "Header" PROVE m.id \in File /\ m.id # x /\ <<>> # <<m.id>>
      BY <1>2, <3>1 DEF Unread, IsFile
    <3> QED BY <1>1, <1>3, <3>1 DEF Unread
  <2> QED BY <1>1, <2>1, FreshSame DEF FileInv
<1>8. Once'
  <2>1. \A y \in File : Started(y)' => Started(y)
    BY <1>1, <1>2, <1>3 DEF Started
  <2> QED BY <1>1, <2>1, OnceKept DEF FileInv
<1> QED BY <1>4, <1>5, <1>6, <1>7, <1>8 DEF FileInv

LEMMA ReportStep ==
  ASSUME FileInv, NEW f \in File, Report(f)
  PROVE  FileInv'
<1>1. /\ reader[f] = "reading" /\ outcome = <<>>
      /\ \E ok \in BOOLEAN : outcome' = <<[id |-> f, success |-> ok]>>
      /\ \E r \in {"done", "failed", "dropped"} : reader' = [reader EXCEPT ![f] = r]
      /\ Queue' = Queue
      /\ UNCHANGED <<task, main, published, selection, feed, fed, sending, file_state, last_file, receiving,
                     given, whole, got, answered>>
  BY DEF Report, Queue, callVars, channelVars, senderVars, historyVars
<1>2. /\ reader'[f] \in {"done", "failed", "dropped"} /\ reader' = [y \in File |-> reader'[y]]
      /\ \A y \in File : y # f => reader'[y] = reader[y]
  BY <1>1 DEF FileInv, Slots
<1>3. Slots'
  BY <1>1, <1>2 DEF FileInv, Slots
<1>4. Own'
  <2>1. task[R] \notin Ended => f = Current /\ receiving = <<>> /\ \A y \in File : reader[y] = "reading" => y = f
    BY <1>1 DEF FileInv, Own
  <2>2. Current' = Current
    BY <1>1 DEF Current
  <2> QED BY <1>1, <1>2, <2>1, <2>2 DEF FileInv, Own
<1>5. Before' /\ Linked' /\ InTurn' /\ Answering'
  BY <1>1, TasksKept
<1>6. Fresh'
  <2>1. \A m : Unread(m) => Unread(m)'
    <3>1. ASSUME NEW m, Unread(m), m.type = "Header" PROVE m.id \in File /\ m.id # f
      BY <1>1, <3>1 DEF Unread, IsFile
    <3> QED BY <1>1, <1>2, <3>1 DEF Unread
  <2> QED BY <1>1, <2>1, FreshSame DEF FileInv
<1>7. Once'
  <2>1. \A y \in File : Started(y)' => Started(y)
    BY <1>1, <1>2 DEF Started
  <2> QED BY <1>1, <2>1, OnceKept DEF FileInv
<1> QED BY <1>3, <1>4, <1>5, <1>6, <1>7 DEF FileInv

-----------------------------------------------------------------------------
(* The invariant.                                                           *)

LEMMA FileInit == Init => FileInv
<1> SUFFICES ASSUME Init PROVE FileInv
  OBVIOUS
<1>1. /\ main = [e \in End |-> "start"] /\ task[S] = "open" /\ task[R] = "nonce"
      /\ wire = [e \in End |-> <<>>] /\ inbox = [e \in End |-> <<>>]
      /\ published = None /\ feed = <<>> /\ file_state = None /\ last_file = None
      /\ receiving = <<>> /\ reader = [f \in File |-> "none"] /\ outcome = <<>>
      /\ given = [f \in File |-> 0] /\ got = [f \in File |-> 0] /\ whole = {} /\ answered = {}
  BY Ends DEF Init
<1>2. Len(Queue) = 0
  BY <1>1, Ends DEF Queue
<1>3. \A i : i \notin 1..Len(Queue)
  BY <1>2
<1>4. Slots /\ Before /\ Answering
  BY <1>1, <1>3 DEF Slots, Before, Answering
<1>5. Own /\ Fresh /\ Linked
  BY <1>1, <1>3 DEF Own, Fresh, Linked
<1>6. Once
  <2>1. \A x \in File : <<>> # <<x>> /\ x # None
    BY TransferAssumption
  <2>2. \A x \in File : ~Started(x)
    BY <1>1, <1>3, <2>1 DEF Started
  <2> QED BY <2>2 DEF Once
<1>7. InTurn
  BY <1>1 DEF InTurn
<1> QED BY <1>4, <1>5, <1>6, <1>7 DEF FileInv

LEMMA FileNext == ConsentInv /\ FileInv /\ [Next]_vars => FileInv'
<1> SUFFICES ASSUME ConsentInv, FileInv, [Next]_vars PROVE FileInv'
  OBVIOUS
<1>1. CASE SendTask
  <2>1. CASE \/ OpenChannel \/ ReceiveNonce(S) \/ ReceiveTokenResponse \/ Challenged(S)
             \/ ReceivePinReceivingResponse \/ Verify(S) \/ SendList \/ ReceiveSelection
    BY <2>1, EarlySteps, Ends DEF Challenged
  <2>2. CASE StartFile \/ SendChunk \/ EndFile \/ SendDelimiter \/ ReceiveLast
    BY <2>2, StartFileStep, SendChunkStep, EndFileStep, LastSteps
  <2>3. CASE SendFails(S)
    BY <2>3, SenderFailsStep
  <2> QED BY <1>1, <2>1, <2>2, <2>3 DEF SendTask
<1>2. CASE ReceiveTask
  <2>1. CASE \/ ReceiveNonce(R) \/ ReceiveToken \/ Verify(R) \/ ReceivePinSendingResponse \/ Challenged(R)
    BY <2>1, EarlySteps, Ends DEF Challenged
  <2>2. CASE CloseFile \/ SendResult \/ ReadHeader \/ ReadChunk
    BY <2>2, CloseFileStep, SendResultStep, ReadHeaderStep, ReadChunkStep
  <2>3. CASE EndOfAllFiles \/ DelimiterAsHeader \/ SendFails(R)
    BY <2>3, EndTaskSteps, EarlySteps, Ends
  <2> QED BY <1>2, <2>1, <2>2, <2>3 DEF ReceiveTask
<1>3. CASE App
  <2>1. CASE Choose \/ \E e \in End : TypePin(e) \/ TypePinTooLate(e)
    BY <2>1, EarlySteps, Ends
  <2>2. CASE TakeFile \/ DropSendController
    BY <2>2, TakeFileStep, CallSteps
  <2>3. CASE \E f \in File : SendFile(f) \/ Write(f) \/ Report(f)
    BY <2>3, SendFileStep, CallSteps, ReportStep
  <2> QED BY <1>3, <2>1, <2>2, <2>3 DEF App
<1>4. CASE \/ SendOffer \/ OnAnswer \/ AcceptOffer \/ ReceiveAnswer \/ LoseLink
           \/ \E e \in End : Call(e) \/ Deliver(e)
           \/ UNCHANGED vars
  BY <1>4, CallSteps
<1> QED BY <1>1, <1>2, <1>3, <1>4 DEF Next

\* The outcome that goes out under a file's id is the one the app reported for that
\* file, although accept_offer never looks at the id it comes with.
THEOREM EachOutcomeIsItsFiles == Spec => []OutcomeIsOwn
<1>1. FileInv => OutcomeIsOwn
  BY DEF FileInv, Own, OutcomeIsOwn, Current, Ended
<1> QED BY <1>1, ConsentInit, ConsentNext, FileInit, FileNext, PTL DEF Spec

-----------------------------------------------------------------------------
(* The promise: every step is a step of FileTransfer or leaves its          *)
(* variables alone.                                                         *)

promiseVars == <<accepted, asked, selection, given, whole, file_state, got, answered>>
Granting == IF selection = None THEN {} ELSE selection

LEMMA PromiseStutter == UNCHANGED promiseVars => UNCHANGED Transfer!vars
  BY DEF promiseVars, Transfer!vars

LEMMA PromiseInit == Init => Transfer!Init
  BY DEF Init, Transfer!Init

\* Nothing is open before the files, so a task that fails there abandons nothing.
LEMMA PromiseEarly ==
  ASSUME ConsentInv, FileInv, ConsentInv', NEW e \in End,
         \/ OpenChannel \/ ReceiveNonce(e) \/ ReceiveToken \/ ReceiveTokenResponse
         \/ AskPin(e) \/ FillSlot(e) \/ TypePin(e) \/ TypePinTooLate(e)
         \/ ReceivePinReceivingResponse \/ ReceivePinSendingResponse \/ Verify(e)
         \/ SendList \/ ReceiveSelection
  PROVE  [Transfer!Next]_Transfer!vars
<1> USE DEF senderVars, receiverVars, appVars, historyVars
<1>1. ASSUME NEW x \in End, accepted' = accepted \cup {x},
             UNCHANGED <<asked, selection, given, whole, file_state, got, answered>>
      PROVE  [Transfer!Next]_Transfer!vars
  BY <1>1 DEF Transfer!Next, Transfer!Accept
<1>2. ASSUME NEW x \in End, Challenge(x) PROVE accepted' = accepted \/ accepted' = accepted \cup {x}
  BY <1>2 DEF Challenge
<1>3. task[R] \in {"token", "pin", "verify", "list", "answer", "typing"} => file_state = None
  BY NoneOpen DEF Granted
<1>4. CASE OpenChannel \/ ReceiveNonce(e) \/ AskPin(e) \/ FillSlot(e) \/ TypePin(e) \/ SendList \/ ReceiveSelection
  <2>1. UNCHANGED promiseVars
    BY <1>4 DEF OpenChannel, ReceiveNonce, AskPin, FillSlot, TypePin, SendList, ReceiveSelection, promiseVars
  <2> QED BY <2>1, PromiseStutter
<1>5. CASE ReceiveToken
  <2>1. file_state' = file_state
    BY <1>3, <1>5 DEF ReceiveToken, Fail
  <2>2. accepted' = accepted \/ accepted' = accepted \cup {R}
    BY <1>2, <1>5, Ends DEF ReceiveToken
  <2>3. UNCHANGED <<asked, selection, given, whole, got, answered>>
    BY <1>5 DEF ReceiveToken
  <2> QED BY <1>1, <2>1, <2>2, <2>3, Ends, PromiseStutter DEF promiseVars
<1>6. CASE ReceiveTokenResponse \/ ReceivePinReceivingResponse
  <2>1. accepted' = accepted \/ accepted' = accepted \cup {S}
    BY <1>2, <1>6, Ends DEF ReceiveTokenResponse, ReceivePinReceivingResponse
  <2>2. UNCHANGED <<asked, selection, given, whole, file_state, got, answered>>
    BY <1>6 DEF ReceiveTokenResponse, ReceivePinReceivingResponse
  <2> QED BY <1>1, <2>1, <2>2, Ends, PromiseStutter DEF promiseVars
<1>7. CASE TypePinTooLate(e)
  <2>1. task[e] = "typing"
    BY <1>7 DEF TypePinTooLate, ConsentInv, Phases
  <2>2. UNCHANGED promiseVars
    BY <1>3, <1>7, <2>1 DEF TypePinTooLate, Fail, promiseVars
  <2> QED BY <2>2, PromiseStutter
<1>8. CASE ReceivePinSendingResponse
  <2>1. file_state' = file_state
    BY <1>3, <1>8 DEF ReceivePinSendingResponse, Fail
  <2>2. UNCHANGED <<accepted, selection, given, whole, got, answered>>
    BY <1>8 DEF ReceivePinSendingResponse
  <2>3. asked' = asked \/ asked' = TRUE
    BY <1>8 DEF ReceivePinSendingResponse
  <2>4. asked' => accepted = End
    BY <2>2 DEF ConsentInv, Asking
  <2>5. CASE asked' = TRUE
    BY <2>1, <2>2, <2>4, <2>5 DEF Transfer!Next, Transfer!Ask
  <2> QED BY <2>1, <2>2, <2>3, <2>5, PromiseStutter DEF promiseVars
<1>9. CASE PinRight(e)
  <2>1. accepted' = accepted \cup {e} /\ UNCHANGED <<asked, selection, given, whole, file_state, got, answered>>
    BY <1>9 DEF PinRight
  <2> QED BY <1>1, <2>1
<1>10. CASE PinWanted(e) \/ PinExhausted(e) \/ ReceivePin(e)
  <2>1. UNCHANGED promiseVars
    BY <1>3, <1>10 DEF PinWanted, PinExhausted, ReceivePin, Fail, promiseVars
  <2> QED BY <2>1, PromiseStutter
<1> QED BY <1>4, <1>5, <1>6, <1>7, <1>8, <1>9, <1>10 DEF Verify

LEMMA PromiseChoose ==
  ASSUME ConsentInv, Choose
  PROVE  [Transfer!Next]_Transfer!vars
<1>1. asked /\ selection = None
  BY DEF Choose, ConsentInv, Asking, Granted
<1>2. selection' \in SUBSET File /\ selection' # None
  BY TransferAssumption DEF Choose
<1>3. UNCHANGED <<accepted, asked, given, whole, file_state, got, answered>>
  BY DEF Choose, historyVars
<1> QED BY <1>1, <1>2, <1>3 DEF Transfer!Next, Transfer!Grant

LEMMA PromiseSend ==
  ASSUME ConsentInv, FileInv,
         \/ StartFile \/ SendChunk \/ EndFile \/ SendDelimiter \/ ReceiveLast \/ SendFails(S)
  PROVE  [Transfer!Next]_Transfer!vars
<1> USE DEF senderVars, receiverVars, appVars, historyVars
<1>1. task[S] = "file" => sending \in File \ whole /\ sending \in Granting
  BY DEF FileInv, InTurn, ConsentInv, Moving, Feeding, Granting
<1>2. CASE StartFile \/ SendDelimiter \/ ReceiveLast \/ SendFails(S)
  <2>1. UNCHANGED promiseVars
    BY <1>2, Ends DEF StartFile, SendDelimiter, ReceiveLast, SendFails, Fail, promiseVars
  <2> QED BY <2>1, PromiseStutter
<1>3. CASE SendChunk
  <2>1. /\ task[S] = "file" /\ given' = [given EXCEPT ![sending] = @ + 1]
        /\ UNCHANGED <<accepted, asked, selection, whole, file_state, got, answered>>
    BY <1>3 DEF SendChunk
  <2>2. \A g \in File \ {sending} : given[g] > 0 => g \in whole
    BY <1>3, <2>1 DEF SendChunk, FileInv, InTurn
  <2> QED BY <1>1, <2>1, <2>2 DEF Transfer!Next, Transfer!Give, Granting
<1>4. CASE EndFile
  <2>1. task[S] = "file" /\ UNCHANGED <<accepted, asked, selection, given, file_state, got, answered>>
    BY <1>4 DEF EndFile
  <2>2. whole' = whole \/ whole' = whole \cup {sending}
    BY <1>4 DEF EndFile
  <2>3. CASE whole' = whole
    BY <2>1, <2>3, PromiseStutter DEF promiseVars
  <2>4. CASE whole' = whole \cup {sending}
    BY <1>1, <2>1, <2>4 DEF Transfer!Next, Transfer!Complete, Granting
  <2> QED BY <2>2, <2>3, <2>4
<1> QED BY <1>2, <1>3, <1>4

LEMMA PromiseReceive ==
  ASSUME ConsentInv, FileInv, FileInv',
         \/ CloseFile \/ SendResult \/ EndOfAllFiles \/ ReadHeader \/ DelimiterAsHeader \/ ReadChunk
         \/ SendFails(R)
  PROVE  [Transfer!Next]_Transfer!vars
<1> USE DEF senderVars, receiverVars, appVars, historyVars
<1>1. file_state # None => task[R] = "files" /\ file_state \in File
  BY DEF FileInv, Own
<1>2. CASE CloseFile
  <2>1. /\ last_file' = file_state /\ file_state # None /\ file_state' = None
        /\ UNCHANGED <<accepted, asked, selection, given, whole, got, answered>>
    BY <1>2 DEF CloseFile
  <2>2. task'[R] = "result"
    BY <1>2, Ends DEF CloseFile, Go, ConsentInv, Phases
  <2>3. file_state \in whole /\ got[file_state] = given[file_state]
    BY <2>1, <2>2 DEF FileInv, Answering
  <2> QED BY <2>1, <2>3 DEF Transfer!Next, Transfer!Finish
<1>3. CASE SendResult
  <2>1. /\ task[R] = "result" /\ answered' = answered \cup {last_file}
        /\ UNCHANGED <<accepted, asked, selection, given, whole, file_state, got>>
    BY <1>3 DEF SendResult
  <2>2. /\ last_file \in File /\ file_state = None /\ last_file # None
        /\ last_file \in (Granting \cap whole) \ answered /\ got[last_file] = given[last_file]
    BY <1>1, <2>1, TransferAssumption DEF FileInv, Own, Answering, Granting
  <2> QED BY <2>1, <2>2 DEF Transfer!Next, Transfer!Answer, Granting
<1>4. CASE EndOfAllFiles \/ DelimiterAsHeader \/ SendFails(R)
  <2>1. UNCHANGED promiseVars
    BY <1>1, <1>4 DEF EndOfAllFiles, DelimiterAsHeader, SendFails, Fail, promiseVars
  <2> QED BY <2>1, PromiseStutter
<1>5. CASE ReadHeader
  <2>1. file_state = None /\ UNCHANGED <<accepted, asked, selection, given, whole, got, answered>>
    BY <1>5 DEF ReadHeader
  <2>2. CASE file_state' = None
    BY <2>1, <2>2, PromiseStutter DEF promiseVars
  <2>3. CASE file_state' # None
    <3>1. file_state' \in File /\ file_state' \in Granting \ answered
      BY <2>1, <2>3 DEF FileInv, Own, Answering, Granting
    <3> QED BY <2>1, <3>1 DEF Transfer!Next, Transfer!Begin, Granting
  <2> QED BY <2>2, <2>3
<1>6. CASE ReadChunk
  <2>1. UNCHANGED <<accepted, asked, selection, given, whole, answered>>
    BY <1>6 DEF ReadChunk
  <2>2. CASE UNCHANGED <<file_state, got>>
    BY <2>1, <2>2, PromiseStutter DEF promiseVars
  <2>3. CASE file_state # None /\ file_state' = None /\ UNCHANGED got
    BY <2>1, <2>3 DEF Transfer!Next, Transfer!Abandon
  <2>4. CASE file_state # None /\ got' = [got EXCEPT ![file_state] = @ + 1] /\ UNCHANGED file_state
    <3>1. got[file_state] \in Nat /\ given[file_state] \in Nat /\ got'[file_state] = got[file_state] + 1
      BY <1>1, <2>4 DEF FileInv, Slots
    <3>2. got'[file_state] <= given[file_state]
      BY <1>1, <2>1, <2>4 DEF FileInv, InTurn
    <3>3. got[file_state] < given[file_state]
      BY <3>1, <3>2
    <3> QED BY <2>1, <2>4, <3>3 DEF Transfer!Next, Transfer!Take
  <2> QED BY <1>6, <2>2, <2>3, <2>4 DEF ReadChunk, Fail
<1> QED BY <1>2, <1>3, <1>4, <1>5, <1>6

LEMMA PromiseNext ==
  ConsentInv /\ FileInv /\ ConsentInv' /\ FileInv' /\ [Next]_vars => [Transfer!Next]_Transfer!vars
<1> SUFFICES ASSUME ConsentInv, FileInv, ConsentInv', FileInv', [Next]_vars
             PROVE  [Transfer!Next]_Transfer!vars
  OBVIOUS
<1>1. CASE SendTask
  BY <1>1, PromiseEarly, PromiseSend, Ends DEF SendTask, Challenged
<1>2. CASE ReceiveTask
  BY <1>2, PromiseEarly, PromiseReceive, Ends DEF ReceiveTask, Challenged
<1>3. CASE Choose \/ \E e \in End : TypePin(e) \/ TypePinTooLate(e)
  BY <1>3, PromiseEarly, PromiseChoose, Ends
<1>4. CASE \/ SendOffer \/ OnAnswer \/ AcceptOffer \/ ReceiveAnswer \/ LoseLink
           \/ (\E e \in End : Call(e) \/ Deliver(e)) \/ UNCHANGED vars
           \/ TakeFile \/ DropSendController \/ \E f \in File : SendFile(f) \/ Write(f) \/ Report(f)
  <2>1. UNCHANGED promiseVars
    BY <1>4 DEF SendOffer, OnAnswer, AcceptOffer, ReceiveAnswer, LoseLink, Call, JoinTask, Disconnected, Deliver,
       vars, TakeFile, DropSendController, SendFile, Write, Report, promiseVars, receiverVars, appVars, historyVars
  <2> QED BY <2>1, PromiseStutter
<1> QED BY <1>1, <1>2, <1>3, <1>4 DEF Next, App

\* The two calls implement what a transfer promises its users: both challenges come
\* before the list, only selected files move, one at a time and each chunk in its place,
\* and a file ends at the receiver only with all that its sender gave.
THEOREM KeepsItsPromise == Spec => Promise
<1>1. Spec => []ConsentInv
  BY ConsentInit, ConsentNext, PTL DEF Spec
<1>2. Spec => []FileInv
  BY <1>1, FileInit, FileNext, PTL DEF Spec
<1> QED BY <1>1, <1>2, PromiseInit, PromiseNext, PTL DEF Spec, Promise, Transfer!Spec

-----------------------------------------------------------------------------
(* The order of the chunks.                                                 *)

ChunkPair == File \X Nat
OrderInv ==
  /\ stream \in [File -> Seq(ChunkPair)] /\ saved \in [File -> Seq(ChunkPair)]
  /\ InOrder

LEMMA Appended ==
  \A M : \A s, t \in Seq(M) : \A v \in M : s \o Append(t, v) = Append(s \o t, v)
<1> SUFFICES ASSUME NEW M, NEW s \in Seq(M), NEW t \in Seq(M), NEW v \in M
             PROVE  s \o Append(t, v) = Append(s \o t, v)
  OBVIOUS
<1>1. PICK u \in Seq(M) : u = <<v>>
  BY Single
<1>2. Append(t, v) = t \o u /\ Append(s \o t, v) = (s \o t) \o u
  BY <1>1, Concat, AppendIsConcat
<1> QED BY <1>2, Regroup

LEMMA Moved ==
  \A M : \A s, t \in Seq(M) : t # <<>> => Append(s, Head(t)) \o Tail(t) = s \o t
<1> SUFFICES ASSUME NEW M, NEW s \in Seq(M), NEW t \in Seq(M), t # <<>>
             PROVE  Append(s, Head(t)) \o Tail(t) = s \o t
  OBVIOUS
<1>1. Head(t) \in M /\ Tail(t) \in Seq(M)
  BY Beheaded
<1>2. PICK h \in Seq(M) : h = <<Head(t)>>
  BY <1>1, Single
<1>3. PICK u \in Seq(M) : u = Tail(t)
  BY Beheaded
<1>4. h \o u = t
  BY <1>2, <1>3, HeadFirst
<1>5. Append(s, Head(t)) = s \o h
  BY <1>1, <1>2, AppendIsConcat
<1>6. (s \o h) \o u = s \o (h \o u)
  BY Regroup
<1> QED BY <1>3, <1>4, <1>5, <1>6

Count(f, n) == [i \in 1..n |-> <<f, i>>]

LEMMA Counting ==
  ASSUME NEW f \in File, NEW n \in Nat
  PROVE  Count(f, n) \in Seq(ChunkPair) /\ Append(Count(f, n), <<f, n + 1>>) = Count(f, n + 1)
<1>1. \A k \in Nat : Count(f, k) \in Seq(ChunkPair) /\ Len(Count(f, k)) = k
  BY DEF Count, ChunkPair
<1>2. PICK s \in Seq(ChunkPair) : s = Count(f, n)
  BY <1>1
<1>3. PICK v \in ChunkPair : v = <<f, n + 1>>
  <2>1. n + 1 \in Nat
    OBVIOUS
  <2> QED BY <2>1 DEF ChunkPair
<1>4. PICK a \in Seq(ChunkPair) : a = Append(s, v)
  BY AppendProperties
<1>5. Len(s) = n /\ Len(a) = n + 1 /\ a[n + 1] = v /\ \A i \in 1..n : a[i] = s[i]
  BY <1>1, <1>2, <1>4, AppendProperties
<1>6. PICK b \in Seq(ChunkPair) : b = Count(f, n + 1)
  BY <1>1
<1>7. Len(b) = n + 1 /\ \A i \in 1..n + 1 : b[i] = <<f, i>>
  BY <1>1, <1>6 DEF Count
<1>8. \A i \in 1..n : s[i] = <<f, i>>
  BY <1>2 DEF Count
<1>9. ASSUME NEW i \in 1..n + 1 PROVE a[i] = b[i]
  <2>1. CASE i = n + 1
    BY <1>3, <1>5, <1>7, <2>1
  <2>2. CASE i \in 1..n
    BY <1>5, <1>7, <1>8, <2>2
  <2> QED BY <2>1, <2>2
<1>10. a = b
  BY <1>5, <1>7, <1>9, SeqEqual
<1> QED BY <1>1, <1>2, <1>3, <1>4, <1>6, <1>10

LEMMA OrderStill ==
  ASSUME OrderInv, UNCHANGED <<stream, saved, got>>,
         \A f \in File : reader[f] \in {"failed", "dropped"} => reader'[f] \in {"failed", "dropped"}
  PROVE  OrderInv'
BY DEF OrderInv, InOrder

LEMMA OrderChunk ==
  ASSUME ConsentInv, FileInv, OrderInv, ReadChunk
  PROVE  OrderInv'
<1>1. UNCHANGED <<saved, reader>> /\ inbox[R] # <<>> /\ Head(inbox[R]).type = "Chunk"
  BY DEF ReadChunk
<1>2. CASE UNCHANGED <<stream, got>>
  BY <1>1, <1>2, OrderStill
<1>3. CASE ~UNCHANGED <<stream, got>>
  <2>1. /\ file_state # None
        /\ stream' = [stream EXCEPT ![file_state] = Append(@, <<Head(inbox[R]).id, Head(inbox[R]).n>>)]
        /\ got' = [got EXCEPT ![file_state] = @ + 1]
    BY <1>3 DEF ReadChunk
  <2>2. PICK x \in File : x = file_state
    BY <2>1 DEF FileInv, Own
  <2>3. PICK n \in Nat : n = got[x]
    BY DEF FileInv, Slots
  <2>4. Head(inbox[R]).id = x /\ Head(inbox[R]).n = n + 1
    <3>1. 0 < Len(Queue) /\ Queue[0 + 1] = Head(inbox[R])
      BY <1>1, FirstMessage DEF ConsentInv
    <3>2. Follows(x, n, Head(inbox[R]))
      BY <2>1, <2>2, <2>3, <3>1 DEF FileInv, Linked, Then
    <3> QED BY <1>1, <3>2 DEF Follows
  <2>5. PICK v \in ChunkPair : v = <<x, n + 1>>
    <3>1. n + 1 \in Nat
      OBVIOUS
    <3> QED BY <3>1 DEF ChunkPair
  <2>6. PICK t \in Seq(ChunkPair) : t = stream[x]
    BY DEF OrderInv
  <2>7. PICK s \in Seq(ChunkPair) : s = saved[x]
    BY DEF OrderInv
  <2>8. stream' = [stream EXCEPT ![x] = Append(t, v)] /\ Append(t, v) \in Seq(ChunkPair)
    BY <2>1, <2>2, <2>4, <2>5, <2>6, AppendProperties
  <2>9. stream' \in [File -> Seq(ChunkPair)] /\ stream'[x] = Append(t, v) /\ got'[x] = n + 1
        /\ \A y \in File : y # x => stream'[y] = stream[y] /\ got'[y] = got[y]
    BY <2>1, <2>2, <2>3, <2>8 DEF OrderInv, FileInv, Slots
  <2>10. s \o t = Count(x, n) => s \o Append(t, v) = Count(x, n + 1)
    <3>1. s \o Append(t, v) = Append(s \o t, v)
      BY Appended
    <3> QED BY <2>5, <3>1, Counting
  <2>11. InOrder'
    BY <1>1, <2>3, <2>6, <2>7, <2>9, <2>10 DEF OrderInv, InOrder, Count
  <2> QED BY <1>1, <2>9, <2>11 DEF OrderInv
<1> QED BY <1>2, <1>3

LEMMA OrderWrite ==
  ASSUME OrderInv, NEW f \in File, Write(f)
  PROVE  OrderInv'
<1>1. /\ reader[f] \in {"reading", "failed"} /\ stream[f] # <<>>
      /\ stream' = [stream EXCEPT ![f] = Tail(@)] /\ UNCHANGED <<reader, got>>
      /\ saved' = IF reader[f] = "reading" THEN [saved EXCEPT ![f] = Append(@, Head(stream[f]))] ELSE saved
  BY DEF Write, historyVars
<1>2. PICK t \in Seq(ChunkPair) : t = stream[f]
  BY DEF OrderInv
<1>3. PICK s \in Seq(ChunkPair) : s = saved[f]
  BY DEF OrderInv
<1>4. Head(t) \in ChunkPair /\ Tail(t) \in Seq(ChunkPair) /\ Append(s, Head(t)) \in Seq(ChunkPair)
  BY <1>1, <1>2, Beheaded
<1>5. /\ stream' \in [File -> Seq(ChunkPair)] /\ saved' \in [File -> Seq(ChunkPair)]
      /\ stream'[f] = Tail(t) /\ (reader[f] = "reading" => saved'[f] = Append(s, Head(t)))
      /\ \A y \in File : y # f => stream'[y] = stream[y] /\ saved'[y] = saved[y]
  BY <1>1, <1>2, <1>3, <1>4 DEF OrderInv
<1>6. reader[f] = "reading" => saved'[f] \o stream'[f] = saved[f] \o stream[f]
  BY <1>1, <1>2, <1>3, <1>5, Moved
<1>7. InOrder'
  BY <1>1, <1>5, <1>6 DEF OrderInv, InOrder
<1> QED BY <1>5, <1>7 DEF OrderInv

LEMMA OrderNext == ConsentInv /\ FileInv /\ OrderInv /\ [Next]_vars => OrderInv'
<1> SUFFICES ASSUME ConsentInv, FileInv, OrderInv, [Next]_vars PROVE OrderInv'
  OBVIOUS
<1> USE DEF receiverVars, appVars, historyVars
<1>1. CASE UNCHANGED <<stream, saved, got, reader>>
  BY <1>1, OrderStill
<1>2. CASE SendTask
  BY <1>1, <1>2 DEF SendTask, OpenChannel, ReceiveNonce, ReceiveTokenResponse, Challenged, AskPin, FillSlot,
     ReceivePinReceivingResponse, Verify, PinRight, PinWanted, PinExhausted, ReceivePin, SendList,
     ReceiveSelection, StartFile, SendChunk, EndFile, SendDelimiter, ReceiveLast, SendFails
<1>3. CASE ReceiveTask /\ ~ReadChunk
  BY <1>1, <1>3 DEF ReceiveTask, ReceiveNonce, ReceiveToken, Challenged, AskPin, FillSlot,
     ReceivePinSendingResponse, Verify, PinRight, PinWanted, PinExhausted, ReceivePin,
     CloseFile, SendResult, EndOfAllFiles, ReadHeader, DelimiterAsHeader, SendFails
<1>4. CASE ReadChunk
  BY <1>4, OrderChunk
<1>5. CASE DropSendController \/ Choose \/ \E e \in End : TypePin(e) \/ TypePinTooLate(e)
  BY <1>1, <1>5 DEF DropSendController, Choose, TypePin, TypePinTooLate
<1>6. CASE TakeFile
  <2>1. PICK x \in File : receiving = <<x>> /\ Head(receiving) = x /\ reader[x] = "none"
    BY <1>6 DEF TakeFile, FileInv, Slots
  <2>2. UNCHANGED <<stream, saved, got>> /\ reader' = [reader EXCEPT ![x] = "reading"]
    BY <1>6, <2>1 DEF TakeFile
  <2>3. \A y \in File : y # x => reader'[y] = reader[y]
    BY <2>2 DEF FileInv, Slots
  <2> QED BY <2>1, <2>2, <2>3, OrderStill
<1>7. ASSUME NEW f \in File, SendFile(f) \/ Write(f) \/ Report(f) PROVE OrderInv'
  <2>1. CASE SendFile(f)
    BY <1>1, <2>1 DEF SendFile
  <2>2. CASE Write(f)
    BY <2>2, OrderWrite
  <2>3. CASE Report(f)
    <3>1. reader[f] = "reading" /\ UNCHANGED <<stream, saved, got>>
      BY <2>3 DEF Report
    <3>2. \A y \in File : y # f => reader'[y] = reader[y]
      BY <2>3 DEF Report, FileInv, Slots
    <3> QED BY <3>1, <3>2, OrderStill
  <2> QED BY <1>7, <2>1, <2>2, <2>3
<1>8. CASE \/ SendOffer \/ OnAnswer \/ AcceptOffer \/ ReceiveAnswer \/ LoseLink
           \/ (\E e \in End : Call(e) \/ Deliver(e)) \/ UNCHANGED vars
  BY <1>1, <1>8 DEF SendOffer, OnAnswer, AcceptOffer, ReceiveAnswer, LoseLink, Call, JoinTask, Disconnected,
     Deliver, vars
<1> QED BY <1>2, <1>3, <1>4, <1>5, <1>6, <1>7, <1>8 DEF Next, App

LEMMA OrderInit == Init => OrderInv
<1> SUFFICES ASSUME Init PROVE OrderInv
  OBVIOUS
<1>1. /\ stream = [f \in File |-> <<>>] /\ saved = [f \in File |-> <<>>] /\ got = [f \in File |-> 0]
  BY DEF Init
<1>2. \A f \in File : Count(f, 0) = <<>>
  BY DEF Count
<1>3. InOrder
  BY <1>1, <1>2 DEF InOrder, Count
<1> QED BY <1>1, <1>3 DEF OrderInv

\* The receiving app reads the chunks of each file in order, none missing, repeated or
\* from another file, for as long as it has not given the file up.
THEOREM ChunksInOrder == Spec => []InOrder
<1>1. OrderInv => InOrder
  BY DEF OrderInv
<1> QED BY <1>1, OrderInit, ConsentInit, ConsentNext, FileInit, FileNext, OrderNext, PTL DEF Spec

-----------------------------------------------------------------------------
(* The types.                                                               *)

CallTypes ==
  /\ config \in Configs
  /\ sdp \in {"none", "offer", "answer", "missed", "done"}
  /\ main \in [End -> MainPhase]
  /\ link \in {"new", "up", "down"} /\ shown \in [End -> Status]

\* A task waits for a PIN only while there are tries left, and what comes was typed.
PinTypes ==
  /\ task \in [End -> TaskPhase] /\ slot \in [End -> BOOLEAN]
  /\ remote_pin \in [End -> Pins] /\ pin_try \in [End -> 0..MaxTries]
  /\ \A e \in End : task[e] = "pin" => pin_try[e] < MaxTries
PinMessages == \A e \in End : \A m \in ToRead(e) : m.type = "Pin" => m.pin \in Pins

FileTypes ==
  /\ asked \in BOOLEAN /\ selection \in {None} \cup SUBSET File
  /\ fed \subseteq File /\ feeding \in BOOLEAN
  /\ {sending, last_file} \subseteq File \cup {None}
  /\ outcome = <<>> \/ \E m : outcome = <<m>>
  /\ stream = [f \in File |-> stream[f]] /\ \A f \in File : Len(stream[f]) <= BinaryBuffer
  /\ \A f \in File : reader[f] \in {"none", "reading", "failed", "dropped", "done"}
  /\ answered \subseteq File
  /\ \A f \in File : given[f] <= Size[f]

LEMMA CallTypesNext == CallTypes /\ [Next]_vars => CallTypes'
<1> SUFFICES ASSUME CallTypes, [Next]_vars PROVE CallTypes'
  OBVIOUS
<1> USE DEF CallTypes, MainPhase, Status, Show, Close
<1>0. CASE UNCHANGED callVars
  BY <1>0 DEF callVars
<1>1. CASE SendOffer \/ OnAnswer \/ AcceptOffer \/ ReceiveAnswer \/ LoseLink
  BY <1>1 DEF SendOffer, OnAnswer, AcceptOffer, ReceiveAnswer, LoseLink
<1>2. CASE \E e \in End : Call(e)
  BY <1>2 DEF Call, JoinTask, Disconnected
<1>3. CASE (\E e \in End : Deliver(e)) \/ App \/ UNCHANGED vars
  BY <1>0, <1>3 DEF Deliver, App, TypePin, TypePinTooLate, Choose, TakeFile, DropSendController, SendFile, Write,
     Report, vars
<1>4. ASSUME NEW e \in End, Verify(e) \/ Challenged(e) \/ ReceiveNonce(e) \/ SendFails(e) PROVE CallTypes'
  <2>1. CASE PinExhausted(e) \/ AskPin(e)
    BY <2>1 DEF PinExhausted, AskPin
  <2> QED BY <1>0, <1>4, <2>1 DEF Verify, PinRight, PinWanted, ReceivePin, Challenged, FillSlot, ReceiveNonce,
             SendFails
<1>5. CASE ReceiveToken \/ ReceiveTokenResponse \/ ReceivePinReceivingResponse \/ ReceivePinSendingResponse
  BY <1>5, Ends DEF ReceiveToken, ReceiveTokenResponse, ReceivePinReceivingResponse, ReceivePinSendingResponse,
     Challenge
<1>6. CASE SendList \/ ReceiveSelection
  BY <1>6 DEF SendList, ReceiveSelection
<1>7. CASE OpenChannel \/ StartFile \/ SendChunk \/ EndFile \/ SendDelimiter \/ ReceiveLast
  BY <1>0, <1>7 DEF OpenChannel, StartFile, SendChunk, EndFile, SendDelimiter, ReceiveLast
<1>8. CASE \/ CloseFile \/ SendResult \/ EndOfAllFiles \/ ReadHeader \/ DelimiterAsHeader \/ ReadChunk
  BY <1>0, <1>8 DEF CloseFile, SendResult, EndOfAllFiles, ReadHeader, DelimiterAsHeader, ReadChunk
<1> QED BY <1>1, <1>2, <1>3, <1>4, <1>5, <1>6, <1>7, <1>8, Ends DEF Next, SendTask, ReceiveTask

LEMMA Tries == MaxTries \in Nat /\ "" \in Pins /\ 0 \in 0..MaxTries
<1>1. MaxTries \in Nat
  BY TransferAssumption
<1>2. "" \in Pins
  BY Zenon, TransferAssumption
<1>3. 0 \in 0..MaxTries
  BY <1>1
<1> QED BY <1>1, <1>2, <1>3

LEMMA OneMoreTry == \A n \in 0..MaxTries : n < MaxTries => n + 1 \in 0..MaxTries
<1>1. MaxTries \in Nat
  BY Tries
<1> QED BY <1>1

LEMMA PinTypesNext == ConsentInv /\ PinTypes /\ PinMessages /\ [Next]_vars => PinTypes'
<1> SUFFICES ASSUME ConsentInv, PinTypes, PinMessages, [Next]_vars PROVE PinTypes'
  OBVIOUS
<1> USE DEF PinTypes, TaskPhase, Go, Fail
<1>0. ASSUME UNCHANGED pinVars, NEW e \in End,
             UNCHANGED task \/ \E there \in TaskPhase \ {"pin"} : task' = [task EXCEPT ![e] = there]
      PROVE  PinTypes'
  BY <1>0 DEF pinVars
<1>1. CASE \/ SendOffer \/ OnAnswer \/ AcceptOffer \/ ReceiveAnswer \/ LoseLink
           \/ (\E e \in End : Call(e) \/ Deliver(e)) \/ UNCHANGED vars
           \/ TakeFile \/ DropSendController \/ \E f \in File : SendFile(f) \/ Write(f) \/ Report(f)
  <2>1. UNCHANGED <<task, pinVars>>
    BY <1>1 DEF SendOffer, OnAnswer, AcceptOffer, ReceiveAnswer, LoseLink, Call, JoinTask, Disconnected, Deliver,
       vars, TakeFile, DropSendController, SendFile, Write, Report
  <2> QED BY <1>0, <2>1, Ends
<1>2. ASSUME NEW e \in End, ReceiveNonce(e) \/ SendFails(e) \/ AskPin(e) PROVE PinTypes'
  BY <1>0, <1>2 DEF ReceiveNonce, SendFails, AskPin
<1>3. ASSUME NEW e \in End, FillSlot(e) \/ TypePin(e) \/ TypePinTooLate(e) PROVE PinTypes'
  BY <1>3 DEF FillSlot, TypePin, TypePinTooLate
<1>4. ASSUME NEW e \in End, PinRight(e) PROVE PinTypes'
  <2>1. /\ task' = [task EXCEPT ![e] = "list"] /\ UNCHANGED slot
        /\ remote_pin' = [remote_pin EXCEPT ![e] = ""] /\ pin_try' = [pin_try EXCEPT ![e] = 0]
    BY <1>4 DEF PinRight
  <2>2. /\ remote_pin' \in [End -> Pins] /\ pin_try' \in [End -> 0..MaxTries]
        /\ task' \in [End -> TaskPhase]
    BY <2>1, Tries
  <2>3. \A x \in End : task'[x] = "pin" => x # e /\ task[x] = "pin" /\ pin_try'[x] = pin_try[x]
    BY <2>1
  <2> QED BY <2>1, <2>2, <2>3
<1>5. ASSUME NEW e \in End, PinWanted(e) PROVE PinTypes'
  BY <1>5 DEF PinWanted, pinVars
<1>6. ASSUME NEW e \in End, PinExhausted(e) PROVE PinTypes'
  BY <1>0, <1>6 DEF PinExhausted
<1>7. ASSUME NEW e \in End, ReceivePin(e) PROVE PinTypes'
  <2>1. Head(inbox[e]).type = "Pin" => Head(inbox[e]).pin \in Pins
    <3>1. Head(inbox[e]) \in ToRead(e)
      BY <1>7, Rest DEF ReceivePin, ToRead, ConsentInv, Channels
    <3> QED BY <3>1 DEF PinMessages
  <2>2. CASE Head(inbox[e]).type = "Pin"
    <3>1. /\ remote_pin' = [remote_pin EXCEPT ![e] = Head(inbox[e]).pin]
          /\ pin_try' = [pin_try EXCEPT ![e] = @ + 1] /\ task' = [task EXCEPT ![e] = "verify"]
          /\ UNCHANGED slot /\ task[e] = "pin"
      BY <1>7, <2>2 DEF ReceivePin
    <3>2. pin_try[e] + 1 \in 0..MaxTries
      <4>1. pin_try[e] \in 0..MaxTries /\ pin_try[e] < MaxTries
        BY <3>1
      <4> QED BY <4>1, OneMoreTry
    <3>3. \A x \in End : task'[x] = "pin" => x # e /\ task[x] = "pin" /\ pin_try'[x] = pin_try[x]
      BY <3>1
    <3>4. /\ remote_pin' \in [End -> Pins] /\ pin_try' \in [End -> 0..MaxTries]
          /\ task' \in [End -> TaskPhase]
      BY <2>1, <2>2, <3>1, <3>2
    <3> QED BY <3>1, <3>3, <3>4
  <2>3. CASE Head(inbox[e]).type # "Pin"
    BY <1>0, <1>7, <2>3 DEF ReceivePin, pinVars
  <2> QED BY <2>2, <2>3
<1>8. CASE ReceiveToken \/ ReceiveTokenResponse \/ ReceivePinReceivingResponse \/ ReceivePinSendingResponse
  BY <1>0, <1>8, Ends DEF ReceiveToken, ReceiveTokenResponse, ReceivePinReceivingResponse,
     ReceivePinSendingResponse, Challenge
<1>9. CASE SendList \/ ReceiveSelection \/ Choose \/ OpenChannel
  BY <1>0, <1>9, Ends DEF SendList, ReceiveSelection, Choose, OpenChannel
<1>10. CASE StartFile \/ SendChunk \/ EndFile \/ SendDelimiter \/ ReceiveLast
  BY <1>0, <1>10, Ends DEF StartFile, SendChunk, EndFile, SendDelimiter, ReceiveLast
<1>11. CASE \/ CloseFile \/ SendResult \/ EndOfAllFiles \/ ReadHeader \/ DelimiterAsHeader \/ ReadChunk
  BY <1>0, <1>11, Ends DEF CloseFile, SendResult, EndOfAllFiles, ReadHeader, DelimiterAsHeader, ReadChunk
<1> QED BY <1>1, <1>2, <1>3, <1>4, <1>5, <1>6, <1>7, <1>8, <1>9, <1>10, <1>11, Ends
           DEF Next, SendTask, ReceiveTask, App, Verify, Challenged

\* A task hears at its own end and says nothing but PINs that were typed.
SpeaksOfPins(e) ==
  \E ms : /\ IsSeq(ms) /\ \A m \in Range(ms) : m.type = "Pin" => m.pin \in Pins
          /\ UNCHANGED wire \/ Send(e, ms)

LEMMA PinsKept ==
  ASSUME ConsentInv, PinMessages, NEW e \in End, SpeaksOfPins(e), Hears(e)
  PROVE  PinMessages'
<1>1. PICK ms : /\ IsSeq(ms) /\ \A m \in Range(ms) : m.type = "Pin" => m.pin \in Pins
                /\ UNCHANGED wire \/ Send(e, ms)
  BY DEF SpeaksOfPins
<1>2. \/ UNCHANGED inbox
      \/ inbox[e] # <<>> /\ Read(e)
      \/ Strings(e) # {} /\ Collect(e)
  BY DEF Hears
<1>3. /\ ToRead(e)' \subseteq ToRead(e)
      /\ ToRead(Other(e))' \subseteq ToRead(Other(e)) \cup Range(ms)
  BY <1>1, <1>2, Speak DEF ConsentInv
<1>4. \A x \in End : x = e \/ x = Other(e)
  BY DEF Other, End, S, R
<1> QED BY <1>1, <1>3, <1>4 DEF PinMessages

LEMMA PinsSpoken ==
  ASSUME NEW e \in End
  PROVE  /\ UNCHANGED wire => SpeaksOfPins(e)
         /\ \A m : (m.type = "Pin" => m.pin \in Pins) /\ Send(e, <<m>>) => SpeaksOfPins(e)
         /\ \A m : m.type # "Pin" /\ Send(e, Framed(e, m)) => SpeaksOfPins(e)
<1>1. UNCHANGED wire => SpeaksOfPins(e)
  BY Silence DEF SpeaksOfPins
<1>2. ASSUME NEW m, m.type = "Pin" => m.pin \in Pins, Send(e, <<m>>) PROVE SpeaksOfPins(e)
  BY <1>2, One DEF SpeaksOfPins
<1>3. ASSUME NEW m, m.type # "Pin", Send(e, Framed(e, m)) PROVE SpeaksOfPins(e)
  BY <1>3, Frames DEF SpeaksOfPins, Delimiter
<1> QED BY <1>1, <1>2, <1>3

LEMMA NoPinIn ==
  List.type # "Pin" /\ PinOk.type # "Pin" /\ PinRequired.type # "Pin" /\ PinTooMany.type # "Pin"
BY DEF List, PinOk, PinRequired, PinTooMany

LEMMA PinMessagesNext == ConsentInv /\ PinMessages /\ [Next]_vars => PinMessages'
<1> SUFFICES ASSUME ConsentInv, PinMessages, [Next]_vars PROVE PinMessages'
  OBVIOUS
<1> USE DEF Hears
<1>1. CASE UNCHANGED channelVars
  BY <1>1 DEF channelVars, PinMessages, ToRead
<1>2. ASSUME NEW e \in End, NEW m, m.type # "Pin", Send(e, <<m>>) \/ Send(e, Framed(e, m)), Hears(e)
      PROVE  PinMessages'
  BY <1>2, PinsSpoken, PinsKept
<1>3. ASSUME NEW e \in End, UNCHANGED wire, Hears(e) PROVE PinMessages'
  BY <1>3, PinsSpoken, PinsKept
<1>4. CASE OpenChannel \/ SendList \/ StartFile \/ SendChunk \/ SendDelimiter
  <2>1. CASE OpenChannel
    BY <2>1, <1>2, Ends DEF OpenChannel, Nonce
  <2>2. CASE SendList
    <3>1. Send(S, Framed(S, List)) /\ UNCHANGED inbox
      BY <2>2 DEF SendList
    <3> QED BY <3>1, <1>2, Ends, NoPinIn
  <2>3. CASE StartFile
    BY <2>3, <1>2, <1>3, Ends DEF StartFile, Header
  <2>4. CASE SendChunk
    BY <2>4, <1>2, Ends DEF SendChunk, Chunk
  <2>5. CASE SendDelimiter
    BY <2>5, <1>2, Ends DEF SendDelimiter, Delimiter
  <2> QED BY <1>4, <2>1, <2>2, <2>3, <2>4, <2>5
<1>5. ASSUME NEW e \in End, ReceiveNonce(e) PROVE PinMessages'
  <2>1. CASE e = S
    BY <1>5, <2>1, <1>2 DEF ReceiveNonce, TokenMsg
  <2>2. CASE e # S
    BY <1>5, <2>2, <1>2 DEF ReceiveNonce, Nonce
  <2> QED BY <2>1, <2>2
<1>6. CASE ReceiveToken
  <2>1. ~TokenFits(R, Head(inbox[R]).token) => Send(R, <<TokenBad>>)
    BY <1>6 DEF ReceiveToken
  <2>2. TokenFits(R, Head(inbox[R]).token) =>
          Send(R, <<IF config.pin[R] = NoPin THEN TokenOk(LocalToken(R)) ELSE TokenPin(LocalToken(R))>>)
    BY <1>6 DEF ReceiveToken
  <2>3. inbox[R] # <<>> /\ Read(R)
    BY <1>6 DEF ReceiveToken
  <2> QED BY <1>2, <2>1, <2>2, <2>3, Ends DEF TokenBad, TokenOk, TokenPin
<1>7. CASE ReceiveTokenResponse \/ ReceivePinReceivingResponse \/ ReceiveLast \/ ReceiveSelection
  BY <1>3, <1>7, Ends DEF ReceiveTokenResponse, ReceivePinReceivingResponse, ReceiveLast, ReceiveSelection
<1>8. CASE ReceivePinSendingResponse \/ EndOfAllFiles \/ ReadHeader \/ DelimiterAsHeader \/ ReadChunk
  BY <1>3, <1>8, Ends DEF ReceivePinSendingResponse, EndOfAllFiles, ReadHeader, DelimiterAsHeader, ReadChunk
<1>9. CASE SendResult
  BY <1>2, <1>9, Ends DEF SendResult, Result
<1>10. ASSUME NEW e \in End, Verify(e) PROVE PinMessages'
  <2>1. CASE PinRight(e)
    <3>1. UNCHANGED wire \/ Send(e, <<PinOk>>)
      BY <2>1, PinOkSent DEF ConsentInv
    <3>2. UNCHANGED inbox
      BY <2>1 DEF PinRight
    <3> QED BY <1>2, <1>3, <3>1, <3>2, NoPinIn
  <2>2. CASE PinWanted(e)
    <3>1. (UNCHANGED wire \/ Send(e, Framed(e, PinRequired))) /\ UNCHANGED inbox
      BY <2>2 DEF PinWanted, Send
    <3> QED BY <1>2, <1>3, <3>1, NoPinIn
  <2>3. CASE PinExhausted(e)
    <3>1. Send(e, Framed(e, PinTooMany)) /\ UNCHANGED inbox
      BY <2>3 DEF PinExhausted
    <3> QED BY <1>2, <3>1, NoPinIn
  <2>4. CASE ReceivePin(e)
    BY <1>3, <2>4 DEF ReceivePin
  <2> QED BY <1>10, <2>1, <2>2, <2>3, <2>4 DEF Verify
<1>11. ASSUME NEW e \in End, TypePin(e) PROVE PinMessages'
  <2>1. PICK p \in Pins : Send(e, <<PinMsg(p)>>)
    BY <1>11 DEF TypePin
  <2>2. PinMsg(p).pin \in Pins /\ UNCHANGED inbox
    BY <1>11 DEF TypePin, PinMsg
  <2> QED BY <2>1, <2>2, PinsSpoken, PinsKept
<1>12. CASE Choose
  <2>1. \/ UNCHANGED wire
        \/ \E m \in {Grant(s) : s \in Selections} \cup {Declined} : Send(R, Framed(R, m))
    BY <1>12 DEF Choose
  <2>2. \A m \in {Grant(s) : s \in Selections} \cup {Declined} : m.type # "Pin"
    BY DEF Grant, Declined
  <2>3. UNCHANGED inbox
    BY <1>12 DEF Choose
  <2> QED BY <1>2, <1>3, <2>1, <2>2, <2>3, Ends
<1>13. ASSUME NEW e \in End, Deliver(e) PROVE PinMessages'
  BY <1>13, Delivered DEF ConsentInv, PinMessages
<1>14. CASE \/ SendOffer \/ OnAnswer \/ AcceptOffer \/ ReceiveAnswer \/ LoseLink
            \/ (\E e \in End : Call(e) \/ Challenged(e) \/ TypePinTooLate(e) \/ SendFails(e)) \/ UNCHANGED vars
            \/ EndFile \/ CloseFile \/ TakeFile \/ DropSendController
            \/ \E f \in File : SendFile(f) \/ Write(f) \/ Report(f)
  <2>1. UNCHANGED channelVars
    BY <1>14 DEF SendOffer, OnAnswer, AcceptOffer, ReceiveAnswer, LoseLink, Call, JoinTask, Disconnected,
       Challenged, AskPin, FillSlot, TypePinTooLate, SendFails, vars, EndFile, CloseFile, TakeFile,
       DropSendController, SendFile, Write, Report
  <2> QED BY <1>1, <2>1
<1> QED BY <1>4, <1>5, <1>6, <1>7, <1>8, <1>9, <1>10, <1>11, <1>12, <1>13, <1>14, Ends
           DEF Next, SendTask, ReceiveTask, App

\* What a step of the types changes, in four groups.
LEMMA FileTypesParts ==
  ASSUME FileTypes,
         UNCHANGED <<asked, selection>> \/ (asked' \in BOOLEAN /\ selection' \in {None} \cup SUBSET File),
         UNCHANGED <<fed, feeding>> \/ (fed' \subseteq File /\ feeding' \in BOOLEAN),
         UNCHANGED <<sending, last_file>> \/ {sending', last_file'} \subseteq File \cup {None},
         UNCHANGED outcome \/ outcome' = <<>> \/ \E m : outcome' = <<m>>,
         \/ UNCHANGED stream
         \/ stream' = [f \in File |-> stream'[f]] /\ \A f \in File : Len(stream'[f]) <= BinaryBuffer,
         \/ UNCHANGED reader
         \/ \A f \in File : reader'[f] \in {"none", "reading", "failed", "dropped", "done"},
         UNCHANGED answered \/ answered' \subseteq File,
         UNCHANGED given \/ \A f \in File : given'[f] <= Size[f]
  PROVE  FileTypes'
BY DEF FileTypes

LEMMA Buffer == BinaryBuffer \in Nat
  BY TransferAssumption

LEMMA StreamWritten ==
  ASSUME FileTypes, OrderInv, NEW f \in File, stream[f] # <<>>, stream' = [stream EXCEPT ![f] = Tail(@)]
  PROVE  stream' = [x \in File |-> stream'[x]] /\ \A x \in File : Len(stream'[x]) <= BinaryBuffer
<1>1. stream[f] \in Seq(ChunkPair) /\ stream = [x \in File |-> stream[x]]
  BY DEF OrderInv, FileTypes
<1>2. PICK u \in Seq(ChunkPair) : u = Tail(stream[f]) /\ Len(u) < Len(stream[f])
  BY <1>1
<1>3. Len(stream[f]) <= BinaryBuffer /\ Len(stream[f]) \in Nat /\ BinaryBuffer \in Nat /\ Len(u) \in Nat
  BY <1>1, Buffer DEF FileTypes
<1>4. Len(u) <= BinaryBuffer
  BY <1>2, <1>3
<1>5. stream'[f] = u /\ \A x \in File \ {f} : stream'[x] = stream[x]
  BY <1>1, <1>2
<1> QED BY <1>1, <1>4, <1>5 DEF FileTypes

LEMMA StreamFed ==
  ASSUME FileTypes, OrderInv, NEW f \in File, NEW p \in ChunkPair, Len(stream[f]) < BinaryBuffer,
         stream' = [stream EXCEPT ![f] = Append(@, p)]
  PROVE  stream' = [x \in File |-> stream'[x]] /\ \A x \in File : Len(stream'[x]) <= BinaryBuffer
<1>1. stream[f] \in Seq(ChunkPair) /\ stream = [x \in File |-> stream[x]]
  BY DEF OrderInv, FileTypes
<1>2. PICK u \in Seq(ChunkPair) : u = Append(stream[f], p) /\ Len(u) = Len(stream[f]) + 1
  BY <1>1
<1>3. Len(stream[f]) \in Nat /\ BinaryBuffer \in Nat
  BY <1>1, Buffer
<1>4. Len(u) <= BinaryBuffer
  BY <1>2, <1>3
<1>5. stream'[f] = u /\ \A x \in File \ {f} : stream'[x] = stream[x]
  BY <1>1, <1>2
<1> QED BY <1>1, <1>4, <1>5 DEF FileTypes

LEMMA FileTypesNext == ConsentInv /\ FileInv /\ OrderInv /\ FileTypes /\ [Next]_vars => FileTypes'
<1> SUFFICES ASSUME ConsentInv, FileInv, OrderInv, FileTypes, [Next]_vars PROVE FileTypes'
  OBVIOUS
<1> DEFINE typed == <<asked, selection, fed, feeding, sending, last_file, outcome, stream, reader, answered, given>>
<1>1. CASE UNCHANGED typed
  BY <1>1 DEF FileTypes
<1>2. CASE ReceivePinSendingResponse
  <2>1. asked' \in BOOLEAN /\ UNCHANGED <<selection, fed, feeding, sending, last_file, outcome, stream, reader, answered, given>>
    BY <1>2 DEF ReceivePinSendingResponse, FileTypes, senderVars, appVars, historyVars
  <2> QED BY <2>1 DEF FileTypes
<1>3. CASE Choose
  <2>1. /\ selection' \in Selections \cup {{}}
        /\ UNCHANGED <<asked, fed, feeding, sending, last_file, outcome, stream, reader, answered, given>>
    BY <1>3 DEF Choose, senderVars, appVars, historyVars
  <2>2. selection' \in SUBSET File
    BY <2>1, Zenon, TransferAssumption
  <2> QED BY <2>1, <2>2 DEF FileTypes
<1>4. CASE StartFile \/ EndFile
  <2>1. feed # <<>> => Head(feed) \in File
    BY DEF FileInv, Slots
  <2>2. /\ sending' \in File \cup {None}
        /\ UNCHANGED <<asked, selection, fed, feeding, last_file, outcome, stream, reader, answered, given>>
    BY <1>4, <2>1 DEF StartFile, EndFile, FileTypes, receiverVars, appVars, historyVars
  <2> QED BY <2>2 DEF FileTypes
<1>5. CASE SendChunk
  <2>1. PICK x \in File : x = sending
    BY <1>5 DEF SendChunk, FileInv, InTurn
  <2>2. PICK n \in Nat : n = given[x]
    BY DEF FileInv, Slots
  <2>3. PICK k \in Nat : k = Size[x]
    BY TransferAssumption
  <2>4. n < k /\ given' = [given EXCEPT ![x] = n + 1]
        /\ UNCHANGED <<asked, selection, fed, feeding, sending, last_file, outcome, stream, reader, answered>>
    BY <1>5, <2>1, <2>2, <2>3 DEF SendChunk, senderVars, receiverVars, appVars
  <2>5. n + 1 <= k
    BY <2>4
  <2>6. \A f \in File : given'[f] <= Size[f]
    BY <2>3, <2>4, <2>5 DEF FileTypes, FileInv, Slots
  <2> QED BY <2>4, <2>6 DEF FileTypes
<1>6. CASE CloseFile
  <2>1. /\ last_file' \in File
        /\ UNCHANGED <<asked, selection, fed, feeding, sending, outcome, stream, reader, answered, given>>
    BY <1>6 DEF CloseFile, FileInv, Own, senderVars, appVars, historyVars
  <2> QED BY <2>1 DEF FileTypes
<1>7. CASE SendResult
  <2>1. /\ last_file' = None /\ outcome' = <<>> /\ answered' = answered \cup {last_file} /\ last_file \in File
        /\ UNCHANGED <<asked, selection, fed, feeding, sending, stream, reader, given>>
    BY <1>7 DEF SendResult, FileInv, Own, senderVars
  <2> QED BY <2>1 DEF FileTypes
<1>8. CASE ReadChunk
  <2>1. UNCHANGED <<asked, selection, fed, feeding, sending, last_file, outcome, reader, answered, given>>
    BY <1>8 DEF ReadChunk, senderVars
  <2>2. CASE UNCHANGED stream
    BY <2>1, <2>2 DEF FileTypes
  <2>3. CASE ~UNCHANGED stream
    <3>1. PICK x \in File : x = file_state
      BY <1>8, <2>3 DEF ReadChunk, FileInv, Own
    <3>2. PICK p : p = <<Head(inbox[R]).id, Head(inbox[R]).n>>
      OBVIOUS
    <3>3. Len(stream[x]) < BinaryBuffer /\ stream' = [stream EXCEPT ![x] = Append(@, p)]
      BY <1>8, <2>3, <3>1, <3>2 DEF ReadChunk
    <3>4. p \in ChunkPair
      <4>1. inbox[R] # <<>> /\ Head(inbox[R]).type = "Chunk"
        BY <1>8 DEF ReadChunk
      <4>2. 1 \in 1..Len(Queue) /\ Queue[1] = Head(inbox[R])
        BY <4>1, FirstMessage DEF ConsentInv
      <4>3. Unread(Head(inbox[R]))
        BY <4>2 DEF FileInv, Fresh
      <4> QED BY <3>2, <4>1, <4>3 DEF Unread, IsFile, ChunkPair
    <3>5. stream' = [f \in File |-> stream'[f]] /\ \A f \in File : Len(stream'[f]) <= BinaryBuffer
      BY <3>3, <3>4, StreamFed
    <3> QED BY <2>1, <3>5 DEF FileTypes
  <2> QED BY <2>2, <2>3
<1>9. ASSUME NEW f \in File, SendFile(f) \/ Write(f) \/ Report(f) PROVE FileTypes'
  <2>1. CASE SendFile(f)
    <3>1. /\ fed' = fed \cup {f}
          /\ UNCHANGED <<asked, selection, feeding, sending, last_file, outcome, stream, reader, answered, given>>
      BY <2>1 DEF SendFile, receiverVars, appVars, historyVars
    <3> QED BY <3>1 DEF FileTypes
  <2>2. CASE Write(f)
    <3>1. /\ stream[f] # <<>> /\ stream' = [stream EXCEPT ![f] = Tail(@)]
          /\ UNCHANGED <<asked, selection, fed, feeding, sending, last_file, outcome, reader, answered, given>>
      BY <2>2 DEF Write, senderVars, historyVars
    <3>2. stream' = [x \in File |-> stream'[x]] /\ \A x \in File : Len(stream'[x]) <= BinaryBuffer
      BY <3>1, StreamWritten
    <3> QED BY <3>1, <3>2 DEF FileTypes
  <2>3. CASE Report(f)
    <3>1. /\ \E r \in {"failed", "dropped", "done"} : reader' = [reader EXCEPT ![f] = r]
          /\ \E m : outcome' = <<m>>
          /\ UNCHANGED <<asked, selection, fed, feeding, sending, last_file, stream, answered, given>>
      BY <2>3 DEF Report, senderVars, historyVars
    <3>2. \A x \in File : reader'[x] \in {"none", "reading", "failed", "dropped", "done"}
      BY <3>1 DEF FileTypes, FileInv, Slots
    <3> QED BY <3>1, <3>2 DEF FileTypes
  <2> QED BY <1>9, <2>1, <2>2, <2>3
<1>10. CASE TakeFile
  <2>1. PICK x \in File : receiving = <<x>> /\ Head(receiving) = x
    BY <1>10 DEF TakeFile, FileInv, Slots
  <2>2. /\ reader' = [reader EXCEPT ![x] = "reading"]
        /\ UNCHANGED <<asked, selection, fed, feeding, sending, last_file, outcome, stream, answered, given>>
    BY <1>10, <2>1 DEF TakeFile, senderVars, historyVars
  <2>3. \A f \in File : reader'[f] \in {"none", "reading", "failed", "dropped", "done"}
    BY <2>2 DEF FileTypes, FileInv, Slots
  <2> QED BY <2>2, <2>3 DEF FileTypes
<1>11. CASE DropSendController
  BY <1>11 DEF DropSendController, FileTypes, receiverVars, appVars, historyVars
<1>12. CASE \/ SendOffer \/ OnAnswer \/ AcceptOffer \/ ReceiveAnswer \/ LoseLink
            \/ (\E e \in End : Call(e) \/ Deliver(e)) \/ UNCHANGED vars
  BY <1>1, <1>12 DEF SendOffer, OnAnswer, AcceptOffer, ReceiveAnswer, LoseLink, Call, JoinTask, Disconnected,
     Deliver, vars, senderVars, receiverVars, appVars, historyVars
<1>13. CASE \E e \in End : \/ ReceiveNonce(e) \/ Verify(e) \/ Challenged(e) \/ SendFails(e)
                           \/ TypePin(e) \/ TypePinTooLate(e)
  BY <1>1, <1>13 DEF ReceiveNonce, Verify, PinRight, PinWanted, PinExhausted, ReceivePin, Challenged, AskPin,
     FillSlot, SendFails, TypePin, TypePinTooLate, senderVars, receiverVars, appVars, historyVars
<1>14. CASE \/ OpenChannel \/ ReceiveToken \/ ReceiveTokenResponse \/ ReceivePinReceivingResponse
            \/ SendList \/ ReceiveSelection
  BY <1>1, <1>14 DEF OpenChannel, ReceiveToken, ReceiveTokenResponse, ReceivePinReceivingResponse, SendList,
     ReceiveSelection, senderVars, receiverVars, appVars, historyVars
<1>15. CASE SendDelimiter \/ ReceiveLast \/ EndOfAllFiles \/ ReadHeader \/ DelimiterAsHeader
  BY <1>1, <1>15 DEF SendDelimiter, ReceiveLast, EndOfAllFiles, ReadHeader, DelimiterAsHeader, senderVars,
     receiverVars, appVars, historyVars
<1> QED BY <1>2, <1>3, <1>4, <1>5, <1>6, <1>7, <1>8, <1>9, <1>10, <1>11, <1>12, <1>13, <1>14, <1>15, Ends
           DEF Next, SendTask, ReceiveTask, App

LEMMA TypesInit == Init => CallTypes /\ PinTypes /\ PinMessages /\ FileTypes
<1> SUFFICES ASSUME Init PROVE CallTypes /\ PinTypes /\ PinMessages /\ FileTypes
  OBVIOUS
<1>1. CallTypes
  BY DEF Init, CallTypes, MainPhase, Status
<1>2. PinTypes
  <2>1. remote_pin = [e \in End |-> ""] /\ remote_pin \in [End -> Pins]
    BY Tries DEF Init
  <2>2. pin_try = [e \in End |-> 0] /\ pin_try \in [End -> 0..MaxTries]
    BY Tries DEF Init
  <2> QED BY <2>1, <2>2 DEF Init, PinTypes, TaskPhase
<1>3. PinMessages
  BY Silence DEF Init, PinMessages, ToRead
<1>4. FileTypes
  <2>1. \A f \in File : 0 <= Size[f]
    <3>1. \A f \in File : Size[f] \in Nat
      BY TransferAssumption
    <3> QED BY <3>1
  <2>2. /\ stream = [f \in File |-> <<>>] /\ \A f \in File : Len(stream[f]) <= BinaryBuffer
    <3>1. Len(<<>>) <= BinaryBuffer
      BY Buffer
    <3> QED BY <3>1 DEF Init
  <2> QED BY <2>1, <2>2 DEF Init, FileTypes
<1> QED BY <1>1, <1>2, <1>3, <1>4

LEMMA TypesTogether ==
  ConsentInv /\ FileInv /\ CallTypes /\ PinTypes /\ FileTypes => TypeOK
<1> SUFFICES ASSUME ConsentInv, FileInv, CallTypes, PinTypes, FileTypes PROVE TypeOK
  OBVIOUS
<1>1. \A f \in File : got[f] \in 0..given[f] /\ given[f] \in 0..Size[f]
  <2> TAKE f \in File
  <2>1. got[f] \in Nat /\ given[f] \in Nat /\ got[f] <= given[f] /\ given[f] <= Size[f]
    BY DEF FileInv, Slots, InTurn, FileTypes
  <2>2. Size[f] \in Nat
    BY TransferAssumption
  <2> QED BY <2>1, <2>2
<1>2. Len(feed) <= 1 /\ Len(receiving) <= 1 /\ Len(outcome) <= 1
  <2>1. \A q : q = <<>> \/ (\E m : q = <<m>>) => Len(q) <= 1
    OBVIOUS
  <2> QED BY <2>1 DEF FileInv, Slots, FileTypes
<1>3. published \in {None} \cup SUBSET File
  BY DEF ConsentInv, Moving, FileTypes
<1>4. file_state \in File \cup {None}
  BY DEF FileInv, Own
<1>5. reader \in [File -> {"none", "reading", "failed", "dropped", "done"}]
  BY DEF FileInv, Slots, FileTypes
<1>6. accepted \subseteq End /\ whole \cup answered \subseteq File
  BY DEF ConsentInv, Phases, FileInv, Slots, FileTypes
<1> QED BY <1>1, <1>2, <1>3, <1>4, <1>5, <1>6 DEF TypeOK, CallTypes, PinTypes, FileTypes

\* Both calls keep their types: the PIN tries stop at max_tries, the channels between
\* tasks and apps stay within their capacity, and no end counts more than was sent.
THEOREM TypesOK == Spec => []TypeOK
BY ConsentInit, ConsentNext, FileInit, FileNext, OrderInit, OrderNext, TypesInit, CallTypesNext, PinTypesNext,
   PinMessagesNext, FileTypesNext, TypesTogether, PTL DEF Spec
=============================================================================
