------------------------ MODULE WebRtcTransferProofs ------------------------
(***************************************************************************)
(* Proofs about WebRtcTransfer, for any files, sizes, PINs, number of      *)
(* tries, selections and faults.                                           *)
(***************************************************************************)
EXTENDS WebRtcTransfer, SequenceTheorems, WellFoundedInduction, TLAPS

\* The messages an end has still to read.
ToRead(e) == Range(wire[e]) \cup Range(inbox[e])

\* The phases of a task that lie behind its own challenge.  Only the receiver's task
\* answers the other's challenge after its own.
Past(e) ==
  IF e = S THEN {"list", "selection", "feed", "file", "last"}
  ELSE {"list", "ask", "slot", "typing", "answer", "choose", "files", "result", "flush"}
Feeding == {"feed", "file", "last"}
Granted == {"files", "result", "flush", "ok", "err"}

IsSeq(s) == s \in Seq(Range(s))
Channels ==
  /\ wire = [e \in End |-> wire[e]] /\ inbox = [e \in End |-> inbox[e]]
  /\ \A e \in End : IsSeq(wire[e]) /\ IsSeq(inbox[e])

Phases ==
  /\ task = [e \in End |-> task[e]] /\ slot = [e \in End |-> slot[e]] /\ accepted \subseteq End
  /\ \A e \in End : (task[e] \in Past(e) => e \in accepted) /\ (slot[e] => task[e] = "typing")

\* What the two messages mean that carry consent.
Meaning ==
  /\ \A m \in ToRead(R) : m.type = "List" => S \in accepted
  /\ \A m \in ToRead(S) : m.type = "Grant" => selection # None /\ m.files = selection

Asking ==
  /\ asked => accepted = End
  /\ task[R] = "choose" => asked
  /\ selection # None => asked /\ task[R] \in Granted

Moving ==
  /\ given = [f \in File |-> given[f]]
  /\ published # None => selection # None /\ published = selection
  /\ task[S] \in Feeding => published # None
  /\ task[S] = "file" => sending \in published
  /\ \A f \in File : (given[f] > 0 \/ f \in whole) => published # None /\ f \in published

ConsentInv == Channels /\ Phases /\ Meaning /\ Asking /\ Moving

-----------------------------------------------------------------------------
(* Channels.                                                                *)

LEMMA Ends == S \in End /\ R \in End /\ S # R /\ End = {S, R}
  BY DEF End, S, R
LEMMA Others == Other(S) = R /\ Other(R) = S
  BY DEF Other, S, R

LEMMA Joined ==
  ASSUME NEW s, NEW t, IsSeq(s), IsSeq(t)
  PROVE  IsSeq(s \o t) /\ Range(s \o t) = Range(s) \cup Range(t)
<1> DEFINE M == Range(s) \cup Range(t)
<1>1. s \in Seq(M) /\ t \in Seq(M)
  BY SeqMonotonic DEF IsSeq
<1> HIDE DEF M
<1>2. s \o t \in Seq(M)
  BY <1>1, ConcatProperties
<1>3. s \o t \in Seq(Range(s \o t))
  BY <1>2, SeqOfRange
<1>4. Range(s \o t) = Range(s) \cup Range(t)
  BY <1>1, RangeConcatenation
<1> QED BY <1>3, <1>4 DEF IsSeq

LEMMA One == \A m : IsSeq(<<m>>) /\ Range(<<m>>) = {m}
<1> SUFFICES ASSUME NEW m PROVE IsSeq(<<m>>) /\ Range(<<m>>) = {m}
  OBVIOUS
<1>1. Range(<<m>>) = {m}
  BY DEF Range
<1> QED BY <1>1 DEF IsSeq

LEMMA Two == \A m, n : IsSeq(<<m, n>>) /\ Range(<<m, n>>) = {m, n}
<1> SUFFICES ASSUME NEW m, NEW n PROVE IsSeq(<<m, n>>) /\ Range(<<m, n>>) = {m, n}
  OBVIOUS
<1>1. Range(<<m, n>>) = {m, n}
  BY DEF Range
<1> QED BY <1>1 DEF IsSeq

LEMMA Frames ==
  ASSUME NEW e \in End, NEW m
  PROVE  IsSeq(Framed(e, m)) /\ Range(Framed(e, m)) \subseteq {m, Delimiter}
  BY One, Two DEF Framed

LEMMA Part ==
  ASSUME NEW s, IsSeq(s), NEW i \in Int, NEW j \in Int, i >= 1, j <= Len(s)
  PROVE  IsSeq(SubSeq(s, i, j)) /\ Range(SubSeq(s, i, j)) \subseteq Range(s)
<1> DEFINE M == Range(s)
<1>1. s \in Seq(M)
  BY DEF IsSeq
<1> HIDE DEF M
<1>2. \A n \in i..j : s[n] \in M
  BY <1>1
<1>3. SubSeq(s, i, j) \in Seq(M)
  BY <1>2, SubSeqProperties
<1>4. Range(SubSeq(s, i, j)) \subseteq M
  BY <1>3 DEF Range
<1> QED BY <1>3, <1>4, SeqOfRange DEF IsSeq, M

LEMMA Rest ==
  ASSUME NEW s, IsSeq(s), s # <<>>
  PROVE  IsSeq(Tail(s)) /\ Range(Tail(s)) \subseteq Range(s) /\ Head(s) \in Range(s)
<1> DEFINE M == Range(s)
<1>1. s \in Seq(M)
  BY DEF IsSeq
<1> HIDE DEF M
<1>2. Tail(s) \in Seq(M) /\ Head(s) \in M
  BY <1>1, HeadTailProperties
<1>3. Range(Tail(s)) \subseteq M
  BY <1>2 DEF Range
<1> QED BY <1>2, <1>3, SeqOfRange DEF IsSeq, M

\* A task looks for the first string message among those it has to read.
LEMMA FirstString ==
  ASSUME NEW e \in End, IsSeq(inbox[e]), Strings(e) # {}
  PROVE  NextString(e) \in Strings(e) /\ NextString(e) \in 1..Len(inbox[e])
<1>1. Strings(e) \subseteq 1..Len(inbox[e])
  BY DEF Strings, IsSeq
<1>2. Strings(e) \subseteq Nat
  BY <1>1
<1>3. \E i \in Strings(e) : \A j \in Strings(e) : ~(<<j, i>> \in OpToRel(<, Nat))
  BY <1>2, NatLessThanWellFounded, WFMin
<1>4. \A i, j \in Nat : <<j, i>> \in OpToRel(<, Nat) <=> j < i
  BY DEF OpToRel
<1>5. \E i \in Strings(e) : \A j \in Strings(e) : i <= j
  <2>1. PICK i \in Strings(e) : \A j \in Strings(e) : ~(<<j, i>> \in OpToRel(<, Nat))
    BY <1>3
  <2>2. \A j \in Strings(e) : ~(j < i)
    BY <1>2, <1>4, <2>1
  <2> QED BY <1>2, <2>2
<1> QED BY <1>1, <1>5 DEF NextString

\* A step of a task reads at its own end and writes to the other.
LEMMA Speak ==
  ASSUME Channels, NEW e \in End, NEW ms, IsSeq(ms),
         UNCHANGED wire \/ Send(e, ms),
         \/ UNCHANGED inbox
         \/ inbox[e] # <<>> /\ Read(e)
         \/ Strings(e) # {} /\ Collect(e)
  PROVE  /\ Channels' /\ ToRead(e)' \subseteq ToRead(e)
         /\ ToRead(Other(e))' \subseteq ToRead(Other(e)) \cup Range(ms)
<1> DEFINE Wires == wire = [x \in End |-> wire[x]] /\ \A x \in End : IsSeq(wire[x])
           Inboxes == inbox = [x \in End |-> inbox[x]] /\ \A x \in End : IsSeq(inbox[x])
<1>1. Other(e) \in End /\ Other(e) # e /\ \A x \in End : x = e \/ x = Other(e)
  BY DEF Other, End, S, R
<1>2. /\ Wires' /\ wire'[e] = wire[e]
      /\ Range(wire'[Other(e)]) \subseteq Range(wire[Other(e)]) \cup Range(ms)
  <2>1. CASE UNCHANGED wire
    BY <2>1 DEF Channels
  <2>2. CASE Send(e, ms)
    <3>1. wire'[Other(e)] = wire[Other(e)] \o ms /\ wire'[e] = wire[e]
          /\ wire' = [x \in End |-> wire'[x]]
      BY <1>1, <2>2 DEF Send, Channels
    <3>2. IsSeq(wire[Other(e)] \o ms)
          /\ Range(wire[Other(e)] \o ms) = Range(wire[Other(e)]) \cup Range(ms)
      BY <1>1, Joined DEF Channels
    <3> QED BY <1>1, <3>1, <3>2 DEF Channels, IsSeq
  <2> QED BY <2>1, <2>2
<1>3. Inboxes' /\ inbox'[Other(e)] = inbox[Other(e)] /\ Range(inbox'[e]) \subseteq Range(inbox[e])
  <2>1. CASE UNCHANGED inbox
    BY <2>1 DEF Channels
  <2>2. ASSUME NEW rest, IsSeq(rest), Range(rest) \subseteq Range(inbox[e]),
               inbox' = [inbox EXCEPT ![e] = rest]
        PROVE  Inboxes' /\ inbox'[Other(e)] = inbox[Other(e)] /\ Range(inbox'[e]) \subseteq Range(inbox[e])
    <3>1. inbox'[Other(e)] = inbox[Other(e)] /\ inbox'[e] = rest /\ inbox' = [x \in End |-> inbox'[x]]
      BY <1>1, <2>2 DEF Channels
    <3> QED BY <1>1, <2>2, <3>1 DEF Channels, IsSeq
  <2>3. CASE inbox[e] # <<>> /\ Read(e)
    BY <2>2, <2>3, Rest DEF Read, Channels
  <2>4. CASE Strings(e) # {} /\ Collect(e)
    <3> DEFINE n == NextString(e) + 1
               rest == SubSeq(inbox[e], n, Len(inbox[e]))
    <3>1. NextString(e) \in 1..Len(inbox[e]) /\ Len(inbox[e]) \in Nat
      BY <2>4, FirstString DEF Channels, IsSeq
    <3>2. n \in Int /\ n >= 1 /\ Len(inbox[e]) \in Int /\ Len(inbox[e]) <= Len(inbox[e])
      BY <3>1
    <3> HIDE DEF n
    <3>3. IsSeq(rest) /\ Range(rest) \subseteq Range(inbox[e])
      BY <3>2, Part DEF Channels
    <3>4. inbox' = [inbox EXCEPT ![e] = rest]
      BY <2>4 DEF Collect, n
    <3> QED BY <2>2, <3>3, <3>4
  <2> QED BY <2>1, <2>3, <2>4
<1>4. Channels'
  BY <1>2, <1>3 DEF Channels
<1> QED BY <1>2, <1>3, <1>4 DEF ToRead

-----------------------------------------------------------------------------
(* Steps that carry no consent.                                             *)

LEMMA Still ==
  ASSUME ConsentInv,
         UNCHANGED <<task, wire, inbox, slot, accepted, asked, selection, published, sending, given, whole>>
  PROVE  ConsentInv'
BY DEF ConsentInv, Channels, Phases, Meaning, Asking, Moving, ToRead, IsSeq

LEMMA Quiet ==
  ASSUME ConsentInv, Channels', NEW e \in End, NEW there, task' = [task EXCEPT ![e] = there],
         accepted \subseteq accepted', accepted' \subseteq End, there \in Past(e) => e \in accepted',
         slot' = [x \in End |-> slot'[x]], \A x \in End : slot'[x] => task'[x] = "typing",
         e = R => there # "choose" /\ (task[R] \in Granted => there \in Granted),
         e = S => (there \in Feeding => task[S] \in Feeding) /\ there # "file",
         \A m \in ToRead(R)' : m \in ToRead(R) \/ m.type # "List",
         \A m \in ToRead(S)' : m \in ToRead(S) \/ m.type # "Grant",
         UNCHANGED <<asked, selection, published, sending, given, whole>>
  PROVE  ConsentInv'
<1>1. task = [x \in End |-> task[x]]
  BY DEF ConsentInv, Phases
<1>2. Phases'
  <2>1. ASSUME NEW x \in End PROVE task'[x] \in Past(x) => x \in accepted'
    BY <1>1 DEF ConsentInv, Phases
  <2> QED BY <1>1, <2>1 DEF Phases, Past
<1>3. Meaning'
  BY DEF ConsentInv, Meaning
<1>4. Asking'
  BY <1>1, Ends DEF ConsentInv, Asking
<1>5. Moving'
  BY <1>1, Ends DEF ConsentInv, Moving
<1> QED BY <1>2, <1>3, <1>4, <1>5 DEF ConsentInv

\* The usual step: a task goes on, with a message that is neither list nor selection.
LEMMA Speaking ==
  ASSUME ConsentInv, NEW e \in End, NEW there, task' = [task EXCEPT ![e] = there],
         NEW ms, IsSeq(ms), \A m \in Range(ms) : m.type \notin {"List", "Grant"},
         UNCHANGED wire \/ Send(e, ms),
         \/ UNCHANGED inbox
         \/ inbox[e] # <<>> /\ Read(e)
         \/ Strings(e) # {} /\ Collect(e),
         accepted \subseteq accepted', accepted' \subseteq End, there \in Past(e) => e \in accepted',
         task[e] # "typing",
         e = R => there # "choose" /\ (task[R] \in Granted => there \in Granted),
         e = S => (there \in Feeding => task[S] \in Feeding) /\ there # "file",
         UNCHANGED <<slot, asked, selection, published, sending, given, whole>>
  PROVE  ConsentInv'
<1>1. /\ Channels' /\ ToRead(e)' \subseteq ToRead(e)
      /\ ToRead(Other(e))' \subseteq ToRead(Other(e)) \cup Range(ms)
  BY Speak DEF ConsentInv
<1>2. \A x \in End : x = e \/ x = Other(e)
  BY DEF Other, End, S, R
<1>3. /\ \A m \in ToRead(R)' : m \in ToRead(R) \/ m.type # "List"
      /\ \A m \in ToRead(S)' : m \in ToRead(S) \/ m.type # "Grant"
  BY <1>1, <1>2, Ends
<1>4. slot' = [x \in End |-> slot'[x]] /\ \A x \in End : slot'[x] => task'[x] = "typing"
  BY DEF ConsentInv, Phases
<1> QED BY <1>1, <1>3, <1>4, Quiet

-----------------------------------------------------------------------------
(* Both tasks: nonces, tokens and PINs.                                     *)

LEMMA Silence == IsSeq(<<>>) /\ Range(<<>>) = {}
  BY DEF IsSeq, Range

LEMMA NonceSteps ==
  ASSUME ConsentInv, OpenChannel \/ \E e \in End : ReceiveNonce(e)
  PROVE  ConsentInv'
<1>1. CASE OpenChannel
  <2>1. Send(S, <<Nonce(S)>>) /\ task' = [task EXCEPT ![S] = "nonce"] /\ task[S] = "open"
    BY <1>1 DEF OpenChannel, Go
  <2>2. \A m \in Range(<<Nonce(S)>>) : m.type \notin {"List", "Grant"}
    BY One DEF Nonce
  <2>3. UNCHANGED <<inbox, slot, accepted, asked, selection, published, sending, given, whole>>
    BY <1>1 DEF OpenChannel, pinVars, senderVars, receiverVars, historyVars
  <2>4. "nonce" \notin Past(S) \cup Feeding /\ accepted \subseteq End
    BY DEF Past, Feeding, ConsentInv, Phases
  <2> QED BY <2>1, <2>2, <2>3, <2>4, One, Ends, Speaking
<1>2. ASSUME NEW e \in End, ReceiveNonce(e) PROVE ConsentInv'
  <2> DEFINE m == IF e = S THEN TokenMsg(LocalToken(S)) ELSE Nonce(R)
  <2>1. Send(e, <<m>>) /\ task' = [task EXCEPT ![e] = "token"] /\ task[e] = "nonce"
    BY <1>2 DEF ReceiveNonce, Go
  <2>2. m.type \notin {"List", "Grant"}
    BY DEF TokenMsg, Nonce
  <2> HIDE DEF m
  <2>3. \A n \in Range(<<m>>) : n.type \notin {"List", "Grant"}
    BY <2>2, One
  <2>4. inbox[e] # <<>> /\ Read(e)
        /\ UNCHANGED <<slot, accepted, asked, selection, published, sending, given, whole>>
    BY <1>2 DEF ReceiveNonce, pinVars, senderVars, receiverVars, historyVars
  <2>5. "token" \notin Past(e) \cup Feeding /\ "nonce" \notin Granted /\ accepted \subseteq End
    BY DEF Past, Feeding, Granted, ConsentInv, Phases
  <2>6. /\ e = R => "token" # "choose" /\ (task[R] \in Granted => "token" \in Granted)
        /\ e = S => ("token" \in Feeding => task[S] \in Feeding) /\ "token" # "file"
    BY <2>1, <2>5
  <2>7. IsSeq(<<m>>)
    BY One
  <2> QED BY <2>1, <2>3, <2>4, <2>5, <2>6, <2>7, Speaking
<1> QED BY <1>1, <1>2

\* What Challenge does to the task and to the ends that accept the other.
LEMMA Challenging ==
  ASSUME ConsentInv, NEW e \in End, Challenge(e)
  PROVE  \E there \in {"list", "verify"} :
           /\ task' = [task EXCEPT ![e] = there]
           /\ accepted \subseteq accepted' /\ accepted' \subseteq End
           /\ there \in Past(e) => e \in accepted'
<1>1. CASE config.pin[e] = NoPin
  BY <1>1 DEF Challenge, Go, ConsentInv, Phases
<1>2. CASE config.pin[e] # NoPin
  BY <1>2 DEF Challenge, Go, ConsentInv, Phases, Past
<1> QED BY <1>1, <1>2

LEMMA TokenSteps ==
  ASSUME ConsentInv, ReceiveToken \/ ReceiveTokenResponse
  PROVE  ConsentInv'
<1> USE DEF pinVars, senderVars
<1>1. CASE ReceiveToken
  <2>1. task[R] = "token" /\ inbox[R] # <<>> /\ Read(R)
        /\ UNCHANGED <<slot, asked, selection, published, sending, given, whole>>
    BY <1>1 DEF ReceiveToken
  <2>2. CASE ~TokenFits(R, Head(inbox[R]).token)
    <3>1. Send(R, <<TokenBad>>) /\ task' = [task EXCEPT ![R] = "err"] /\ accepted' = accepted
      BY <1>1, <2>2 DEF ReceiveToken, Fail, Go
    <3>2. \A m \in Range(<<TokenBad>>) : m.type \notin {"List", "Grant"}
      BY One DEF TokenBad
    <3>3. "err" \notin Past(R) /\ "err" \in Granted /\ accepted \subseteq End
      BY DEF Past, Granted, ConsentInv, Phases
    <3> QED BY <2>1, <3>1, <3>2, <3>3, One, Ends, Speaking
  <2>3. CASE TokenFits(R, Head(inbox[R]).token)
    <3> DEFINE m == IF config.pin[R] = NoPin THEN TokenOk(LocalToken(R)) ELSE TokenPin(LocalToken(R))
    <3>1. Send(R, <<m>>) /\ Challenge(R)
      BY <1>1, <2>3 DEF ReceiveToken
    <3>2. m.type \notin {"List", "Grant"}
      BY DEF TokenOk, TokenPin
    <3> HIDE DEF m
    <3>3. \A n \in Range(<<m>>) : n.type \notin {"List", "Grant"}
      BY <3>2, One
    <3>4. PICK there \in {"list", "verify"} :
            /\ task' = [task EXCEPT ![R] = there]
            /\ accepted \subseteq accepted' /\ accepted' \subseteq End
            /\ there \in Past(R) => R \in accepted'
      BY <3>1, Challenging, Ends
    <3> QED BY <2>1, <3>1, <3>3, <3>4, One, Ends, Speaking DEF Granted
  <2> QED BY <2>2, <2>3
<1>2. CASE ReceiveTokenResponse
  <2>1. task[S] = "token" /\ inbox[S] # <<>> /\ Read(S)
        /\ UNCHANGED <<wire, slot, asked, selection, published, sending, given, whole>>
    BY <1>2 DEF ReceiveTokenResponse, receiverVars
  <2>2. PICK there \in {"list", "verify", "ask", "err"} :
          /\ task' = [task EXCEPT ![S] = there]
          /\ accepted \subseteq accepted' /\ accepted' \subseteq End
          /\ there \in Past(S) => S \in accepted'
    <3>1. CASE task' = [task EXCEPT ![S] = "err"] /\ UNCHANGED accepted
      BY <3>1 DEF Past, ConsentInv, Phases
    <3>2. CASE task' = [task EXCEPT ![S] = "ask"] /\ UNCHANGED accepted
      BY <3>2 DEF Past, ConsentInv, Phases
    <3>3. CASE Challenge(S)
      BY <3>3, Challenging, Ends
    <3> QED BY <1>2, <3>1, <3>2, <3>3 DEF ReceiveTokenResponse, Go
  <2> QED BY <2>1, <2>2, Silence, Ends, Speaking DEF Feeding
<1> QED BY <1>1, <1>2

\* handle_pin, without the receiver's reading of the list.
LEMMA PinAskedSteps ==
  ASSUME ConsentInv, NEW e \in End,
         \/ AskPin(e) \/ FillSlot(e) \/ TypePin(e) \/ TypePinTooLate(e)
         \/ e = S /\ ReceivePinReceivingResponse
  PROVE  ConsentInv'
<1> USE DEF senderVars, historyVars
<1>1. CASE AskPin(e)
  <2>1. /\ task[e] = "ask" /\ task' = [task EXCEPT ![e] = "slot"]
        /\ UNCHANGED <<wire, inbox, accepted, slot, asked, selection, published, sending, given, whole>>
    BY <1>1 DEF AskPin, Go, channelVars, pinVars, receiverVars
  <2>2. "slot" \in Past(e) => e \in accepted
    BY <2>1, Ends DEF Past, ConsentInv, Phases
  <2>3. "ask" \notin Granted /\ "slot" \notin Feeding /\ accepted \subseteq End
    BY DEF Feeding, Granted, ConsentInv, Phases
  <2>4. /\ e = R => "slot" # "choose" /\ (task[R] \in Granted => "slot" \in Granted)
        /\ e = S => ("slot" \in Feeding => task[S] \in Feeding) /\ "slot" # "file"
    BY <2>1, <2>3
  <2> QED BY <2>1, <2>2, <2>3, <2>4, Silence, Speaking
<1>2. CASE FillSlot(e)
  <2>1. /\ task[e] = "slot" /\ task' = [task EXCEPT ![e] = "typing"] /\ slot' = [slot EXCEPT ![e] = TRUE]
        /\ UNCHANGED <<wire, inbox, accepted, asked, selection, published, sending, given, whole>>
    BY <1>2 DEF FillSlot, Go, channelVars, receiverVars
  <2>2. "typing" \in Past(e) => e \in accepted
    BY <2>1, Ends DEF Past, ConsentInv, Phases
  <2>3. slot' = [x \in End |-> slot'[x]] /\ \A x \in End : slot'[x] => task'[x] = "typing"
    BY <2>1 DEF ConsentInv, Phases
  <2>4. Channels' /\ UNCHANGED <<ToRead(R), ToRead(S)>>
    BY <2>1 DEF ConsentInv, Channels, ToRead, IsSeq
  <2> QED BY <2>1, <2>2, <2>3, <2>4, Ends, Quiet DEF Feeding, Granted, ConsentInv, Phases
<1>3. ASSUME NEW there, task' = [task EXCEPT ![e] = there], there \in {"answer", "err"},
             slot[e], slot' = [slot EXCEPT ![e] = FALSE], NEW ms, IsSeq(ms),
             \A m \in Range(ms) : m.type \notin {"List", "Grant"}, UNCHANGED wire \/ Send(e, ms),
             UNCHANGED <<inbox, accepted, asked, selection, published, sending, given, whole>>
      PROVE  ConsentInv'
  <2>1. task[e] = "typing"
    BY <1>3 DEF ConsentInv, Phases
  <2>2. there \in Past(e) => e \in accepted
    BY <1>3, <2>1, Ends DEF Past, ConsentInv, Phases
  <2>3. slot' = [x \in End |-> slot'[x]] /\ \A x \in End : slot'[x] => task'[x] = "typing"
    BY <1>3 DEF ConsentInv, Phases
  <2>4. /\ Channels' /\ ToRead(e)' \subseteq ToRead(e)
        /\ ToRead(Other(e))' \subseteq ToRead(Other(e)) \cup Range(ms)
    BY <1>3, Speak DEF ConsentInv
  <2>5. /\ \A m \in ToRead(R)' : m \in ToRead(R) \/ m.type # "List"
        /\ \A m \in ToRead(S)' : m \in ToRead(S) \/ m.type # "Grant"
    BY <1>3, <2>4, Ends, Others
  <2> QED BY <1>3, <2>1, <2>2, <2>3, <2>4, <2>5, Ends, Quiet DEF Feeding, Granted, ConsentInv, Phases
<1>4. CASE TypePin(e)
  <2>1. PICK p \in Pins : Send(e, <<PinMsg(p)>>)
    BY <1>4 DEF TypePin
  <2>2. \A m \in Range(<<PinMsg(p)>>) : m.type \notin {"List", "Grant"}
    BY One DEF PinMsg
  <2> QED BY <1>3, <1>4, <2>1, <2>2, One DEF TypePin, Go, receiverVars
<1>5. CASE TypePinTooLate(e)
  BY <1>3, <1>5, Silence DEF TypePinTooLate, Fail, Go, channelVars
<1>6. CASE e = S /\ ReceivePinReceivingResponse
  <2>1. task[S] = "answer" /\ inbox[S] # <<>> /\ Read(S)
        /\ UNCHANGED <<wire, slot, asked, selection, published, sending, given, whole>>
    BY <1>6 DEF ReceivePinReceivingResponse, pinVars, receiverVars
  <2>2. PICK there \in {"list", "verify", "ask", "err"} :
          /\ task' = [task EXCEPT ![S] = there]
          /\ accepted \subseteq accepted' /\ accepted' \subseteq End
          /\ there \in Past(S) => S \in accepted'
    <3>1. CASE task' = [task EXCEPT ![S] = "err"] /\ UNCHANGED accepted
      BY <3>1 DEF Past, ConsentInv, Phases
    <3>2. CASE task' = [task EXCEPT ![S] = "ask"] /\ UNCHANGED accepted
      BY <3>2 DEF Past, ConsentInv, Phases
    <3>3. CASE Challenge(S)
      BY <3>3, Challenging, Ends
    <3> QED BY <1>6, <3>1, <3>2, <3>3 DEF ReceivePinReceivingResponse, Go
  <2> QED BY <2>1, <2>2, Silence, Ends, Speaking DEF Feeding
<1> QED BY <1>1, <1>2, <1>4, <1>5, <1>6

\* A message that carries no consent, sent in one piece or in chunks.
LEMMA Plain ==
  ASSUME NEW e \in End, NEW m, m.type \notin {"List", "Grant"}
  PROVE  /\ IsSeq(<<m>>) /\ \A n \in Range(<<m>>) : n.type \notin {"List", "Grant"}
         /\ IsSeq(Framed(e, m)) /\ \A n \in Range(Framed(e, m)) : n.type \notin {"List", "Grant"}
<1>1. Delimiter.type \notin {"List", "Grant"}
  BY DEF Delimiter
<1> QED BY <1>1, One, Frames

\* verify_pin
LEMMA VerifySteps ==
  ASSUME ConsentInv, NEW e \in End, Verify(e)
  PROVE  ConsentInv'
<1> USE DEF senderVars, historyVars
<1>0. accepted \subseteq End /\ Channels
  BY DEF ConsentInv, Phases
<1>2. CASE PinRight(e)
  <2>1. /\ task[e] = "verify" /\ task' = [task EXCEPT ![e] = "list"] /\ accepted' = accepted \cup {e}
        /\ UNCHANGED <<inbox, slot, asked, selection, published, sending, given, whole>>
    BY <1>2 DEF PinRight, Go, receiverVars
  <2>2. UNCHANGED wire \/ Send(e, <<PinOk>>)
    <3>1. CASE e = R
      <4>1. wire[S] \in Seq(Range(wire[S]) \cup {PinOk})
        BY <1>0, Ends, SeqMonotonic DEF Channels, IsSeq
      <4>2. Append(wire[S], PinOk) = wire[S] \o <<PinOk>>
        BY <4>1, AppendIsConcat
      <4> QED BY <1>2, <3>1, <4>2, Others DEF PinRight, Send
    <3> QED BY <1>2, <3>1 DEF PinRight
  <2>3. PinOk.type \notin {"List", "Grant"}
    BY DEF PinOk
  <2>4. /\ e = R => "list" # "choose" /\ (task[R] \in Granted => "list" \in Granted)
        /\ e = S => ("list" \in Feeding => task[S] \in Feeding) /\ "list" # "file"
    BY <2>1 DEF Granted, Feeding
  <2>5. accepted \subseteq accepted' /\ accepted' \subseteq End /\ e \in accepted'
    BY <1>0, <2>1
  <2> HIDE DEF PinOk
  <2>6. IsSeq(<<PinOk>>) /\ \A n \in Range(<<PinOk>>) : n.type \notin {"List", "Grant"}
    BY <2>3, Plain
  <2> QED BY <2>1, <2>2, <2>4, <2>5, <2>6, Speaking
<1>3. ASSUME NEW there \in {"pin", "err", "verify"}, task' = [task EXCEPT ![e] = there],
             task[e] \in {"pin", "verify"}, NEW ms, IsSeq(ms),
             \A n \in Range(ms) : n.type \notin {"List", "Grant"},
             UNCHANGED wire \/ Send(e, ms), UNCHANGED inbox \/ (inbox[e] # <<>> /\ Read(e)),
             UNCHANGED <<slot, accepted, asked, selection, published, sending, given, whole>>
      PROVE  ConsentInv'
  <2>1. /\ e = R => there # "choose" /\ (task[R] \in Granted => there \in Granted)
        /\ e = S => (there \in Feeding => task[S] \in Feeding) /\ there # "file"
    BY <1>3 DEF Granted, Feeding
  <2>2. there \notin Past(e) /\ task[e] # "typing"
    BY <1>3 DEF Past
  <2> QED BY <1>0, <1>3, <2>1, <2>2, Speaking
<1>4. CASE PinWanted(e)
  <2>1. PinRequired.type \notin {"List", "Grant"}
    BY DEF PinRequired
  <2>2. UNCHANGED wire \/ Send(e, Framed(e, PinRequired))
    BY <1>4 DEF PinWanted, Send
  <2> QED BY <1>3, <1>4, <2>1, <2>2, Plain DEF PinWanted, Go, pinVars, receiverVars
<1>5. CASE PinExhausted(e)
  <2>1. PinTooMany.type \notin {"List", "Grant"}
    BY DEF PinTooMany
  <2> QED BY <1>3, <1>5, <2>1, Plain DEF PinExhausted, Fail, Go, pinVars
<1>6. CASE ReceivePin(e)
  <2>1. task' = [task EXCEPT ![e] = "verify"] \/ task' = [task EXCEPT ![e] = "err"]
    BY <1>6 DEF ReceivePin, Fail, Go
  <2> QED BY <1>3, <1>6, <2>1, Silence DEF ReceivePin
<1> QED BY <1>2, <1>4, <1>5, <1>6 DEF Verify

-----------------------------------------------------------------------------
(* The list and the selection.                                              *)

LEMMA ListStep ==
  ASSUME ConsentInv, SendList
  PROVE  ConsentInv'
<1>1. /\ task[S] = "list" /\ task' = [task EXCEPT ![S] = "selection"] /\ Send(S, Framed(S, List))
      /\ UNCHANGED <<inbox, slot, accepted, asked, selection, published, sending, given, whole>>
  BY DEF SendList, Go, pinVars, senderVars, receiverVars, historyVars
<1>2. S \in accepted
  BY <1>1, Ends DEF ConsentInv, Phases, Past
<1>3. /\ Channels' /\ ToRead(S)' \subseteq ToRead(S)
      /\ ToRead(R)' \subseteq ToRead(R) \cup Range(Framed(S, List))
  BY <1>1, Ends, Others, Frames, Speak DEF ConsentInv
<1>4. Phases'
  BY <1>1, <1>2, Ends DEF ConsentInv, Phases, Past
<1>5. Meaning'
  BY <1>1, <1>2, <1>3 DEF ConsentInv, Meaning
<1>6. Asking' /\ Moving'
  BY <1>1, Ends DEF ConsentInv, Phases, Asking, Moving, Feeding
<1> QED BY <1>3, <1>4, <1>5, <1>6 DEF ConsentInv

\* What a task collects from chunks is the first of its messages, or nothing that
\* could be parsed.
LEMMA Collecting ==
  ASSUME ConsentInv, NEW e \in End, Strings(e) # {}
  PROVE  Collected(e) \in ToRead(e) \/ Collected(e).type = "Unparsable"
<1>1. CASE NextString(e) = 2
  <2>1. IsSeq(inbox[e])
    BY DEF ConsentInv, Channels
  <2>2. 1 \in DOMAIN inbox[e]
    BY <1>1, <2>1, FirstString DEF IsSeq
  <2> QED BY <1>1, <2>2 DEF Collected, ToRead, Range
<1>2. CASE NextString(e) # 2
  BY <1>2 DEF Collected
<1> QED BY <1>1, <1>2

LEMMA AskStep ==
  ASSUME ConsentInv, ReceivePinSendingResponse
  PROVE  ConsentInv'
<1> USE DEF historyVars
<1>1. /\ task[R] \in {"list", "answer"} /\ Strings(R) # {} /\ Collect(R)
      /\ UNCHANGED <<wire, slot, accepted, selection, published, sending, given, whole>>
  BY DEF ReceivePinSendingResponse, pinVars, senderVars
<1>2. R \in accepted /\ accepted \subseteq End
  BY <1>1, Ends DEF ConsentInv, Phases, Past
<1>3. CASE Collected(R).type = "List"
  <2>1. task' = [task EXCEPT ![R] = "choose"] /\ asked' = TRUE
    BY <1>3 DEF ReceivePinSendingResponse, Go
  <2>2. S \in accepted
    BY <1>1, <1>3, Collecting, Ends DEF ConsentInv, Meaning
  <2>3. accepted = End
    BY <1>2, <2>2, Ends
  <2>4. Channels' /\ ToRead(R)' \subseteq ToRead(R) /\ ToRead(S)' \subseteq ToRead(S)
    BY <1>1, Ends, Others, Silence, Speak DEF ConsentInv
  <2>5. Phases'
    BY <1>1, <1>2, <2>1, Ends DEF ConsentInv, Phases, Past
  <2>6. Meaning'
    BY <1>1, <2>4 DEF ConsentInv, Meaning
  <2>7. selection = None
    BY <1>1 DEF ConsentInv, Asking, Granted
  <2>8. Asking' /\ Moving'
    BY <1>1, <2>1, <2>3, <2>7, Ends DEF ConsentInv, Phases, Asking, Moving
  <2> QED BY <2>4, <2>5, <2>6, <2>8 DEF ConsentInv
<1>4. CASE Collected(R).type # "List"
  <2>1. UNCHANGED asked
    BY <1>4 DEF ReceivePinSendingResponse
  <2>2. PICK there \in {"ask", "err"} : task' = [task EXCEPT ![R] = there]
    BY <1>4 DEF ReceivePinSendingResponse, Fail, Go
  <2>3. there # "choose" /\ (task[R] \in Granted => there \in Granted) /\ task[R] # "typing"
    BY <1>1 DEF Granted
  <2> QED BY <1>1, <1>2, <2>1, <2>2, <2>3, Silence, Ends, Speaking
<1> QED BY <1>3, <1>4

\* The one step that decides what may move: the selection is made once, so no other
\* Grant is under way.
LEMMA ChooseStep ==
  ASSUME ConsentInv, Choose
  PROVE  ConsentInv'
<1>1. /\ task[R] = "choose"
      /\ UNCHANGED <<inbox, slot, accepted, asked, published, sending, given, whole>>
  BY DEF Choose, pinVars, senderVars, historyVars
<1>2. asked /\ selection = None /\ published = None /\ R \in accepted
  BY <1>1, Ends DEF ConsentInv, Phases, Asking, Moving, Granted, Past
<1>3. PICK there \in {"files", "ok", "err"} : task' = [task EXCEPT ![R] = there]
  BY DEF Choose, Go
<1>4. selection' # None
  BY TransferAssumption DEF Choose
<1>5. PICK ms : /\ IsSeq(ms)
                /\ UNCHANGED wire \/ Send(R, ms)
                /\ \A m \in Range(ms) : m.type = "Grant" => m.files = selection'
  <2>1. ASSUME NEW s \in Selections, selection' = s, Send(R, Framed(R, Grant(s)))
        PROVE  \A m \in Range(Framed(R, Grant(s))) : m.type = "Grant" => m.files = selection'
    BY <2>1, Frames, Ends DEF Grant, Delimiter
  <2>2. \A m \in Range(Framed(R, Declined)) : m.type = "Grant" => m.files = selection'
    BY Frames, Ends DEF Declined, Delimiter
  <2> QED BY <2>1, <2>2, Silence, Frames, Ends DEF Choose
<1>6. /\ Channels' /\ ToRead(R)' \subseteq ToRead(R)
      /\ ToRead(S)' \subseteq ToRead(S) \cup Range(ms)
  <2>1. Channels /\ R \in End /\ Other(R) = S /\ UNCHANGED inbox
    BY <1>1, Ends, Others DEF ConsentInv
  <2>2. /\ Channels' /\ ToRead(R)' \subseteq ToRead(R)
        /\ ToRead(Other(R))' \subseteq ToRead(Other(R)) \cup Range(ms)
    BY <1>5, <2>1, Speak
  <2> QED BY <2>1, <2>2
<1>7. Phases'
  BY <1>1, <1>2, <1>3, Ends DEF ConsentInv, Phases
<1>8. Meaning'
  BY <1>1, <1>2, <1>4, <1>5, <1>6 DEF ConsentInv, Meaning
<1>9. Asking' /\ Moving'
  BY <1>1, <1>2, <1>3, <1>4, Ends DEF ConsentInv, Phases, Asking, Moving, Granted
<1> QED BY <1>6, <1>7, <1>8, <1>9 DEF ConsentInv

LEMMA SelectionStep ==
  ASSUME ConsentInv, ReceiveSelection
  PROVE  ConsentInv'
<1>1. /\ task[S] = "selection" /\ Strings(S) # {} /\ Collect(S)
      /\ UNCHANGED <<wire, slot, accepted, asked, selection, sending, given, whole>>
  BY DEF ReceiveSelection, pinVars, receiverVars, historyVars
<1>2. S \in accepted /\ accepted \subseteq End
  BY <1>1, Ends DEF ConsentInv, Phases, Past
<1>3. CASE Collected(S).type = "Grant"
  <2>1. task' = [task EXCEPT ![S] = "feed"] /\ published' = Collected(S).files
    BY <1>3 DEF ReceiveSelection, Go
  <2>2. selection # None /\ published' = selection
    BY <1>1, <1>3, <2>1, Collecting, Ends DEF ConsentInv, Meaning
  <2>3. Channels' /\ ToRead(R)' \subseteq ToRead(R) /\ ToRead(S)' \subseteq ToRead(S)
    BY <1>1, Ends, Others, Silence, Speak DEF ConsentInv
  <2>4. Phases'
    BY <1>1, <1>2, <2>1, Ends DEF ConsentInv, Phases
  <2>5. Meaning'
    BY <1>1, <2>3 DEF ConsentInv, Meaning
  <2>6. Asking' /\ Moving'
    BY <1>1, <2>1, <2>2, Ends DEF ConsentInv, Phases, Asking, Moving
  <2> QED BY <2>3, <2>4, <2>5, <2>6 DEF ConsentInv
<1>4. CASE Collected(S).type # "Grant"
  <2>1. task' = [task EXCEPT ![S] = "ok"] /\ UNCHANGED published
    BY <1>4 DEF ReceiveSelection, Go
  <2>2. "ok" \notin Past(S) \cup Feeding
    BY DEF Past, Feeding
  <2>3. S # R /\ task[S] # "typing" /\ "ok" # "file" /\ UNCHANGED accepted
    BY <1>1, Ends
  <2> QED BY <1>1, <1>2, <2>1, <2>2, <2>3, Silence, Speaking
<1> QED BY <1>3, <1>4

-----------------------------------------------------------------------------
(* The files.                                                               *)

LEMMA SendFileSteps ==
  ASSUME ConsentInv, StartFile \/ SendChunk \/ EndFile \/ SendDelimiter \/ ReceiveLast
  PROVE  ConsentInv'
<1> USE DEF historyVars
<1>0. accepted \subseteq End /\ task = [e \in End |-> task[e]]
  BY DEF ConsentInv, Phases
\* A message of the sender, and what else the step changes.
<1>1. ASSUME NEW ms, IsSeq(ms), \A n \in Range(ms) : n.type \notin {"List", "Grant"},
             UNCHANGED wire \/ Send(S, ms),
             NEW there, task' = [task EXCEPT ![S] = there], there \in {"feed", "file"},
             task[S] \in {"feed", "file"}, there = "file" => sending' \in published, Moving',
             UNCHANGED <<inbox, slot, accepted, asked, selection, published>>
      PROVE  ConsentInv'
  <2>1. Channels' /\ ToRead(S)' \subseteq ToRead(S) /\ ToRead(R)' \subseteq ToRead(R) \cup Range(ms)
    BY <1>1, Ends, Others, Speak DEF ConsentInv
  <2>2. Phases'
    BY <1>1, Ends DEF ConsentInv, Phases, Past
  <2>3. Meaning'
    BY <1>1, <2>1 DEF ConsentInv, Meaning
  <2>4. Asking'
    BY <1>0, <1>1, Ends DEF ConsentInv, Asking
  <2> QED BY <1>1, <2>1, <2>2, <2>3, <2>4 DEF ConsentInv
<1>2. CASE StartFile
  <2>1. task[S] = "feed" /\ UNCHANGED <<inbox, slot, accepted, asked, selection, published, given, whole>>
    BY <1>2 DEF StartFile, pinVars, receiverVars
  <2>2. CASE Head(feed) \in published /\ CanSend(S)
    <3> DEFINE m == Header(Head(feed))
    <3>1. Send(S, <<m>>) /\ sending' = Head(feed) /\ task' = [task EXCEPT ![S] = "file"]
      BY <1>2, <2>2 DEF StartFile, Go
    <3>2. m.type \notin {"List", "Grant"}
      BY DEF Header
    <3>3. Moving'
      BY <2>1, <2>2, <3>1, Ends DEF ConsentInv, Moving, Feeding
    <3> HIDE DEF m
    <3> QED BY <1>1, <2>1, <2>2, <3>1, <3>2, <3>3, Plain, Ends
  <2>3. CASE ~(Head(feed) \in published /\ CanSend(S))
    <3>1. UNCHANGED <<wire, sending, task>>
      BY <1>2, <2>3 DEF StartFile
    <3> QED BY <2>1, <3>1, Still
  <2> QED BY <2>2, <2>3
<1>3. CASE SendChunk
  <2> DEFINE m == Chunk(sending, given[sending] + 1)
  <2>1. /\ task[S] = "file" /\ Send(S, <<m>>) /\ given' = [given EXCEPT ![sending] = @ + 1]
        /\ UNCHANGED <<task, inbox, slot, accepted, asked, selection, published, sending, whole>>
    BY <1>3 DEF SendChunk, pinVars, senderVars, receiverVars
  <2>2. m.type \notin {"List", "Grant"}
    BY DEF Chunk
  <2>3. sending \in published /\ published # None
    BY <2>1 DEF ConsentInv, Moving, Feeding
  <2>4. Moving'
    BY <2>1, <2>3 DEF ConsentInv, Moving
  <2>5. task' = [task EXCEPT ![S] = "file"]
    BY <1>0, <2>1
  <2> HIDE DEF m
  <2> QED BY <1>1, <2>1, <2>2, <2>3, <2>4, <2>5, Plain, Ends
<1>4. CASE EndFile
  <2>1. /\ task[S] = "file" /\ task' = [task EXCEPT ![S] = "feed"] /\ whole' \subseteq whole \cup {sending}
        /\ UNCHANGED <<wire, inbox, slot, accepted, asked, selection, published, given>>
    BY <1>4 DEF EndFile, Go, channelVars, pinVars, receiverVars
  <2>2. sending \in published /\ published # None
    BY <2>1 DEF ConsentInv, Moving, Feeding
  <2>3. Moving'
    BY <1>0, <2>1, <2>2, Ends DEF ConsentInv, Moving
  <2> QED BY <1>1, <2>1, <2>3, Silence
<1>5. ASSUME NEW there \in {"last", "ok"}, task' = [task EXCEPT ![S] = there],
             task[S] \in {"feed", "last"}, NEW ms, IsSeq(ms),
             \A n \in Range(ms) : n.type \notin {"List", "Grant"},
             UNCHANGED wire \/ Send(S, ms), UNCHANGED inbox \/ (inbox[S] # <<>> /\ Read(S)),
             UNCHANGED <<slot, accepted, asked, selection, published, sending, given, whole>>
      PROVE  ConsentInv'
  <2>1. S \in accepted
    BY <1>5, Ends DEF ConsentInv, Phases, Past
  <2>2. (there \in Feeding => task[S] \in Feeding) /\ there # "file" /\ task[S] # "typing"
    BY <1>5 DEF Feeding
  <2> QED BY <1>0, <1>5, <2>1, <2>2, Ends, Speaking
<1>6. CASE SendDelimiter
  <2>1. Delimiter.type \notin {"List", "Grant"}
    BY DEF Delimiter
  <2> QED BY <1>5, <1>6, <2>1, Plain, Ends DEF SendDelimiter, Go, pinVars, senderVars, receiverVars
<1>7. CASE ReceiveLast
  BY <1>5, <1>7, Silence DEF ReceiveLast, Go, pinVars, senderVars, receiverVars
<1> QED BY <1>2, <1>3, <1>4, <1>6, <1>7

LEMMA ReceiveFileSteps ==
  ASSUME ConsentInv,
         \/ CloseFile \/ SendResult \/ EndOfAllFiles \/ ReadHeader \/ DelimiterAsHeader \/ ReadChunk
  PROVE  ConsentInv'
<1> USE DEF pinVars, senderVars, historyVars
<1>0. accepted \subseteq End /\ task = [e \in End |-> task[e]]
  BY DEF ConsentInv, Phases
<1>1. ASSUME NEW there \in {"files", "result", "flush", "ok", "err"}, task' = [task EXCEPT ![R] = there],
             task[R] \in {"files", "result", "flush"}, NEW ms, IsSeq(ms),
             \A n \in Range(ms) : n.type \notin {"List", "Grant"},
             UNCHANGED wire \/ Send(R, ms), UNCHANGED inbox \/ (inbox[R] # <<>> /\ Read(R)),
             UNCHANGED <<slot, accepted, asked, selection, published, sending, given, whole>>
      PROVE  ConsentInv'
  <2>1. R \in accepted
    BY <1>1, Ends DEF ConsentInv, Phases, Past
  <2>2. there # "choose" /\ there \in Granted /\ task[R] # "typing"
    BY <1>1 DEF Granted
  <2> QED BY <1>0, <1>1, <2>1, <2>2, Ends, Speaking
<1>2. CASE CloseFile
  BY <1>1, <1>2, Silence DEF CloseFile, Go, channelVars
<1>3. CASE SendResult
  <2> DEFINE m == Result(last_file, Head(outcome).success)
  <2>1. m.type \notin {"List", "Grant"}
    BY DEF Result
  <2>2. /\ Send(R, <<m>>) /\ task[R] = "result"
        /\ UNCHANGED <<inbox, slot, accepted, asked, selection, published, sending, given, whole>>
    BY <1>3 DEF SendResult
  <2>3. task' = [task EXCEPT ![R] = "flush"] \/ task' = [task EXCEPT ![R] = "files"]
    BY <1>3 DEF SendResult, Go
  <2> HIDE DEF m
  <2> QED BY <1>1, <2>1, <2>2, <2>3, Plain, Ends
<1>4. CASE EndOfAllFiles
  <2>1. task[R] = "flush" /\ task' = [task EXCEPT ![R] = "ok"]
        /\ UNCHANGED <<wire, slot, accepted, asked, selection, published, sending, given, whole>>
    BY <1>4 DEF EndOfAllFiles, Go, receiverVars
  <2>2. UNCHANGED inbox \/ (inbox[R] # <<>> /\ Read(R))
    BY <1>4 DEF EndOfAllFiles
  <2> QED BY <1>1, <2>1, <2>2, Silence
<1>5. CASE ReadHeader
  <2>1. task' = [task EXCEPT ![R] = "files"]
    BY <1>0, <1>5 DEF ReadHeader
  <2> QED BY <1>1, <1>5, <2>1, Silence DEF ReadHeader
<1>6. CASE DelimiterAsHeader
  BY <1>1, <1>6, Silence DEF DelimiterAsHeader, Fail, Go
<1>7. CASE ReadChunk
  <2>1. task' = [task EXCEPT ![R] = "files"] \/ task' = [task EXCEPT ![R] = "err"]
    BY <1>0, <1>7 DEF ReadChunk, Fail, Go
  <2> QED BY <1>1, <1>7, <2>1, Silence DEF ReadChunk
<1> QED BY <1>2, <1>3, <1>4, <1>5, <1>6, <1>7

-----------------------------------------------------------------------------
(* The network, the end of a task, and the theorem.                         *)

LEMMA Delivered ==
  ASSUME Channels, NEW e \in End, Deliver(e)
  PROVE  Channels' /\ \A x \in End : ToRead(x)' \subseteq ToRead(x)
<1>1. /\ wire[e] # <<>> /\ inbox' = [inbox EXCEPT ![e] = Append(@, Head(wire[e]))]
      /\ wire' = [wire EXCEPT ![e] = Tail(@)]
  BY DEF Deliver
<1>2. IsSeq(wire[e]) /\ IsSeq(inbox[e])
  BY DEF Channels
<1> DEFINE m == Head(wire[e])
<1>3. IsSeq(Tail(wire[e])) /\ Range(Tail(wire[e])) \subseteq Range(wire[e]) /\ m \in Range(wire[e])
  BY <1>1, <1>2, Rest
<1> HIDE DEF m
<1>4. Append(inbox[e], m) = inbox[e] \o <<m>>
  <2>1. inbox[e] \in Seq(Range(inbox[e]) \cup {m})
    BY <1>2, SeqMonotonic DEF IsSeq
  <2> QED BY <2>1, AppendIsConcat
<1>5. IsSeq(Append(inbox[e], m)) /\ Range(Append(inbox[e], m)) \subseteq Range(inbox[e]) \cup {m}
  BY <1>2, <1>4, One, Joined
<1>6. /\ inbox' = [x \in End |-> inbox'[x]] /\ inbox'[e] = Append(inbox[e], m)
      /\ wire' = [x \in End |-> wire'[x]] /\ wire'[e] = Tail(wire[e])
      /\ \A x \in End \ {e} : inbox'[x] = inbox[x] /\ wire'[x] = wire[x]
  BY <1>1, <1>2 DEF Channels, m
<1>7. Channels'
  <2>1. ASSUME NEW x \in End PROVE IsSeq(wire'[x]) /\ IsSeq(inbox'[x])
    BY <1>2, <1>3, <1>5, <1>6 DEF Channels
  <2> QED BY <1>6, <2>1 DEF Channels, IsSeq
<1>8. \A x \in End : ToRead(x)' \subseteq ToRead(x)
  BY <1>3, <1>5, <1>6 DEF ToRead
<1> QED BY <1>7, <1>8

LEMMA DeliverStep ==
  ASSUME ConsentInv, NEW e \in End, Deliver(e)
  PROVE  ConsentInv'
<1>1. UNCHANGED <<task, slot, accepted, asked, selection, published, sending, given, whole>>
  BY DEF Deliver, pinVars, senderVars, receiverVars, historyVars
<1>2. Channels' /\ \A x \in End : ToRead(x)' \subseteq ToRead(x)
  BY Delivered DEF ConsentInv
<1>3. Meaning'
  BY <1>1, <1>2, Ends DEF ConsentInv, Meaning
<1>4. Phases' /\ Asking' /\ Moving'
  BY <1>1 DEF ConsentInv, Phases, Asking, Moving
<1> QED BY <1>2, <1>3, <1>4 DEF ConsentInv

LEMMA SendFailsStep ==
  ASSUME ConsentInv, NEW e \in End, SendFails(e)
  PROVE  ConsentInv'
<1>1. /\ task[e] \in {"open", "verify", "list", "nonce", "token", "result"}
      /\ task' = [task EXCEPT ![e] = "err"]
      /\ UNCHANGED <<wire, inbox, slot, accepted, asked, selection, published, sending, given, whole>>
  BY DEF SendFails, Fail, Go, channelVars, pinVars, senderVars, historyVars
<1>2. "err" \notin Past(e) /\ "err" \in Granted /\ "err" \notin Feeding /\ accepted \subseteq End
  BY DEF Past, Granted, Feeding, ConsentInv, Phases
<1>3. task[e] # "typing" /\ "err" # "choose" /\ "err" # "file"
  BY <1>1
<1> QED BY <1>1, <1>2, <1>3, Silence, Speaking

\* The steps that touch neither a task nor a channel.
LEMMA StillSteps ==
  ASSUME ConsentInv,
         \/ SendOffer \/ OnAnswer \/ AcceptOffer \/ ReceiveAnswer \/ LoseLink
         \/ \E e \in End : Call(e)
         \/ TakeFile \/ DropSendController \/ \E f \in File : SendFile(f) \/ Write(f) \/ Report(f)
         \/ UNCHANGED vars
  PROVE  ConsentInv'
<1> USE DEF channelVars, pinVars, senderVars, receiverVars, historyVars
<1>1. CASE SendOffer \/ OnAnswer \/ AcceptOffer \/ ReceiveAnswer \/ LoseLink
  BY <1>1, Still DEF SendOffer, OnAnswer, AcceptOffer, ReceiveAnswer, LoseLink
<1>2. CASE \E e \in End : Call(e)
  BY <1>2, Still DEF Call, JoinTask, Disconnected
<1>3. CASE TakeFile \/ DropSendController
  BY <1>3, Still DEF TakeFile, DropSendController
<1>4. CASE \E f \in File : SendFile(f) \/ Write(f) \/ Report(f)
  BY <1>4, Still DEF SendFile, Write, Report
<1>5. CASE UNCHANGED vars
  BY <1>5, Still DEF vars
<1> QED BY <1>1, <1>2, <1>3, <1>4, <1>5

LEMMA ConsentInit == Init => ConsentInv
<1> SUFFICES ASSUME Init PROVE ConsentInv
  OBVIOUS
<1>1. Channels /\ Meaning
  BY Silence, Ends DEF Init, Channels, Meaning, ToRead
<1>2. Phases
  BY DEF Init, Phases, Past
<1>3. Asking
  BY Ends DEF Init, Asking
<1>4. task[S] = "open" /\ published = None /\ whole = {} /\ given = [f \in File |-> 0]
  BY Ends DEF Init
<1>5. Moving
  <2>1. task[S] \notin Feeding /\ task[S] # "file"
    BY <1>4 DEF Feeding
  <2> QED BY <1>4, <2>1 DEF Moving
<1> QED BY <1>1, <1>2, <1>3, <1>5 DEF ConsentInv

LEMMA ConsentNext == ConsentInv /\ [Next]_vars => ConsentInv'
<1> SUFFICES ASSUME ConsentInv, [Next]_vars PROVE ConsentInv'
  OBVIOUS
<1>1. CASE SendTask
  <2>1. CASE OpenChannel \/ ReceiveNonce(S)
    BY <2>1, NonceSteps, Ends
  <2>2. CASE ReceiveTokenResponse
    BY <2>2, TokenSteps
  <2>3. CASE Challenged(S) \/ ReceivePinReceivingResponse
    BY <2>3, PinAskedSteps, Ends DEF Challenged
  <2>4. CASE Verify(S)
    BY <2>4, VerifySteps, Ends
  <2>5. CASE SendList \/ ReceiveSelection
    BY <2>5, ListStep, SelectionStep
  <2>6. CASE StartFile \/ SendChunk \/ EndFile \/ SendDelimiter \/ ReceiveLast
    BY <2>6, SendFileSteps
  <2>7. CASE SendFails(S)
    BY <2>7, SendFailsStep, Ends
  <2> QED BY <1>1, <2>1, <2>2, <2>3, <2>4, <2>5, <2>6, <2>7 DEF SendTask
<1>2. CASE ReceiveTask
  <2>1. CASE ReceiveNonce(R)
    BY <2>1, NonceSteps, Ends
  <2>2. CASE ReceiveToken
    BY <2>2, TokenSteps
  <2>3. CASE Verify(R)
    BY <2>3, VerifySteps, Ends
  <2>4. CASE ReceivePinSendingResponse
    BY <2>4, AskStep
  <2>5. CASE Challenged(R)
    BY <2>5, PinAskedSteps, Ends DEF Challenged
  <2>6. CASE CloseFile \/ SendResult \/ EndOfAllFiles \/ ReadHeader \/ DelimiterAsHeader \/ ReadChunk
    BY <2>6, ReceiveFileSteps
  <2>7. CASE SendFails(R)
    BY <2>7, SendFailsStep, Ends
  <2> QED BY <1>2, <2>1, <2>2, <2>3, <2>4, <2>5, <2>6, <2>7 DEF ReceiveTask
<1>3. CASE App
  <2>1. CASE \E e \in End : TypePin(e) \/ TypePinTooLate(e)
    BY <2>1, PinAskedSteps
  <2>2. CASE Choose
    BY <2>2, ChooseStep
  <2>3. CASE TakeFile \/ DropSendController \/ \E f \in File : SendFile(f) \/ Write(f) \/ Report(f)
    BY <2>3, StillSteps
  <2> QED BY <1>3, <2>1, <2>2, <2>3 DEF App
<1>4. CASE \E e \in End : Deliver(e)
  BY <1>4, DeliverStep
<1>5. CASE \/ SendOffer \/ OnAnswer \/ AcceptOffer \/ ReceiveAnswer \/ LoseLink
           \/ \E e \in End : Call(e)
           \/ UNCHANGED vars
  BY <1>5, StillSteps
<1> QED BY <1>1, <1>2, <1>3, <1>4, <1>5 DEF Next

\* The receiving user sees the list only once both ends have accepted the other's token
\* and PIN, and no byte of a file leaves before that user has selected this very file:
\* for any PINs, tries, selections, sizes and faults.
THEOREM NothingBeforeConsent == Spec => []Consented
<1>1. ConsentInv => Consented
  BY DEF ConsentInv, Asking, Moving, Consented
<1> QED BY <1>1, ConsentInit, ConsentNext, PTL DEF Spec

-----------------------------------------------------------------------------
(* No file is cut short: chunks are on the wire only while the sender is in *)
(* its loop, which it leaves with an empty buffer.                          *)

Looping == {"feed", "file"}
Drained == \A m \in Range(wire[R]) : m.type = "Chunk" => task[S] \in Looping

\* A step that puts nothing on the sender's wire.
LEMMA Draining ==
  ASSUME Drained, Range(wire'[R]) \subseteq Range(wire[R]),
         task[S] \in Looping => task'[S] \in Looping
  PROVE  Drained'
BY DEF Drained

LEMMA DrainedSend ==
  ASSUME ConsentInv, Drained, NEW ms, IsSeq(ms), UNCHANGED wire \/ Send(S, ms),
         task[S] \in Looping => task'[S] \in Looping,
         \A m \in Range(ms) : m.type = "Chunk" => task'[S] \in Looping
  PROVE  Drained'
<1>1. CASE UNCHANGED wire
  BY <1>1, Draining
<1>2. CASE Send(S, ms)
  <2>1. wire'[R] = wire[R] \o ms
    BY <1>2, Ends, Others DEF Send, ConsentInv, Channels
  <2>2. Range(wire[R] \o ms) = Range(wire[R]) \cup Range(ms)
    BY Joined, Ends DEF ConsentInv, Channels
  <2> QED BY <2>1, <2>2 DEF Drained
<1> QED BY <1>1, <1>2

LEMMA DrainedSendTask ==
  ASSUME ConsentInv, Drained, SendTask
  PROVE  Drained'
<1>0. task = [e \in End |-> task[e]]
  BY DEF ConsentInv, Phases
<1>1. ASSUME NEW there, task' = [task EXCEPT ![S] = there], NEW ms, IsSeq(ms),
             \A m \in Range(ms) : m.type # "Chunk", UNCHANGED wire \/ Send(S, ms),
             task[S] \notin Looping \/ there \in Looping
      PROVE  Drained'
  BY <1>0, <1>1, Ends, DrainedSend
<1>2. CASE OpenChannel
  <2>1. \A m \in Range(<<Nonce(S)>>) : m.type # "Chunk"
    BY One DEF Nonce
  <2> QED BY <1>1, <1>2, <2>1, One DEF OpenChannel, Go, Looping
<1>3. CASE ReceiveNonce(S)
  <2>1. \A m \in Range(<<TokenMsg(LocalToken(S))>>) : m.type # "Chunk"
    BY One DEF TokenMsg
  <2> QED BY <1>1, <1>3, <2>1, One DEF ReceiveNonce, Go, Looping
<1>4. CASE ReceiveTokenResponse
  BY <1>1, <1>4, Silence DEF ReceiveTokenResponse, Challenge, Go, Looping
<1>5. CASE Challenged(S)
  BY <1>1, <1>5, Silence DEF Challenged, AskPin, FillSlot, Go, Looping, channelVars
<1>6. CASE ReceivePinReceivingResponse
  BY <1>1, <1>6, Silence DEF ReceivePinReceivingResponse, Challenge, Go, Looping
<1>7. CASE Verify(S)
  <2>1. \A m \in Range(Framed(S, PinRequired)) \cup Range(Framed(S, PinTooMany)) : m.type # "Chunk"
    BY Frames, Ends DEF PinRequired, PinTooMany, Delimiter
  <2>2. CASE PinRight(S)
    BY <1>1, <2>2, Silence, Ends DEF PinRight, Go, Looping
  <2>3. CASE PinWanted(S)
    <3>1. Send(S, Framed(S, PinRequired))
      BY <2>3 DEF PinWanted, Send
    <3> QED BY <1>1, <2>1, <2>3, <3>1, Frames, Ends DEF PinWanted, Go, Looping
  <2>4. CASE PinExhausted(S)
    BY <1>1, <2>1, <2>4, Frames, Ends DEF PinExhausted, Fail, Go, Looping
  <2>5. CASE ReceivePin(S)
    BY <1>1, <2>5, Silence DEF ReceivePin, Fail, Go, Looping
  <2> QED BY <1>7, <2>2, <2>3, <2>4, <2>5 DEF Verify
<1>8. CASE SendList
  <2>1. \A m \in Range(Framed(S, List)) : m.type # "Chunk"
    BY Frames, Ends DEF List, Delimiter
  <2> QED BY <1>1, <1>8, <2>1, Frames, Ends DEF SendList, Go, Looping
<1>9. CASE ReceiveSelection
  BY <1>1, <1>9, Silence DEF ReceiveSelection, Go, Looping
<1>10. CASE StartFile
  <2>1. CASE UNCHANGED <<wire, task>>
    BY <2>1, Draining
  <2>2. CASE Send(S, <<Header(Head(feed))>>) /\ Go(S, "file")
    <3>1. \A m \in Range(<<Header(Head(feed))>>) : m.type # "Chunk"
      BY One DEF Header
    <3> QED BY <1>1, <2>2, <3>1, One DEF Go, Looping
  <2> QED BY <1>10, <2>1, <2>2 DEF StartFile
<1>11. CASE SendChunk
  <2>1. task'[S] = task[S] /\ task[S] \in Looping
    BY <1>11 DEF SendChunk, Looping
  <2> QED BY <1>11, <2>1, One, DrainedSend DEF SendChunk
<1>12. CASE EndFile
  BY <1>1, <1>12, Silence DEF EndFile, Go, Looping, channelVars
<1>13. CASE SendDelimiter
  <2>1. wire[R] = <<>> /\ wire'[R] = wire[R] \o <<Delimiter>>
    BY <1>13, Ends, Others DEF SendDelimiter, BufferEmpty, Send, ConsentInv, Channels
  <2>2. Range(wire'[R]) = {Delimiter}
    BY <2>1, Joined, Silence, One
  <2> QED BY <2>2 DEF Drained, Delimiter
<1>14. CASE ReceiveLast
  BY <1>1, <1>14, Silence DEF ReceiveLast, Go, Looping
<1>15. CASE SendFails(S)
  BY <1>1, <1>15, Silence DEF SendFails, Fail, Go, Looping, channelVars
<1> QED
  BY <1>2, <1>3, <1>4, <1>5, <1>6, <1>7, <1>8, <1>9, <1>10, <1>11, <1>12, <1>13, <1>14, <1>15
     DEF SendTask

\* The receiver writes to the other wire.
LEMMA DrainedReceiveTask ==
  ASSUME ConsentInv, Drained, ReceiveTask
  PROVE  Drained'
<1>1. wire'[R] = wire[R]
  <2>1. CASE UNCHANGED wire
    BY <2>1
  <2>2. ASSUME NEW ms, Send(R, ms) PROVE wire'[R] = wire[R]
    BY <2>2, Ends, Others DEF Send, ConsentInv, Channels
  <2>3. CASE Verify(R)
    <3>1. CASE PinRight(R) \/ PinWanted(R)
      BY <3>1, Ends, Others DEF PinRight, PinWanted, ConsentInv, Channels
    <3>2. CASE PinExhausted(R) \/ ReceivePin(R)
      BY <2>1, <2>2, <3>2 DEF PinExhausted, ReceivePin
    <3> QED BY <2>3, <3>1, <3>2 DEF Verify
  <2>4. CASE ReceiveNonce(R) \/ ReceiveToken \/ ReceivePinSendingResponse
    BY <2>1, <2>2, <2>4 DEF ReceiveNonce, ReceiveToken, ReceivePinSendingResponse
  <2>5. CASE Challenged(R) \/ CloseFile \/ DelimiterAsHeader \/ SendFails(R)
    BY <2>1, <2>5 DEF Challenged, AskPin, FillSlot, CloseFile, DelimiterAsHeader, SendFails, channelVars
  <2>6. CASE SendResult \/ EndOfAllFiles \/ ReadHeader \/ ReadChunk
    BY <2>1, <2>2, <2>6 DEF SendResult, EndOfAllFiles, ReadHeader, ReadChunk
  <2> QED BY <2>3, <2>4, <2>5, <2>6 DEF ReceiveTask
<1>2. task'[S] = task[S]
  <2>1. task = [e \in End |-> task[e]]
    BY DEF ConsentInv, Phases
  <2>2. ASSUME UNCHANGED task \/ \E there : task' = [task EXCEPT ![R] = there] PROVE task'[S] = task[S]
    BY <2>1, <2>2, Ends
  <2>3. CASE ReceiveNonce(R) \/ ReceiveToken \/ ReceivePinSendingResponse \/ Challenged(R) \/ SendFails(R)
    BY <2>2, <2>3 DEF ReceiveNonce, ReceiveToken, Challenge, ReceivePinSendingResponse, Challenged,
       AskPin, FillSlot, SendFails, Fail, Go
  <2>4. CASE Verify(R)
    BY <2>2, <2>4 DEF Verify, PinRight, PinWanted, PinExhausted, ReceivePin, Fail, Go
  <2>5. CASE \/ CloseFile \/ SendResult \/ EndOfAllFiles \/ ReadHeader \/ DelimiterAsHeader \/ ReadChunk
    BY <2>2, <2>5 DEF CloseFile, SendResult, EndOfAllFiles, ReadHeader, DelimiterAsHeader, ReadChunk, Fail, Go
  <2> QED BY <2>3, <2>4, <2>5 DEF ReceiveTask
<1> QED BY <1>1, <1>2, Draining

LEMMA DrainedApp ==
  ASSUME ConsentInv, Drained, App
  PROVE  Drained'
<1>1. CASE TakeFile \/ DropSendController \/ \E f \in File : SendFile(f) \/ Write(f) \/ Report(f)
  <2>1. UNCHANGED <<wire, task>>
    BY <1>1 DEF TakeFile, DropSendController, SendFile, Write, Report, channelVars
  <2> QED BY <2>1, Draining
<1>2. CASE Choose
  <2>1. wire'[R] = wire[R]
    BY <1>2, Ends, Others DEF Choose, Send, ConsentInv, Channels
  <2>2. task'[S] = task[S]
    BY <1>2, Ends DEF Choose, Go, ConsentInv, Phases
  <2> QED BY <2>1, <2>2, Draining
<1>3. ASSUME NEW e \in End, TypePin(e) \/ TypePinTooLate(e) PROVE Drained'
  <2>1. task[e] = "typing" /\ task'[S] = (IF e = S THEN task'[S] ELSE task[S])
    BY <1>3, Ends DEF TypePin, TypePinTooLate, Fail, Go, ConsentInv, Phases
  <2>2. task[S] \in Looping => task'[S] \in Looping
    BY <2>1 DEF Looping
  <2>3. CASE UNCHANGED wire
    BY <2>2, <2>3, Draining
  <2>4. ASSUME NEW p \in Pins, Send(e, <<PinMsg(p)>>) PROVE Drained'
    <3>1. CASE e = R
      <4>1. wire'[R] = wire[R]
        BY <2>4, <3>1, Ends, Others DEF Send, ConsentInv, Channels
      <4> QED BY <2>2, <4>1, Draining
    <3>2. CASE e = S
      <4>1. \A m \in Range(<<PinMsg(p)>>) : m.type # "Chunk"
        BY One DEF PinMsg
      <4> QED BY <2>2, <2>4, <3>2, <4>1, One, DrainedSend
    <3> QED BY <3>1, <3>2, Ends
  <2> QED BY <1>3, <2>3, <2>4 DEF TypePin, TypePinTooLate, channelVars
<1> QED BY <1>1, <1>2, <1>3 DEF App

LEMMA DrainedNext == ConsentInv /\ Drained /\ [Next]_vars => Drained'
<1> SUFFICES ASSUME ConsentInv, Drained, [Next]_vars PROVE Drained'
  OBVIOUS
<1>1. CASE SendTask
  BY <1>1, DrainedSendTask
<1>2. CASE ReceiveTask
  BY <1>2, DrainedReceiveTask
<1>3. CASE App
  BY <1>3, DrainedApp
<1>4. ASSUME NEW e \in End, Deliver(e) PROVE Drained'
  <2>1. wire' = [wire EXCEPT ![e] = Tail(@)] /\ wire[e] # <<>> /\ UNCHANGED task
    BY <1>4 DEF Deliver
  <2>2. Range(Tail(wire[e])) \subseteq Range(wire[e])
    BY <2>1, Rest DEF ConsentInv, Channels
  <2>3. Range(wire'[R]) \subseteq Range(wire[R])
    BY <2>1, <2>2, Ends DEF ConsentInv, Channels
  <2> QED BY <2>1, <2>3, Draining
<1>5. CASE \/ SendOffer \/ OnAnswer \/ AcceptOffer \/ ReceiveAnswer \/ LoseLink
           \/ \E e \in End : Call(e)
           \/ UNCHANGED vars
  <2>1. UNCHANGED <<wire, task>>
    BY <1>5 DEF SendOffer, OnAnswer, AcceptOffer, ReceiveAnswer, LoseLink, Call, JoinTask, Disconnected,
       vars, channelVars
  <2> QED BY <2>1, Draining
<1> QED BY <1>1, <1>2, <1>3, <1>4, <1>5 DEF Next

\* A sender whose task has ended well has nothing of a file left on the wire, so the end
\* of its call, which closes the connection, cuts no file short.
THEOREM NothingIsCutShort == Spec => []NothingCutShort
<1>1. Init => Drained
  <2> SUFFICES ASSUME Init PROVE Drained
    OBVIOUS
  <2>1. wire = [e \in End |-> <<>>] /\ R \in End
    BY Ends DEF Init
  <2> QED BY <2>1, Silence DEF Drained
<1>2. ConsentInv /\ Drained => NothingCutShort
  <2> SUFFICES ASSUME ConsentInv, Drained, task[S] = "ok", NEW i \in DOMAIN wire[R]
               PROVE  wire[R][i].type # "Chunk"
    BY DEF NothingCutShort
  <2>1. wire[R][i] \in Range(wire[R])
    BY DEF Range
  <2> QED BY <2>1 DEF Drained, Looping
<1> QED BY <1>1, <1>2, ConsentInit, ConsentNext, DrainedNext, PTL DEF Spec
=============================================================================
