--------------------------- MODULE SendQueueProofs ---------------------------
(***************************************************************************)
(* Theorems about SendQueue for every number of messages.  The invariant   *)
(* proved first holds whatever the interleaving; the second one says what  *)
(* holds for as long as the two threads have not overlapped.                                             *)
(***************************************************************************)
EXTENDS SendQueue, TLAPS

USE SendQueueAssumption

-----------------------------------------------------------------------------
(* The inductive invariant of every schedule                               *)

\* A write that has not completed is the write of the front of the queue.
FrontIsWritten == writing # "none" => queue # << >>

\* The bound is tested before the push that relies on it.
RoomToPush == gui \in {"sawEmpty", "sawBusy"} => handed < MaxMsgs

IInv == TypeOK /\ InOrder /\ FrontIsWritten /\ RoomToPush

LEMMA AppendAt ==
  ASSUME NEW S, NEW s \in Seq(S), NEW e \in S
  PROVE  /\ Append(s, e) \in Seq(S)
         /\ Len(Append(s, e)) = Len(s) + 1
         /\ \A i \in 1..Len(s) + 1 : Append(s, e)[i] = IF i <= Len(s) THEN s[i] ELSE e
  OBVIOUS

\* The initial state satisfies the inductive invariant.
LEMMA InitIInv == Init => IInv
  BY DEF Init, IInv, TypeOK, InOrder, Accounted, WireInOrder, QueueInOrder,
         FrontIsWritten, RoomToPush, Unpopped, Faults

\* add_msg_to_send pushes the next number at the back of the queue.
LEMMA PushIInv == IInv /\ PushMsg /\ apart' \in BOOLEAN => IInv'
<1> SUFFICES ASSUME TypeOK, InOrder, FrontIsWritten, RoomToPush, PushMsg,
                    apart' \in BOOLEAN
             PROVE  IInv'
  BY DEF IInv
<1>1. TypeOK'
  BY DEF PushMsg, Pushed, AfterPush, TypeOK, RoomToPush, Faults
<1>2. /\ Len(queue') = Len(queue) + 1
      /\ \A i \in 1..Len(queue') :
            queue'[i] = IF i <= Len(queue) THEN queue[i] ELSE handed + 1
  BY DEF PushMsg, Pushed, AfterPush, TypeOK
<1>3. /\ Len(queue) \in Nat /\ Len(wire) \in Nat /\ handed \in Nat
      /\ Unpopped \in {0, 1} /\ Unpopped' = Unpopped
  BY DEF PushMsg, Pushed, AfterPush, TypeOK, Unpopped
<1>4. Accounted'
  BY <1>2, <1>3 DEF PushMsg, Pushed, AfterPush, InOrder, Accounted
<1>5. WireInOrder'
  BY DEF PushMsg, Pushed, AfterPush, InOrder, WireInOrder
<1>6. QueueInOrder'
  <2>1. handed + 1 = (Len(wire) - Unpopped) + (Len(queue) + 1)
    BY <1>3 DEF InOrder, Accounted
  <2>2. wire' = wire
    BY DEF PushMsg, Pushed, AfterPush
  <2>3. \A i \in 1..Len(queue) : queue[i] = (Len(wire) - Unpopped) + i
    BY DEF InOrder, QueueInOrder
  <2>4. \A i \in 1..Len(queue') : queue'[i] = (Len(wire) - Unpopped) + i
    <3> SUFFICES ASSUME NEW i \in 1..Len(queue')
                 PROVE  queue'[i] = (Len(wire) - Unpopped) + i
      OBVIOUS
    <3>1. CASE i <= Len(queue)
      BY <1>2, <1>3, <2>3, <3>1
    <3>2. CASE i = Len(queue) + 1
      BY <1>2, <1>3, <2>1, <3>2
    <3> QED
      BY <1>2, <1>3, <3>1, <3>2
  <2> QED
    BY <1>3, <2>2, <2>4 DEF QueueInOrder
<1>7. FrontIsWritten' /\ RoomToPush'
  BY <1>2, <1>3 DEF PushMsg, Pushed, AfterPush, FrontIsWritten, RoomToPush
<1> QED
  BY <1>1, <1>4, <1>5, <1>6, <1>7 DEF IInv, InOrder

\* The message the operating system takes is the next one in order.
LEMMA OsWriteIInv == IInv /\ OsWrite /\ apart' \in BOOLEAN => IInv'
<1> SUFFICES ASSUME TypeOK, InOrder, FrontIsWritten, RoomToPush, OsWrite,
                    apart' \in BOOLEAN
             PROVE  IInv'
  BY DEF IInv
<1>1. /\ Len(queue) \in Nat \ {0} /\ Len(wire) \in Nat /\ handed \in Nat
      /\ Head(queue) = queue[1] /\ Head(queue) \in 1..MaxMsgs
  BY DEF OsWrite, TypeOK, FrontIsWritten
<1>2. Unpopped = 0 /\ Unpopped' = 1
  BY DEF OsWrite, Unpopped
<1>3. Head(queue) = Len(wire) + 1
  BY <1>1, <1>2 DEF InOrder, QueueInOrder
<1>4. /\ Len(wire') = Len(wire) + 1
      /\ \A i \in 1..Len(wire') :
            wire'[i] = IF i <= Len(wire) THEN wire[i] ELSE Len(wire) + 1
  <2>1. wire \in Seq(1..MaxMsgs) /\ wire' = Append(wire, Head(queue))
    BY DEF OsWrite, TypeOK
  <2>2. Len(wire') = Len(wire) + 1
    BY <1>1, <2>1, AppendAt
  <2> QED
    BY <1>1, <1>3, <2>1, <2>2, AppendAt
<1>5. TypeOK'
  BY <1>1 DEF OsWrite, TypeOK
<1>6. Accounted'
  <2>1. queue' = queue /\ handed' = handed
    BY DEF OsWrite
  <2>2. Len(wire) + Len(queue) = handed
    BY <1>1, <1>2 DEF InOrder, Accounted
  <2> QED
    BY <1>1, <1>2, <1>4, <2>1, <2>2 DEF Accounted
<1>7. WireInOrder'
  BY <1>1, <1>4 DEF InOrder, WireInOrder
<1>8. QueueInOrder'
  BY <1>1, <1>2, <1>4 DEF OsWrite, InOrder, QueueInOrder
<1>9. FrontIsWritten' /\ RoomToPush'
  BY DEF OsWrite, FrontIsWritten, RoomToPush
<1> QED
  BY <1>5, <1>6, <1>7, <1>8, <1>9 DEF IInv, InOrder

\* The completion handler pops the message that has been written.
LEMMA WriteOkIInv == IInv /\ WriteOk /\ apart' \in BOOLEAN => IInv'
<1> SUFFICES ASSUME TypeOK, InOrder, FrontIsWritten, RoomToPush, WriteOk,
                    apart' \in BOOLEAN
             PROVE  IInv'
  BY DEF IInv
<1>1. queue # << >>
  BY DEF WriteOk, Popped, FrontIsWritten
<1>2. /\ queue' \in Seq(1..MaxMsgs)
      /\ Len(queue') = Len(queue) - 1
      /\ \A i \in 1..Len(queue') : queue'[i] = queue[i + 1]
      /\ Len(queue) \in Nat /\ Len(wire) \in Nat /\ handed \in Nat
  BY <1>1 DEF WriteOk, Popped, TypeOK
<1>3. Unpopped = 1 /\ Unpopped' = 0 /\ wire' = wire /\ handed' = handed
  BY DEF WriteOk, Popped, Unpopped
<1>4. TypeOK'
  BY <1>2 DEF WriteOk, Popped, TypeOK
<1>5. Accounted'
  BY <1>2, <1>3 DEF InOrder, Accounted
<1>6. WireInOrder'
  BY <1>3 DEF InOrder, WireInOrder
<1>7. QueueInOrder'
  <2> SUFFICES ASSUME NEW i \in 1..Len(queue')
               PROVE  queue'[i] = (Len(wire') - Unpopped') + i
    BY DEF QueueInOrder
  <2>1. queue[i + 1] = (Len(wire) - Unpopped) + (i + 1)
    BY <1>2 DEF InOrder, QueueInOrder
  <2> QED
    BY <1>2, <1>3, <2>1
<1>8. FrontIsWritten' /\ RoomToPush'
  BY DEF WriteOk, Popped, FrontIsWritten, RoomToPush
<1> QED
  BY <1>4, <1>5, <1>6, <1>7, <1>8 DEF IInv, InOrder

\* Every step of either thread preserves the inductive invariant.
LEMMA NextIInv == IInv /\ [Next]_vars => IInv'
<1> SUFFICES ASSUME IInv, [Next]_vars PROVE IInv'
  OBVIOUS
<1> USE DEF IInv, TypeOK, InOrder, Accounted, WireInOrder, QueueInOrder,
            FrontIsWritten, RoomToPush, Unpopped, Faults
<1>0. apart' \in BOOLEAN
  BY DEF Next, vars
<1>1. CASE CheckEmpty
  BY <1>0, <1>1 DEF CheckEmpty, SeesEmpty
<1>2. CASE PushMsg
  BY <1>0, <1>2, PushIInv
<1>3. CASE StartFromGui
  BY <1>0, <1>3 DEF StartFromGui, StartSend
<1>4. CASE OsWrite
  BY <1>0, <1>4, OsWriteIInv
<1>5. CASE WriteOk
  BY <1>0, <1>5, WriteOkIInv
<1>6. CASE Continue
  BY <1>0, <1>6 DEF Continue, GoesOn, StartSend
<1>7. CASE WriteFail
  BY <1>0, <1>7 DEF WriteFail, Close
<1>8. CASE CloseConnection
  BY <1>0, <1>8 DEF CloseConnection, Close
<1>9. CASE UNCHANGED vars
  BY <1>9 DEF vars, state
<1> QED
  BY <1>1, <1>2, <1>3, <1>4, <1>5, <1>6, <1>7, <1>8, <1>9 DEF Next

\* The inductive invariant holds in every behaviour.
THEOREM Invariance == Spec => []IInv
<1>1. Init => IInv
  BY InitIInv
<1>2. IInv /\ [Next]_vars => IInv'
  BY NextIInv
<1> QED
  BY <1>1, <1>2, PTL DEF Spec

\* The state of add_msg_to_send and start_send_msgs stays in its types.
THEOREM TypeCorrect == Spec => []TypeOK
<1>1. IInv => TypeOK
  BY DEF IInv
<1> QED
  BY <1>1, Invariance, PTL

\* No interleaving of the two threads loses, repeats or reorders a message
\* before an undefined call is made.
THEOREM OrderKept == Spec => []InOrder
<1>1. IInv => InOrder
  BY DEF IInv
<1> QED
  BY <1>1, Invariance, PTL

-----------------------------------------------------------------------------
(* A stranded queue never recovers                                         *)

LEMMA StrandedStep == [Next]_vars => (Stranded => (Stranded' \/ ~open'))
<1> SUFFICES ASSUME [Next]_vars, Stranded PROVE Stranded' \/ ~open'
  OBVIOUS
<1> USE DEF Stranded
<1>1. CASE CheckEmpty
  BY <1>1 DEF CheckEmpty, SeesEmpty
<1>2. CASE PushMsg
  BY <1>2, queue' # << >> DEF PushMsg, Pushed, AfterPush
<1>3. CASE StartFromGui \/ OsWrite \/ WriteOk \/ Continue \/ WriteFail
  BY <1>3 DEF StartFromGui, OsWrite, WriteOk, Popped, Continue, GoesOn, WriteFail, Close
<1>4. CASE CloseConnection
  BY <1>4 DEF CloseConnection, Close
<1>5. CASE UNCHANGED vars
  BY <1>5 DEF vars, state
<1> QED
  BY <1>1, <1>2, <1>3, <1>4, <1>5 DEF Next

\* Messages stranded in msg_to_server stay there until the connection closes.
THEOREM NeverRecovers == Spec => StrandedStays
<1>1. [Next]_vars => [Stranded => (Stranded' \/ ~open')]_vars
  BY StrandedStep
<1> QED
  BY <1>1, PTL DEF Spec, StrandedStays

-----------------------------------------------------------------------------
(* Every schedule implements the ordered link, delivery apart              *)

LEMMA LinkStep == IInv /\ [Next]_vars => [Link!Next]_(Link!vars)
<1> SUFFICES ASSUME IInv, [Next]_vars PROVE [Link!Next]_(Link!vars)
  OBVIOUS
<1> USE DEF Link!Next, Link!vars
<1>1. CASE PushMsg
  BY <1>1 DEF PushMsg, Pushed, AfterPush, IInv, TypeOK, RoomToPush, Link!Send
<1>2. CASE OsWrite
  <2>1. Len(wire) < handed
    BY <1>2 DEF OsWrite, IInv, TypeOK, InOrder, Accounted, FrontIsWritten, Unpopped
  <2>2. Head(queue) = Len(wire) + 1
    <3>1. queue # << >> /\ Unpopped = 0
      BY <1>2 DEF OsWrite, IInv, FrontIsWritten, Unpopped
    <3>2. Len(queue) \in Nat \ {0} /\ Head(queue) = queue[1] /\ Len(wire) \in Nat
      BY <3>1 DEF IInv, TypeOK
    <3> QED
      BY <3>1, <3>2 DEF IInv, InOrder, QueueInOrder
  <2> QED
    BY <1>2, <2>1, <2>2 DEF OsWrite, Link!Arrive
<1>3. CASE WriteFail \/ CloseConnection
  BY <1>3 DEF WriteFail, CloseConnection, Close, IInv, TypeOK, Link!Drop
<1>4. CASE CheckEmpty \/ StartFromGui \/ WriteOk \/ Continue
  BY <1>4 DEF CheckEmpty, SeesEmpty, StartFromGui, WriteOk, Popped, Continue, GoesOn
<1>5. CASE UNCHANGED vars
  BY <1>5 DEF vars, state
<1> QED
  BY <1>1, <1>2, <1>3, <1>4, <1>5 DEF Next

\* The queue, its two threads and the socket implement the ordered link that
\* never repeats or reorders a message, whatever the interleaving.
THEOREM LinkImplemented == Spec => ImplementsLink
<1>1. Init => Link!Init
  BY DEF Init, Link!Init
<1>2. IInv /\ [Next]_vars => [Link!Next]_(Link!vars)
  BY LinkStep
<1> QED
  BY <1>1, <1>2, Invariance, PTL DEF Spec, ImplementsLink, Link!Spec

-----------------------------------------------------------------------------
(* What a lock around the two functions would give                         *)

\* As long as the two threads have not overlapped, a caller on its way to
\* start a write finds none outstanding, the handler that has popped finds
\* none either, and nothing is left waiting without a write.
Serial ==
    /\ gui # "idle" => io = "idle"
    /\ gui = "sawEmpty" => queue = << >>
    /\ gui = "sawBusy" => queue # << >>
    /\ gui = "mustStart" => queue # << >> /\ writing = "none"
    /\ io = "popped" => writing = "none"
    /\ fault = "none"
    /\ ~Stranded

ApartInv == apart => Serial

LEMMA SerialStep == IInv /\ Serial /\ [Next]_vars /\ apart' => Serial'
<1> SUFFICES ASSUME IInv, Serial, [Next]_vars, apart' PROVE Serial'
  OBVIOUS
<1> USE DEF Serial, Stranded
<1>0. CASE UNCHANGED vars
  BY <1>0 DEF vars, state
<1> SUFFICES ASSUME Next PROVE Serial'
  BY <1>0
<1>a. gui' = "idle" \/ io' = "idle"
  BY DEF Next
<1>1. CASE CheckEmpty
  BY <1>1, <1>a DEF CheckEmpty, SeesEmpty
<1>2. CASE PushMsg
  <2>1. queue' # << >>
    <3>1. queue' = Append(queue, handed + 1)
      BY <1>2 DEF PushMsg, Pushed
    <3> QED
      BY <3>1
  <2>2. gui = "sawEmpty" => writing = "none"
    BY DEF IInv, FrontIsWritten
  <2> QED
    BY <1>2, <2>1, <2>2 DEF PushMsg, AfterPush
<1>3. CASE StartFromGui
  BY <1>3 DEF StartFromGui, StartSend
<1>4. CASE OsWrite
  BY <1>4 DEF OsWrite
<1>5. CASE WriteOk
  BY <1>5, <1>a DEF WriteOk
<1>6. CASE Continue
  BY <1>6 DEF Continue, StartSend, GoesOn
<1>7. CASE WriteFail \/ CloseConnection
  BY <1>7 DEF WriteFail, CloseConnection, Close
<1> QED
  BY <1>1, <1>2, <1>3, <1>4, <1>5, <1>6, <1>7 DEF Next

\* Threads that have not overlapped by the next step have not before it.
LEMMA ApartBefore == [Next]_vars /\ apart' => apart
  BY DEF Next, vars

LEMMA ApartInvariance == Spec => []ApartInv
<1>1. Init => ApartInv
  BY DEF Init, ApartInv, Serial, Stranded
<1>2. IInv /\ ApartInv /\ [Next]_vars => ApartInv'
  BY SerialStep, ApartBefore DEF ApartInv
<1> QED
  BY <1>1, <1>2, Invariance, PTL DEF Spec

\* As long as the two threads have not overlapped, start_send_msgs has not
\* been called with a write outstanding nor on an empty queue.
THEOREM ApartIsDefined == Spec => []NoUndefinedCall
<1>1. ApartInv => NoUndefinedCall
  BY DEF ApartInv, Serial, NoUndefinedCall
<1> QED
  BY <1>1, ApartInvariance, PTL

\* As long as the two threads have not overlapped, no message has been left
\* behind in the queue.
THEOREM ApartStrandsNothing == Spec => []NothingStranded
<1>1. ApartInv => NothingStranded
  BY DEF ApartInv, Serial, NothingStranded
<1> QED
  BY <1>1, ApartInvariance, PTL
=============================================================================
