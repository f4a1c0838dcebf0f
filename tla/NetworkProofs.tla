--------------------------- MODULE NetworkProofs ---------------------------
(***************************************************************************)
(* Theorems about Network, for a ring and a queue of every size, every     *)
(* number of lines and whatever the client sends: the ring keeps its       *)
(* characters in order although each side reads the other's position       *)
(* without a lock, the tuples come out as they were sent, and an input     *)
(* connection is there as long as the engine needs it.                     *)
(***************************************************************************)
EXTENDS Network, FiniteSetTheorems, SequenceTheorems, TLAPS

-----------------------------------------------------------------------------
(***************************************************************************)
(* The input connection.  LinesRead is the number of the line read last,   *)
(* -1 before the schema; Handled that of the last line the thread is done  *)
(* with; Level that of the last line whose turn at the engine is over,     *)
(* where only the lines with a tuple or a heartbeat get there.             *)
(***************************************************************************)
LinesRead == MaxLines - Len(inSocket)

Handled ==
    IF inThread = "commit" THEN LinesRead - 1
    ELSE IF LinesRead < 0 THEN 0 ELSE LinesRead

Level ==
    IF lastTuple # NoLine THEN lastTuple.n
    ELSE IF queue # <<>> THEN queue[1].n - 1
    ELSE Handled

InputTypes ==
    /\ inSocket \in Seq(Line \cup {Schema, BadSchema})
    /\ sent \in Seq(Line) /\ Len(sent) = MaxLines
    /\ inThread \in {"unconnected", "schema", "slot", "line", "commit", "closing",
                     "waitEnd", "gone"}
    /\ lineBuffer \in Line \cup {NoLine, Failed}
    /\ bInit \in BOOLEAN /\ bEndIn \in BOOLEAN
    /\ queue \in Seq(Line)
    /\ lastTuple \in Line \cup {NoLine}

(* What is left in the socket is the end of what was sent. *)
SocketHoldsRest ==
    /\ \A n \in 1 .. MaxLines : sent[n].n = n
    /\ inThread \in {"unconnected", "schema"} => Len(inSocket) = MaxLines + 1
    /\ inThread \notin {"unconnected", "schema", "gone"} => Len(inSocket) <= MaxLines
    /\ \A i \in 1 .. Len(inSocket) : LinesRead + i > 0 => inSocket[i] = sent[LinesRead + i]

(* The thread goes on only while the lines are good. *)
LinesGood ==
    /\ inThread \in {"slot", "line", "commit", "closing", "waitEnd"} => GoodUpTo(LinesRead)
    /\ inThread = "commit" => /\ LinesRead > 0
                              /\ lineBuffer = sent[LinesRead]
                              /\ lineBuffer.kind \in {"tuple", "heartbeat"}

(* The queue holds lines that were sent, in their order, and skips none    *)
(* that is to be answered.                                                 *)
QueueInOrder ==
    /\ \A i \in 1 .. Len(queue) :
          /\ queue[i].n <= Handled
          /\ queue[i] = sent[queue[i].n]
          /\ queue[i].kind = "tuple" => queue[i].n \in Answered
    /\ \A i \in 1 .. Len(queue) - 1 :
          /\ queue[i].n < queue[i + 1].n
          /\ \A a \in Answered : a <= queue[i].n \/ a >= queue[i + 1].n
    /\ queue # <<>> => \A a \in Answered : a <= queue[Len(queue)].n \/ a > Handled
    /\ lastTuple # NoLine => queue # <<>> /\ lastTuple = queue[1]

InputInv == InputTypes /\ SocketHoldsRest /\ LinesGood /\ QueueInOrder

-----------------------------------------------------------------------------
(***************************************************************************)
(* The ring.  Measured is the number of characters the thread found when   *)
(* it measured, Base that of the characters it has freed, Held that of     *)
(* those between read_ptr and write_ptr.  A pointer at BUF_SIZE, which     *)
(* both can have for a while, is a pointer at 0.                           *)
(***************************************************************************)
RingTypes ==
    /\ shared_buf \in [Cell -> Char \cup {NoChar}]
    /\ read_ptr \in 0 .. BUF_SIZE
    /\ write_ptr \in 0 .. BUF_SIZE
    /\ prod \in {"idle", "test", "lock", "wait", "woken", "store", "advance", "wrap"}
    /\ cons \in {"unconnected", "loop", "test", "measure", "send", "sendRest", "free",
                 "signal", "gone"}
    /\ nbytes \in Int
    /\ toWrite \in Seq(Char)
    /\ written \in Seq(Char)
    /\ delivered \in Seq(Char \cup {NoChar})
    /\ prod # "idle" => toWrite # <<>>
    /\ write_ptr = BUF_SIZE <=> prod = "wrap"

Measured == IF nbytes > 0 THEN nbytes ELSE BUF_SIZE + nbytes

Base ==
    CASE cons = "sendRest" -> Len(delivered) - (BUF_SIZE - read_ptr)
      [] cons = "free"     -> Len(delivered) - Measured
      [] OTHER             -> Len(delivered)

Held == Len(written) - (IF prod = "advance" THEN 1 ELSE 0) - Base

Span(d, from, to) == d = to - from \/ d = to - from + BUF_SIZE

Place(i) ==
    IF read_ptr + i - 1 < BUF_SIZE THEN read_ptr + i - 1 ELSE read_ptr + i - 1 - BUF_SIZE

(* What was delivered is the beginning of what was written. *)
Delivered ==
    /\ Len(delivered) <= Len(written)
    /\ \A i \in 1 .. Len(delivered) : delivered[i] = written[i]

(* One cell is free, two while the writer is about to use one. *)
PointersMeanHeld ==
    /\ Base \in Nat
    /\ Held \in 0 .. BUF_SIZE - 1
    /\ Span(Held, read_ptr, write_ptr)
    /\ prod \in {"store", "advance", "woken"} => Held <= BUF_SIZE - 2

(* What the thread has measured stays there while the writer goes on. *)
MeasuredIsHeld ==
    /\ cons = "measure" => read_ptr # write_ptr
    /\ cons \in {"send", "sendRest", "free"} =>
          /\ read_ptr + nbytes \in 0 .. BUF_SIZE
          /\ Measured <= Held
          /\ Span(Held - Measured, read_ptr + nbytes, write_ptr)
    /\ cons = "sendRest" => nbytes <= 0

CellsHoldWritten ==
    \A i \in 1 .. Len(written) - Base : shared_buf[Place(i)] = written[Base + i]

RingInv ==
    /\ RingTypes
    /\ Delivered
    /\ cons # "gone" => PointersMeanHeld /\ MeasuredIsHeld /\ CellsHoldWritten

-----------------------------------------------------------------------------
(***************************************************************************)
(* Both together: what was written and what the writer has yet to write    *)
(* are the characters of the answered lines up to Level.                   *)
(***************************************************************************)
IsCharacter(i, c) ==
    \E n \in Answered : Rank(n) = (i + 1) \div 2 /\ c = Printed(sent[n])[2 - (i % 2)]

Done == IF prod \in {"advance", "wrap"} THEN Len(written) - 1 ELSE Len(written)

LineGoesOut ==
    /\ Len(written) >= (IF prod \in {"advance", "wrap"} THEN 1 ELSE 0)
    /\ \A i \in 1 .. Len(written) : IsCharacter(i, written[i])
    /\ \A j \in 1 .. Len(toWrite) : IsCharacter(Done + j, toWrite[j])
    /\ Done + Len(toWrite) = 2 * Rank(Level)
    /\ prod = "idle" => toWrite = <<>>

-----------------------------------------------------------------------------
(***************************************************************************)
(* The steps as the two connections see them.                              *)
(***************************************************************************)
InputStep ==
    \/ ConnectInput \/ initialize \/ GetWriteSlot \/ readline \/ ReadFails \/ ReadEof
    \/ CommitTuple \/ WaitForEnd \/ getNext \/ inputEnd

PutsTuple == getNext /\ lastTuple'.kind = "tuple" /\ putNext(Printed(lastTuple'))

OutputStep ==
    \/ PutsTuple \/ TestFull \/ WaitForSpace \/ WakeUp \/ StoreChar \/ AdvanceWrite
    \/ WrapWrite \/ ConnectOutput \/ Loop \/ TestEmpty \/ Measure \/ SendFirst
    \/ SendRest \/ FreeCells \/ SignalProducer \/ outputEnd \/ BreakOutput

LEMMA StepOfInput == [Next]_vars => InputStep \/ UNCHANGED inVars
<1> SUFFICES ASSUME [Next]_vars, ~(UNCHANGED inVars) PROVE InputStep
  OBVIOUS
<1>1. Next
  BY DEF vars
<1>2. CASE InputSide
  BY <1>2 DEF InputSide, InputThread, InputStep
<1>3. CASE Engine
  BY <1>3 DEF Engine, EngineRound, EngineStops, Writing, InputStep
<1>4. CASE Commands
  BY <1>4 DEF Commands, JoinEngine, EndOutputs, EndInputs, InputStep
<1>5. CASE Clients
  BY <1>5 DEF Clients, InputStep
<1>6. QED
  BY <1>1, <1>2, <1>3, <1>4, <1>5 DEF Next, OutputSide, stopExecution, Crash

LEMMA StepOfOutput == [Next]_vars => OutputStep \/ UNCHANGED outVars
<1> SUFFICES ASSUME [Next]_vars, ~(UNCHANGED outVars) PROVE OutputStep
  OBVIOUS
<1>1. Next
  BY DEF vars
<1>2. CASE OutputSide
  BY <1>2 DEF OutputSide, Consumer, OutputStep
<1>3. CASE Engine
  BY <1>3 DEF Engine, EngineRound, EngineStops, Writing, Producer, OutputStep, PutsTuple
<1>4. CASE Commands
  BY <1>4 DEF Commands, JoinEngine, EndOutputs, EndInputs, OutputStep
<1>5. CASE Clients
  BY <1>5 DEF Clients, OutputStep
<1>6. QED
  BY <1>1, <1>2, <1>3, <1>4, <1>5 DEF Next, InputSide, stopExecution, Crash

-----------------------------------------------------------------------------
(***************************************************************************)
(* InputInv is inductive.                                                  *)
(***************************************************************************)
LEMMA LineFacts ==
    /\ \A l \in Line : l.n \in 1 .. MaxLines /\ l.kind \in Kind /\ l # NoLine
    /\ NoLine.n = 0 /\ Schema.n = 0 /\ BadSchema.n = 0
    /\ Schema # BadSchema
BY LinesAssumption DEF Line, Kind, NoLine, Schema, BadSchema

LEMMA InitInputInv == Init => InputInv
<1> SUFFICES ASSUME Init PROVE InputInv
  OBVIOUS
<1> USE LinesAssumption
<1>1. PICK kinds \in [1 .. MaxLines -> Kind] :
        sent = [n \in 1 .. MaxLines |-> [n |-> n, kind |-> kinds[n]]]
  BY DEF Init, InputInit
<1>2. PICK schema \in {Schema, BadSchema} : inSocket = <<schema>> \o sent
  BY DEF Init, InputInit
<1>3. sent \in Seq(Line) /\ Len(sent) = MaxLines
  <2>1. \A n \in 1 .. MaxLines : [n |-> n, kind |-> kinds[n]] \in Line
    BY <1>1 DEF Line
  <2>2. QED
    BY <1>1, <2>1
<1>4. \A n \in 1 .. MaxLines : sent[n].n = n
  BY <1>1
<1>5. /\ inThread = "unconnected" /\ lineBuffer = NoLine /\ bInit = FALSE /\ bEndIn = FALSE
      /\ queue = <<>> /\ lastTuple = NoLine
  BY DEF Init, InputInit
<1>6. /\ inSocket \in Seq(Line \cup {Schema, BadSchema})
      /\ Len(inSocket) = MaxLines + 1
      /\ \A i \in 1 .. MaxLines + 1 : i > 1 => inSocket[i] = sent[i - 1]
  <2>1. /\ <<schema>> \in Seq(Line \cup {Schema, BadSchema}) /\ Len(<<schema>>) = 1
        /\ sent \in Seq(Line \cup {Schema, BadSchema})
    BY <1>3, SeqMonotonic
  <2>2. QED
    BY <1>2, <1>3, <2>1, ConcatProperties
<1>7. InputTypes
  <2>1. bInit \in BOOLEAN /\ bEndIn \in BOOLEAN
    BY <1>5
  <2>2. queue \in Seq(Line)
    BY <1>5
  <2>3. QED
    BY <1>3, <1>5, <1>6, <2>1, <2>2 DEF InputTypes
<1>8. SocketHoldsRest
  BY <1>4, <1>5, <1>6 DEF SocketHoldsRest, LinesRead
<1>9. LinesGood /\ QueueInOrder
  BY <1>5 DEF LinesGood, QueueInOrder
<1>10. QED
  BY <1>7, <1>8, <1>9 DEF InputInv

(* The lines that are to be answered stay the same. *)
LEMMA AnsweredFixed ==
    ASSUME sent' = sent
    PROVE  /\ Answered' = Answered
           /\ \A n : GoodUpTo(n)' <=> GoodUpTo(n)
           /\ \A n : Rank(n)' = Rank(n)
           /\ \A i, c : IsCharacter(i, c)' <=> IsCharacter(i, c)
<1>1. \A n : GoodUpTo(n)' <=> GoodUpTo(n)
  BY DEF GoodUpTo
<1>2. Answered' = Answered
  BY <1>1 DEF Answered
<1>3. \A n : Rank(n)' = Rank(n)
  BY <1>2 DEF Rank
<1>4. \A i, c : IsCharacter(i, c)' <=> IsCharacter(i, c)
  BY <1>2, <1>3 DEF IsCharacter
<1>5. QED
  BY <1>1, <1>2, <1>3, <1>4

LEMMA SentFixed == InputStep => sent' = sent
BY DEF InputStep, ConnectInput, initialize, GetWriteSlot, readline, ReadFails,
       ReadEof, CommitTuple, WaitForEnd, getNext, inputEnd, client

(* A step that only moves the thread, where Handled stays the same. *)
LEMMA ThreadMoves ==
    ASSUME InputInv,
           UNCHANGED <<inSocket, sent, bInit, queue, lastTuple>>,
           lineBuffer' = lineBuffer \/ (lineBuffer' = Failed /\ inThread' = "gone"),
           bEndIn' \in BOOLEAN,
           \/ inThread' = inThread
           \/ inThread = "unconnected" /\ inThread' = "schema"
           \/ inThread \in {"schema", "line"} /\ inThread' = "gone"
           \/ inThread \in {"slot", "line", "closing", "waitEnd"}
              /\ inThread' \in {"line", "closing", "waitEnd", "gone"}
    PROVE  InputInv'
<1> USE DEF InputInv
<1>1. /\ \A n : GoodUpTo(n)' <=> GoodUpTo(n)
      /\ Answered' = Answered
  BY AnsweredFixed
<1>2. LinesRead' = LinesRead /\ Handled' = Handled
  BY DEF LinesRead, Handled
<1>3. InputTypes'
  BY DEF InputTypes
<1>4. SocketHoldsRest'
  BY <1>2 DEF SocketHoldsRest
<1>5. LinesGood'
  <2>1. GoodUpTo(LinesRead)' <=> GoodUpTo(LinesRead)
    BY <1>2 DEF GoodUpTo
  <2>2. QED
    BY <1>2, <2>1 DEF LinesGood
<1>6. QueueInOrder'
  BY <1>1, <1>2 DEF QueueInOrder
<1>7. QED
  BY <1>3, <1>4, <1>5, <1>6

LEMMA InitializeInputInv == InputInv /\ initialize => InputInv'
<1> SUFFICES ASSUME InputInv, initialize PROVE InputInv'
  OBVIOUS
<1> USE LinesAssumption DEF InputInv, initialize, client
<1>1. /\ \A n : GoodUpTo(n)' <=> GoodUpTo(n)
      /\ Answered' = Answered
  BY AnsweredFixed
<1>2. /\ inSocket' \in Seq(Line \cup {Schema, BadSchema})
      /\ Len(inSocket') = MaxLines
      /\ \A i \in 1 .. MaxLines : inSocket'[i] = inSocket[i + 1]
  <2>1. inSocket \in Seq(Line \cup {Schema, BadSchema}) /\ Len(inSocket) = MaxLines + 1
    BY DEF InputTypes, SocketHoldsRest
  <2>2. inSocket # <<>>
    BY <2>1
  <2>3. QED
    BY <2>1, <2>2, HeadTailProperties
<1>3. inThread' \in {"slot", "gone"} /\ bInit' \in BOOLEAN
  BY DEF InputTypes
<1>4. LinesRead = -1 /\ LinesRead' = 0 /\ Handled = 0 /\ Handled' = 0
  <2>1. LinesRead = -1 /\ LinesRead' = 0
    BY <1>2 DEF SocketHoldsRest, LinesRead
  <2>2. QED
    BY <2>1, <1>3 DEF Handled
<1>5. InputTypes'
  BY <1>2, <1>3 DEF InputTypes
<1>6. SocketHoldsRest'
  <2>1. ASSUME NEW i \in 1 .. MaxLines PROVE inSocket'[i] = sent[i]
    <3>1. i + 1 \in 1 .. Len(inSocket)
      BY DEF SocketHoldsRest
    <3>2. inSocket[i + 1] = sent[LinesRead + (i + 1)] /\ LinesRead + (i + 1) = i
      BY <1>4, <3>1 DEF SocketHoldsRest
    <3>3. QED
      BY <1>2, <3>2
  <2>2. QED
    BY <2>1, <1>2, <1>3, <1>4 DEF SocketHoldsRest
<1>7. LinesGood'
  <2>1. GoodUpTo(LinesRead)'
    BY <1>4 DEF GoodUpTo
  <2>2. QED
    BY <2>1, <1>3 DEF LinesGood
<1>8. QueueInOrder'
  BY <1>1, <1>4 DEF QueueInOrder
<1>9. QED
  BY <1>5, <1>6, <1>7, <1>8

(* The line that is read is the next one that was sent. *)
LEMMA NextLine ==
    ASSUME InputInv, readline
    PROVE  /\ LinesRead \in 0 .. MaxLines - 1
           /\ LinesRead' = LinesRead + 1
           /\ Head(inSocket) = sent[LinesRead + 1]
           /\ sent[LinesRead + 1] \in Line
           /\ Handled = LinesRead
           /\ inSocket' \in Seq(Line \cup {Schema, BadSchema})
           /\ Len(inSocket') = Len(inSocket) - 1
           /\ \A i \in 1 .. Len(inSocket') : inSocket'[i] = inSocket[i + 1]
<1> USE LinesAssumption DEF InputInv, readline, client
<1>1. /\ inSocket \in Seq(Line \cup {Schema, BadSchema}) /\ inSocket # <<>>
      /\ Len(inSocket) \in 1 .. MaxLines
  BY DEF InputTypes, SocketHoldsRest
<1>2. /\ inSocket' \in Seq(Line \cup {Schema, BadSchema})
      /\ Len(inSocket') = Len(inSocket) - 1
      /\ \A i \in 1 .. Len(inSocket') : inSocket'[i] = inSocket[i + 1]
  BY <1>1, HeadTailProperties
<1>3. LinesRead \in 0 .. MaxLines - 1 /\ LinesRead' = LinesRead + 1
  BY <1>1, <1>2 DEF LinesRead
<1>4. Head(inSocket) = sent[LinesRead + 1]
  <2>1. Head(inSocket) = inSocket[1]
    BY <1>1
  <2>2. QED
    BY <2>1, <1>1, <1>3 DEF SocketHoldsRest
<1>5. sent[LinesRead + 1] \in Line
  BY <1>3, ElementOfSeq DEF InputTypes
<1>6. Handled = LinesRead
  BY <1>3 DEF Handled
<1>7. QED
  BY <1>2, <1>3, <1>4, <1>5, <1>6

LEMMA ReadlineInputInv == InputInv /\ readline => InputInv'
<1> SUFFICES ASSUME InputInv, readline PROVE InputInv'
  OBVIOUS
<1> USE LinesAssumption DEF InputInv
<1> DEFINE line == sent[LinesRead + 1]
<1>0. UNCHANGED <<sent, inClosed, bInit, bEndIn, queue, lastTuple>> /\ inThread = "line"
      /\ lineBuffer' = Head(inSocket) /\ inThread' = AfterLine(Head(inSocket).kind)
  BY DEF readline
<1>1. /\ \A n : GoodUpTo(n)' <=> GoodUpTo(n)
      /\ Answered' = Answered
  BY <1>0, AnsweredFixed
<1>2. /\ LinesRead \in 0 .. MaxLines - 1
      /\ LinesRead' = LinesRead + 1
      /\ lineBuffer' = line
      /\ line \in Line
      /\ Handled = LinesRead
      /\ inThread' = AfterLine(line.kind)
  BY <1>0, NextLine
<1>3. /\ inSocket' \in Seq(Line \cup {Schema, BadSchema})
      /\ Len(inSocket') = Len(inSocket) - 1
      /\ \A i \in 1 .. Len(inSocket') : inSocket'[i] = inSocket[i + 1]
  BY NextLine
<1>4. line.kind \in {"tuple", "heartbeat", "empty", "malformed"} /\ line.n \in 1 .. MaxLines
  BY <1>2, LineFacts DEF Kind
<1> HIDE DEF line
<1>5. /\ line.kind = "empty" => inThread' = "slot"
      /\ line.kind \in {"tuple", "heartbeat"} => inThread' = "commit"
      /\ line.kind = "malformed" => inThread' = "gone"
  BY <1>2, <1>4 DEF AfterLine
<1>6. inThread' \in {"slot", "commit", "gone"}
  BY <1>4, <1>5
<1>7. InputTypes'
  <2>1. lineBuffer' \in Line \cup {NoLine}
    BY <1>2
  <2>2. QED
    BY <1>0, <1>3, <1>6, <2>1 DEF InputTypes
<1>8. SocketHoldsRest'
  <2>1. \A i \in 1 .. Len(inSocket') : LinesRead' + i > 0 => inSocket'[i] = sent[LinesRead' + i]
    <3> SUFFICES ASSUME NEW i \in 1 .. Len(inSocket')
                 PROVE  inSocket'[i] = sent[LinesRead' + i]
      OBVIOUS
    <3>1. i + 1 \in 1 .. Len(inSocket)
      BY <1>3 DEF InputTypes
    <3>2. \A k \in 1 .. Len(inSocket) : LinesRead + k > 0 => inSocket[k] = sent[LinesRead + k]
      BY DEF SocketHoldsRest
    <3>3. LinesRead + (i + 1) > 0 /\ LinesRead + (i + 1) = LinesRead' + i
      BY <1>2, <3>1
    <3>4. inSocket[i + 1] = sent[LinesRead + (i + 1)]
      BY <3>1, <3>2, <3>3
    <3>5. QED
      BY <1>3, <3>3, <3>4
  <2>2. Len(inSocket') <= MaxLines
    BY <1>0, <1>3 DEF SocketHoldsRest, InputTypes
  <2>3. QED
    BY <1>0, <1>6, <2>1, <2>2 DEF SocketHoldsRest
<1>9. LinesGood'
  <2>1. GoodUpTo(LinesRead)
    BY <1>0 DEF LinesGood
  <2>2. CASE inThread' = "gone"
    BY <2>2 DEF LinesGood
  <2>3. CASE inThread' # "gone"
    <3>1. line.kind # "malformed"
      BY <1>5, <2>3
    <3>2. GoodUpTo(LinesRead')
      BY <1>2, <2>1, <3>1 DEF GoodUpTo, line
    <3>3. GoodUpTo(LinesRead)'
      BY <1>0, <3>2 DEF GoodUpTo
    <3>4. inThread' = "commit" => line.kind \in {"tuple", "heartbeat"}
      BY <1>4, <1>5
    <3>5. lineBuffer' = sent'[LinesRead'] /\ LinesRead' > 0
      BY <1>0, <1>2 DEF line
    <3>6. QED
      BY <1>2, <3>3, <3>4, <3>5 DEF LinesGood
  <2>4. QED
    BY <2>2, <2>3
<1>10. QueueInOrder'
  <2>1. CASE line.kind \in {"tuple", "heartbeat"}
    <3>1. Handled' = Handled
      BY <1>2, <1>5, <2>1 DEF Handled
    <3>2. QED
      BY <1>0, <1>1, <3>1 DEF QueueInOrder
  <2>2. CASE line.kind \notin {"tuple", "heartbeat"}
    <3>1. Handled' = Handled + 1
      BY <1>2, <1>4, <1>5, <2>2 DEF Handled
    <3>2. LinesRead + 1 \notin Answered
      BY <2>2 DEF Answered, line
    <3>3. \A a \in Answered : a > Handled => a > Handled'
      BY <1>2, <3>1, <3>2 DEF Answered
    <3>4. \A i \in 1 .. Len(queue) : queue[i].n <= Handled => queue[i].n <= Handled'
      BY <1>2, <3>1, LineFacts, ElementOfSeq DEF InputTypes
    <3>5. QED
      BY <1>0, <1>1, <3>3, <3>4 DEF QueueInOrder
  <2>3. QED
    BY <2>1, <2>2
<1>11. QED
  BY <1>7, <1>8, <1>9, <1>10

LEMMA CommitInputInv == InputInv /\ CommitTuple => InputInv'
<1> SUFFICES ASSUME InputInv, CommitTuple PROVE InputInv'
  OBVIOUS
<1> USE LinesAssumption DEF InputInv
<1>0. /\ inThread = "commit" /\ inThread' = "slot"
      /\ queue' = Append(queue, lineBuffer)
      /\ UNCHANGED <<inSocket, sent, lineBuffer, bInit, bEndIn, lastTuple>>
  BY DEF CommitTuple, client
<1>1. /\ \A n : GoodUpTo(n)' <=> GoodUpTo(n)
      /\ Answered' = Answered
  BY <1>0, AnsweredFixed
<1>2. /\ LinesRead \in 1 .. MaxLines
      /\ lineBuffer = sent[LinesRead]
      /\ lineBuffer \in Line
      /\ lineBuffer.n = LinesRead
      /\ GoodUpTo(LinesRead)
  <2>1. LinesRead > 0 /\ lineBuffer = sent[LinesRead] /\ GoodUpTo(LinesRead)
    BY <1>0 DEF LinesGood
  <2>2. LinesRead \in 1 .. MaxLines
    BY <2>1 DEF LinesRead, InputTypes
  <2>3. QED
    BY <2>1, <2>2, ElementOfSeq DEF InputTypes, SocketHoldsRest
<1>3. LinesRead' = LinesRead /\ Handled = LinesRead - 1 /\ Handled' = LinesRead
  BY <1>0, <1>2 DEF LinesRead, Handled
<1>4. /\ queue' \in Seq(Line) /\ queue' # <<>>
      /\ Len(queue') = Len(queue) + 1
      /\ \A i \in 1 .. Len(queue) : queue'[i] = queue[i]
      /\ queue'[Len(queue) + 1] = lineBuffer
  BY <1>0, <1>2, AppendProperties DEF InputTypes
<1>5. InputTypes'
  BY <1>0, <1>4 DEF InputTypes
<1>6. SocketHoldsRest'
  BY <1>0, <1>3 DEF SocketHoldsRest
<1>7. LinesGood'
  <2>1. GoodUpTo(LinesRead)'
    BY <1>0, <1>2, <1>3 DEF GoodUpTo
  <2>2. QED
    BY <1>0, <2>1 DEF LinesGood
<1>8. QueueInOrder'
  <2> DEFINE len == Len(queue)
  <2>1. len \in Nat
    BY DEF InputTypes
  <2>2. \A i \in 1 .. len : queue[i].n \in 1 .. MaxLines
    BY ElementOfSeq, LineFacts DEF InputTypes
  <2>3. \A i \in 1 .. len + 1 :
           /\ queue'[i].n <= Handled'
           /\ queue'[i] = sent[queue'[i].n]
           /\ queue'[i].kind = "tuple" => queue'[i].n \in Answered
    <3>1. lineBuffer.kind = "tuple" => lineBuffer.n \in Answered
      BY <1>2 DEF Answered
    <3>2. ASSUME NEW i \in 1 .. len
          PROVE  /\ queue'[i].n <= Handled'
                 /\ queue'[i] = sent[queue'[i].n]
                 /\ queue'[i].kind = "tuple" => queue'[i].n \in Answered
      BY <1>2, <1>3, <1>4, <2>2 DEF QueueInOrder
    <3>3. QED
      BY <1>2, <1>3, <1>4, <2>1, <3>1, <3>2
  <2>4. ASSUME NEW i \in 1 .. len
        PROVE  /\ queue'[i].n < queue'[i + 1].n
               /\ \A a \in Answered : a <= queue'[i].n \/ a >= queue'[i + 1].n
    <3>1. CASE i < len
      BY <1>4, <2>1, <3>1 DEF QueueInOrder
    <3>2. CASE i = len
      <4>1. queue'[i + 1].n = LinesRead /\ queue'[i] = queue[len]
        BY <1>2, <1>4, <3>2
      <4>2. queue # <<>> /\ queue[len].n <= Handled
        BY <3>2 DEF QueueInOrder, InputTypes
      <4>3. \A a \in Answered : a <= queue[len].n \/ a > Handled
        BY <4>2 DEF QueueInOrder
      <4>4. QED
        BY <1>2, <1>3, <4>1, <4>2, <4>3, <2>2, <3>2 DEF Answered
    <3>3. QED
      BY <2>1, <3>1, <3>2
  <2>5. \A a \in Answered : a <= queue'[len + 1].n \/ a > Handled'
    BY <1>2, <1>3, <1>4 DEF Answered
  <2>6. queue # <<>> => queue'[1] = queue[1]
    BY <1>4, <2>1, EmptySeq DEF InputTypes
  <2>7. lastTuple # NoLine => queue' # <<>> /\ lastTuple = queue'[1]
    BY <1>4, <2>6 DEF QueueInOrder
  <2>8. Len(queue') = len + 1 /\ len = Len(queue') - 1
    BY <1>4, <2>1
  <2> HIDE DEF len
  <2>9. QED
    BY <1>0, <1>1, <2>3, <2>4, <2>5, <2>7, <2>8 DEF QueueInOrder
<1>9. QED
  BY <1>5, <1>6, <1>7, <1>8

(* What getNext() leaves in the queue and returns. *)
LEMMA NextTuple ==
    ASSUME InputInv, getNext, bInit
    PROVE  /\ queue' = Remaining
           /\ Remaining \in Seq(Line)
           /\ lastTuple' = IF Remaining = <<>> THEN NoLine ELSE Remaining[1]
           /\ lastTuple' \in Line \cup {NoLine}
           /\ lastTuple = NoLine => Remaining = queue
           /\ lastTuple # NoLine => /\ queue # <<>>
                                    /\ lastTuple = queue[1]
                                    /\ Len(Remaining) = Len(queue) - 1
                                    /\ \A i \in 1 .. Len(Remaining) : Remaining[i] = queue[i + 1]
<1> USE DEF InputInv, getNext
<1>1. lastTuple = NoLine => Remaining = queue
  BY DEF Remaining
<1>2. lastTuple # NoLine => /\ queue # <<>>
                            /\ lastTuple = queue[1]
                            /\ Remaining \in Seq(Line)
                            /\ Len(Remaining) = Len(queue) - 1
                            /\ \A i \in 1 .. Len(Remaining) : Remaining[i] = queue[i + 1]
  BY HeadTailProperties DEF Remaining, QueueInOrder, InputTypes
<1>3. Remaining \in Seq(Line)
  BY <1>1, <1>2 DEF InputTypes
<1>4. queue' = Remaining /\ lastTuple' = IF Remaining = <<>> THEN NoLine ELSE Head(Remaining)
  OBVIOUS
<1>5. Remaining # <<>> => Head(Remaining) = Remaining[1] /\ Remaining[1] \in Line
  BY <1>3, ElementOfSeq, EmptySeq
<1>6. QED
  BY <1>1, <1>2, <1>3, <1>4, <1>5

LEMMA GetNextInputInv == InputInv /\ getNext => InputInv'
<1> SUFFICES ASSUME InputInv, getNext PROVE InputInv'
  OBVIOUS
<1> USE LinesAssumption DEF InputInv
<1>0. UNCHANGED <<inSocket, sent, inThread, lineBuffer, bInit, bEndIn>>
  BY DEF getNext, client
<1>1. CASE ~bInit
  BY <1>0, <1>1, ThreadMoves DEF getNext, InputTypes
<1>2. CASE bInit
  <2>1. /\ \A n : GoodUpTo(n)' <=> GoodUpTo(n)
        /\ Answered' = Answered
    BY <1>0, AnsweredFixed
  <2>2. LinesRead' = LinesRead /\ Handled' = Handled
    BY <1>0 DEF LinesRead, Handled
  <2>3. InputTypes'
    BY <1>0, <1>2, NextTuple DEF InputTypes
  <2>4. SocketHoldsRest'
    BY <1>0, <2>2 DEF SocketHoldsRest
  <2>5. LinesGood'
    <3>1. GoodUpTo(LinesRead)' <=> GoodUpTo(LinesRead)
      BY <1>0, <2>2 DEF GoodUpTo
    <3>2. QED
      BY <1>0, <2>2, <3>1 DEF LinesGood
  <2>6. QueueInOrder'
    <3>1. lastTuple' # NoLine => queue' # <<>> /\ lastTuple' = queue'[1]
      BY <1>2, NextTuple
    <3>2. CASE lastTuple = NoLine
      <4>1. queue' = queue
        BY <1>2, <3>2, NextTuple
      <4>2. QED
        BY <1>0, <2>1, <2>2, <3>1, <4>1 DEF QueueInOrder
    <3>3. CASE lastTuple # NoLine
      <4>1. /\ queue' \in Seq(Line)
            /\ Len(queue') = Len(queue) - 1
            /\ \A i \in 1 .. Len(queue') : queue'[i] = queue[i + 1]
        BY <1>2, <3>3, NextTuple
      <4>2. \A i \in 1 .. Len(queue') : i + 1 \in 1 .. Len(queue)
        BY <4>1
      <4>3. \A i \in 1 .. Len(queue') :
              /\ queue'[i].n <= Handled
              /\ queue'[i] = sent[queue'[i].n]
              /\ queue'[i].kind = "tuple" => queue'[i].n \in Answered
        BY <4>1, <4>2 DEF QueueInOrder
      <4>4. ASSUME NEW i \in 1 .. Len(queue') - 1
            PROVE  /\ queue'[i].n < queue'[i + 1].n
                   /\ \A a \in Answered : a <= queue'[i].n \/ a >= queue'[i + 1].n
        <5>1. i + 1 \in 1 .. Len(queue) - 1 /\ i \in 1 .. Len(queue') /\ i + 1 \in 1 .. Len(queue')
          BY <4>1
        <5>2. queue'[i] = queue[i + 1] /\ queue'[i + 1] = queue[(i + 1) + 1]
          BY <4>1, <5>1
        <5>3. QED
          BY <5>1, <5>2 DEF QueueInOrder
      <4>5. queue' # <<>> => queue'[Len(queue')] = queue[Len(queue)]
        BY <4>1, EmptySeq
      <4>6. queue # <<>>
        BY <1>2, <3>3, NextTuple
      <4>7. QED
        BY <1>0, <2>1, <2>2, <3>1, <4>3, <4>4, <4>5, <4>6 DEF QueueInOrder
    <3>4. QED
      BY <3>2, <3>3
  <2>7. QED
    BY <2>3, <2>4, <2>5, <2>6
<1>3. QED
  BY <1>1, <1>2

LEMMA StepInputInv == InputInv /\ [Next]_vars => InputInv'
<1> SUFFICES ASSUME InputInv, [Next]_vars PROVE InputInv'
  OBVIOUS
<1>1. CASE UNCHANGED inVars
  BY <1>1, ThreadMoves DEF inVars, client, InputInv, InputTypes
<1>2. CASE ConnectInput \/ GetWriteSlot \/ ReadFails \/ ReadEof \/ WaitForEnd
  BY <1>2, ThreadMoves
     DEF ConnectInput, GetWriteSlot, ReadFails, ReadEof, WaitForEnd, client, InputInv, InputTypes
<1>3. CASE inputEnd
  BY <1>3, ThreadMoves DEF inputEnd, client
<1>4. CASE initialize \/ readline \/ CommitTuple \/ getNext
  BY <1>4, InitializeInputInv, ReadlineInputInv, CommitInputInv, GetNextInputInv
<1>5. QED
  BY <1>1, <1>2, <1>3, <1>4, StepOfInput DEF InputStep

LEMMA InputInvariance == Spec => []InputInv
BY InitInputInv, StepInputInv, PTL DEF Spec

(***************************************************************************)
(* An input connection goes before the engine has ended it only after an   *)
(* error (in_conn.cc, run()).  The ways out are a bad schema, a line that  *)
(* cannot be taken, a read that failed and end(), and none of what they    *)
(* leave behind changes when the thread has gone.                          *)
(***************************************************************************)
THEOREM InputConnectionStays == Spec => []InputOutlivesEngine
<1>1. Init => InputOutlivesEngine
  BY DEF Init, InputInit, InputOutlivesEngine
<1>2. InputInv /\ InputOutlivesEngine /\ [Next]_vars => InputOutlivesEngine'
  <2> SUFFICES ASSUME InputInv, InputOutlivesEngine, InputStep PROVE InputOutlivesEngine'
    BY StepOfInput DEF InputOutlivesEngine, inVars
  <2> USE DEF InputOutlivesEngine
  <2>1. CASE ConnectInput \/ GetWriteSlot \/ ReadFails \/ ReadEof \/ CommitTuple
    BY <2>1 DEF ConnectInput, GetWriteSlot, ReadFails, ReadEof, CommitTuple, Failed
  <2>2. CASE initialize
    BY <2>2 DEF initialize
  <2>3. CASE readline
    <3>1. lineBuffer' = Head(inSocket) /\ inThread' = AfterLine(Head(inSocket).kind)
      BY <2>3 DEF readline
    <3>2. Head(inSocket).kind \in Kind
      BY <2>3, NextLine, LineFacts
    <3>3. CASE Head(inSocket).kind = "malformed"
      BY <3>1, <3>3
    <3>4. CASE Head(inSocket).kind # "malformed"
      <4>1. AfterLine(Head(inSocket).kind) \in {"slot", "commit"}
        BY <3>2, <3>4 DEF AfterLine, Kind
      <4>2. QED
        BY <3>1, <4>1
    <3>5. QED
      BY <3>3, <3>4
  <2>4. CASE WaitForEnd
    BY <2>4 DEF WaitForEnd, MustWait
  <2>5. CASE getNext
    BY <2>5 DEF getNext
  <2>6. CASE inputEnd
    BY <2>6 DEF inputEnd
  <2>7. QED
    BY <2>1, <2>2, <2>3, <2>4, <2>5, <2>6 DEF InputStep
<1>3. QED
  BY <1>1, <1>2, InputInvariance, PTL DEF Spec

-----------------------------------------------------------------------------
(***************************************************************************)
(* RingInv is inductive: first the steps of the writer, which make Held    *)
(* larger, then those of the connection's thread.                          *)
(***************************************************************************)
LEMMA InitRingInv == Init => RingInv
<1> SUFFICES ASSUME Init PROVE RingInv
  OBVIOUS
<1> USE BufSizeAssumption
<1>1. /\ shared_buf = [c \in Cell |-> NoChar] /\ read_ptr = 0 /\ write_ptr = 0
      /\ prod = "idle" /\ toWrite = <<>> /\ cons = "unconnected" /\ nbytes = 0
      /\ written = <<>> /\ delivered = <<>>
  BY DEF Init, OutputInit
<1>2. written \in Seq(Char) /\ toWrite \in Seq(Char) /\ delivered \in Seq(Char \cup {NoChar})
      /\ Len(written) = 0 /\ Len(delivered) = 0
  BY <1>1, EmptySeq
<1>3. RingTypes
  BY <1>1, <1>2 DEF RingTypes, Cell
<1>4. Delivered
  BY <1>2 DEF Delivered
<1>5. Base = 0 /\ Held = 0
  BY <1>1, <1>2 DEF Base, Held
<1>6. PointersMeanHeld /\ MeasuredIsHeld /\ CellsHoldWritten
  BY <1>1, <1>2, <1>5 DEF PointersMeanHeld, MeasuredIsHeld, CellsHoldWritten, Span
<1>7. QED
  BY <1>3, <1>4, <1>6 DEF RingInv

LEMMA RingSizes ==
    ASSUME RingTypes
    PROVE  Len(written) \in Nat /\ Len(delivered) \in Nat /\ Len(toWrite) \in Nat
           /\ Base \in Int /\ Held \in Int /\ Measured \in Int
<1>1. Len(written) \in Nat /\ Len(delivered) \in Nat /\ Len(toWrite) \in Nat
  BY LenProperties DEF RingTypes
<1>2. BUF_SIZE \in Int /\ read_ptr \in Int /\ nbytes \in Int
  BY BufSizeAssumption DEF RingTypes
<1>3. Measured \in Int
  BY <1>2 DEF Measured
<1>4. Base \in Int
  <2>1. CASE cons = "sendRest"
    BY <1>1, <1>2, <2>1 DEF Base
  <2>2. CASE cons = "free"
    BY <1>1, <1>3, <2>2 DEF Base
  <2>3. CASE cons \notin {"sendRest", "free"}
    BY <1>1, <2>3 DEF Base
  <2>4. QED
    BY <2>1, <2>2, <2>3
<1>5. Held \in Int
  BY <1>1, <1>4 DEF Held
<1>6. QED
  BY <1>1, <1>3, <1>4, <1>5

(* A step of the writer that leaves the ring alone; only a writer that     *)
(* found space may go on to use it.                                        *)
LEMMA WriterMoves ==
    ASSUME RingInv, ring' = ring,
           UNCHANGED <<cons, nbytes, written, delivered>>,
           prod \notin {"advance", "wrap"},
           prod' \in {"idle", "test", "lock", "wait", "woken", "store"},
           toWrite' \in Seq(Char), prod' # "idle" => toWrite' # <<>>,
           prod' \in {"store", "woken"} =>
               prod \in {"store", "woken"} \/ (prod \in {"test", "wait"} /\ ~buf_full)
    PROVE  RingInv'
<1> USE BufSizeAssumption DEF ring, RingInv
<1>1. RingTypes' /\ Delivered'
  BY DEF RingTypes, Delivered
<1>2. Base' = Base /\ Held' = Held /\ Measured' = Measured
  BY DEF Base, Held, Measured
<1>3. ASSUME cons # "gone" PROVE PointersMeanHeld' /\ MeasuredIsHeld' /\ CellsHoldWritten'
  <2>1. PointersMeanHeld'
    <3>1. CASE prod' \in {"store", "woken"}
      <4>1. Held <= BUF_SIZE - 2
        BY <1>3, <3>1, RingSizes DEF PointersMeanHeld, Span, buf_full, RingTypes
      <4>2. QED
        BY <1>2, <1>3, <3>1, <4>1 DEF PointersMeanHeld, Span
    <3>2. CASE prod' \notin {"store", "woken"}
      BY <1>2, <1>3, <3>2 DEF PointersMeanHeld, Span
    <3>3. QED
      BY <3>1, <3>2
  <2>2. MeasuredIsHeld'
    BY <1>2, <1>3 DEF MeasuredIsHeld, Span
  <2>3. CellsHoldWritten'
    BY <1>2, <1>3 DEF CellsHoldWritten, Place
  <2>4. QED
    BY <2>1, <2>2, <2>3
<1>4. QED
  BY <1>1, <1>3

LEMMA RingStays ==
    ASSUME RingInv, UNCHANGED <<ring, prod, toWrite, cons, nbytes, written, delivered>>
    PROVE  RingInv'
<1> USE DEF RingInv, ring
<1>1. Base' = Base /\ Held' = Held /\ Measured' = Measured
  BY DEF Base, Held, Measured
<1>2. RingTypes' /\ Delivered'
  BY DEF RingTypes, Delivered
<1>3. cons # "gone" => PointersMeanHeld' /\ MeasuredIsHeld'
  BY <1>1 DEF PointersMeanHeld, MeasuredIsHeld, Span
<1>4. cons # "gone" => CellsHoldWritten'
  BY <1>1 DEF CellsHoldWritten, Place
<1>5. QED
  BY <1>2, <1>3, <1>4

LEMMA StoreRingInv == RingInv /\ StoreChar => RingInv'
<1> SUFFICES ASSUME RingInv, StoreChar PROVE RingInv'
  OBVIOUS
<1> USE BufSizeAssumption DEF RingInv
<1>0. /\ prod = "store" /\ prod' = "advance"
      /\ shared_buf' = [shared_buf EXCEPT ![write_ptr] = Head(toWrite)]
      /\ written' = Append(written, Head(toWrite))
      /\ UNCHANGED <<read_ptr, write_ptr, toWrite, cons, nbytes, delivered>>
  BY DEF StoreChar
<1>1. write_ptr \in Cell /\ Head(toWrite) \in Char
  <2>1. toWrite \in Seq(Char) /\ toWrite # <<>>
    BY <1>0 DEF RingTypes
  <2>2. QED
    BY <1>0, <2>1, HeadTailProperties DEF RingTypes, Cell
<1>2. /\ written' \in Seq(Char)
      /\ Len(written') = Len(written) + 1
      /\ \A i \in 1 .. Len(written) : written'[i] = written[i]
      /\ written'[Len(written) + 1] = Head(toWrite)
  BY <1>0, <1>1, AppendProperties DEF RingTypes
<1>3. RingTypes'
  BY <1>0, <1>1, <1>2 DEF RingTypes
<1>4. Delivered'
  BY <1>0, <1>2, RingSizes DEF Delivered
<1>5. Base' = Base /\ Held' = Held /\ Measured' = Measured
  BY <1>0, <1>2, RingSizes DEF Base, Held, Measured
<1>6. ASSUME cons # "gone" PROVE PointersMeanHeld' /\ MeasuredIsHeld' /\ CellsHoldWritten'
  <2>1. PointersMeanHeld'
    BY <1>0, <1>5, <1>6 DEF PointersMeanHeld, Span
  <2>2. MeasuredIsHeld'
    BY <1>0, <1>5, <1>6 DEF MeasuredIsHeld, Span
  <2>3. CellsHoldWritten'
    <3>1. Len(written) - Base = Held /\ Held \in 0 .. BUF_SIZE - 2 /\ Base \in Nat
          /\ Span(Held, read_ptr, write_ptr)
      BY <1>0, <1>6, RingSizes DEF Held, PointersMeanHeld
    <3>2. ASSUME NEW i \in 1 .. Held PROVE shared_buf'[Place(i)] = written'[Base + i]
      <4>1. Place(i) \in Cell /\ Place(i) # write_ptr
        BY <1>1, <3>1 DEF Place, Span, Cell, RingTypes
      <4>2. Base + i \in 1 .. Len(written)
        BY <3>1, RingSizes
      <4>3. QED
        BY <1>0, <1>2, <1>6, <3>1, <4>1, <4>2 DEF CellsHoldWritten, RingTypes
    <3>3. shared_buf'[Place(Held + 1)] = written'[Base + Held + 1]
      <4>1. Place(Held + 1) = write_ptr
        BY <1>1, <3>1 DEF Place, Span, Cell, RingTypes
      <4>2. Base + Held + 1 = Len(written) + 1
        BY <3>1, RingSizes
      <4>3. QED
        BY <1>0, <1>1, <1>2, <4>1, <4>2 DEF RingTypes
    <3>4. \A i : Place(i)' = Place(i)
      BY <1>0 DEF Place
    <3>5. Len(written') - Base = Held + 1
      BY <1>2, <3>1, RingSizes
    <3>6. \A i \in 1 .. Held + 1 : shared_buf'[Place(i)] = written'[Base + i]
      BY SMTT(30), <3>1, <3>2, <3>3
    <3>7. QED
      BY <1>5, <3>4, <3>5, <3>6 DEF CellsHoldWritten
  <2>4. QED
    BY <2>1, <2>2, <2>3
<1>7. QED
  BY <1>0, <1>3, <1>4, <1>6

LEMMA NextCharTypes ==
    ASSUME RingTypes, prod # "idle", NextChar
    PROVE  /\ toWrite' \in Seq(Char)
           /\ prod' \in {"test", "idle"}
           /\ prod' # "idle" => toWrite' # <<>>
<1>1. /\ toWrite \in Seq(Char) /\ toWrite # <<>>
      /\ toWrite' = Tail(toWrite)
      /\ prod' = IF Len(toWrite) > 1 THEN "test" ELSE "idle"
  BY DEF RingTypes, NextChar
<1>2. Tail(toWrite) \in Seq(Char) /\ Len(Tail(toWrite)) = Len(toWrite) - 1
  BY <1>1, HeadTailProperties
<1>3. Len(toWrite) > 1 => Tail(toWrite) # <<>>
  <2> DEFINE rest == Tail(toWrite)
  <2>1. Len(rest) = Len(toWrite) - 1 /\ Len(toWrite) \in Nat
    BY <1>1, <1>2, LenProperties
  <2> HIDE DEF rest
  <2>2. Len(toWrite) > 1 => rest # <<>>
    BY <2>1
  <2>3. QED
    BY <2>2 DEF rest
<1>4. QED
  BY <1>1, <1>2, <1>3

LEMMA AdvanceRingInv == RingInv /\ AdvanceWrite => RingInv'
<1> SUFFICES ASSUME RingInv, AdvanceWrite PROVE RingInv'
  OBVIOUS
<1> USE BufSizeAssumption DEF RingInv
<1>0. /\ prod = "advance" /\ write_ptr' = write_ptr + 1
      /\ UNCHANGED <<shared_buf, read_ptr, cons, nbytes, written, delivered>>
  BY DEF AdvanceWrite
<1>1. write_ptr \in Cell
  BY <1>0 DEF RingTypes, Cell
<1>2. /\ toWrite' \in Seq(Char)
      /\ prod' \in {"test", "idle", "wrap"}
      /\ prod' # "idle" => toWrite' # <<>>
      /\ prod' = "wrap" <=> write_ptr + 1 = BUF_SIZE
  <2>1. CASE AtEnd
    BY <1>0, <2>1 DEF AdvanceWrite, AtEnd, RingTypes
  <2>2. CASE ~AtEnd
    <3>1. NextChar
      BY <2>2 DEF AdvanceWrite
    <3>2. QED
      BY <1>0, <2>2, <3>1, NextCharTypes DEF AtEnd
  <2>3. QED
    BY <2>1, <2>2
<1>3. RingTypes'
  BY <1>0, <1>1, <1>2 DEF RingTypes, Cell
<1>4. Delivered'
  BY <1>0 DEF Delivered
<1>5. Base' = Base /\ Held' = Held + 1 /\ Measured' = Measured
  <2>1. Base' = Base /\ Measured' = Measured
    BY <1>0 DEF Base, Measured
  <2>2. Held = Len(written) - 1 - Base /\ Held' = Len(written) - 0 - Base
    BY <1>0, <1>2, <2>1 DEF Held
  <2>3. QED
    BY <2>1, <2>2, RingSizes
<1>6. ASSUME cons # "gone" PROVE PointersMeanHeld' /\ MeasuredIsHeld' /\ CellsHoldWritten'
  <2>1. PointersMeanHeld'
    BY SMTT(30), <1>0, <1>1, <1>2, <1>5, <1>6, RingSizes DEF PointersMeanHeld, Span, Cell, RingTypes
  <2>2. MeasuredIsHeld'
    <3>1. cons = "measure" => read_ptr # write_ptr'
      BY <1>0, <1>1, <1>6, RingSizes DEF PointersMeanHeld, MeasuredIsHeld, Span, Cell, RingTypes
    <3>2. ASSUME cons \in {"send", "sendRest", "free"}
          PROVE  /\ Measured <= Held + 1
                 /\ Span(Held + 1 - Measured, read_ptr + nbytes, write_ptr + 1)
      <4>1. /\ read_ptr \in Int /\ nbytes \in Int /\ write_ptr \in Int
            /\ Measured <= Held
            /\ Span(Held - Measured, read_ptr + nbytes, write_ptr)
        BY <1>1, <1>6, <3>2 DEF MeasuredIsHeld, Cell, RingTypes
      <4>2. Measured \in Int /\ Held \in Int
        BY RingSizes
      <4>3. QED
        BY <4>1, <4>2 DEF Span
    <3>3. Measured \in Int /\ Held \in Int /\ read_ptr \in Int /\ nbytes \in Int /\ write_ptr \in Int
      BY RingSizes DEF RingTypes
    <3>4. QED
      BY <1>0, <1>5, <1>6, <3>1, <3>2, <3>3 DEF MeasuredIsHeld, Span
  <2>3. CellsHoldWritten'
    BY <1>0, <1>5, <1>6 DEF CellsHoldWritten, Place
  <2>4. QED
    BY <2>1, <2>2, <2>3
<1>7. QED
  BY <1>0, <1>3, <1>4, <1>6

LEMMA WrapRingInv == RingInv /\ WrapWrite => RingInv'
<1> SUFFICES ASSUME RingInv, WrapWrite PROVE RingInv'
  OBVIOUS
<1> USE BufSizeAssumption DEF RingInv
<1>0. /\ prod = "wrap" /\ write_ptr' = 0 /\ NextChar
      /\ UNCHANGED <<shared_buf, read_ptr, cons, nbytes, written, delivered>>
  BY DEF WrapWrite
<1>1. write_ptr = BUF_SIZE
  BY <1>0 DEF RingTypes
<1>2. /\ toWrite' \in Seq(Char)
      /\ prod' \in {"test", "idle"}
      /\ prod' # "idle" => toWrite' # <<>>
  BY <1>0, NextCharTypes
<1>3. RingTypes'
  BY <1>0, <1>2 DEF RingTypes
<1>4. Delivered'
  BY <1>0 DEF Delivered
<1>5. Base' = Base /\ Held' = Held /\ Measured' = Measured
  BY <1>0, <1>2, RingSizes DEF Base, Held, Measured
<1>6. ASSUME cons # "gone" PROVE PointersMeanHeld' /\ MeasuredIsHeld' /\ CellsHoldWritten'
  <2>1. PointersMeanHeld'
    BY <1>0, <1>1, <1>2, <1>5, <1>6, RingSizes DEF PointersMeanHeld, Span, RingTypes
  <2>2. MeasuredIsHeld'
    <3>1. cons = "measure" => read_ptr # 0
      BY <1>1, <1>6, RingSizes DEF PointersMeanHeld, MeasuredIsHeld, Span, RingTypes
    <3>2. cons \in {"send", "sendRest", "free"} => Measured >= 0
      BY <1>6 DEF MeasuredIsHeld, Measured, RingTypes
    <3>3. cons \in {"send", "sendRest", "free"} => Span(Held - Measured, read_ptr + nbytes, 0)
      BY <1>1, <1>6, <3>2, RingSizes DEF PointersMeanHeld, MeasuredIsHeld, Span, RingTypes
    <3>4. QED
      BY <1>0, <1>5, <1>6, <3>1, <3>3 DEF MeasuredIsHeld, Span
  <2>3. CellsHoldWritten'
    BY <1>0, <1>5, <1>6 DEF CellsHoldWritten, Place
  <2>4. QED
    BY <2>1, <2>2, <2>3
<1>7. QED
  BY <1>0, <1>3, <1>4, <1>6

(* What putNext() prints are characters. *)
LEMMA PrintedIsText ==
    ASSUME InputInv, PutsTuple
    PROVE  /\ lastTuple' \in Line
           /\ Printed(lastTuple') \in Seq(Char)
           /\ Len(Printed(lastTuple')) = 2
           /\ Printed(lastTuple')[1] = lastTuple'.n
           /\ Printed(lastTuple')[2] = NL
<1>1. lastTuple' \in Line \cup {NoLine} /\ lastTuple'.kind = "tuple"
  BY GetNextInputInv DEF PutsTuple, InputInv, InputTypes
<1>2. lastTuple' \in Line
  BY <1>1 DEF NoLine
<1>3. lastTuple'.n \in Char /\ NL \in Char
  BY <1>2, LineFacts, CharAssumption
<1>4. <<lastTuple'.n, NL>> \in Seq(Char)
  BY <1>3
<1>5. QED
  BY <1>2, <1>4 DEF Printed

LEMMA PutRingInv == InputInv /\ RingInv /\ PutsTuple => RingInv'
<1> SUFFICES ASSUME InputInv, RingInv, PutsTuple PROVE RingInv'
  OBVIOUS
<1>1. /\ prod = "idle" /\ prod' = "test" /\ toWrite' = Printed(lastTuple')
      /\ ring' = ring /\ UNCHANGED <<cons, nbytes, written, delivered>>
  BY DEF PutsTuple, putNext, ring
<1>2. toWrite' \in Seq(Char) /\ toWrite' # <<>>
  BY <1>1, PrintedIsText
<1>3. QED
  BY <1>1, <1>2, WriterMoves

LEMMA WriterRingInv ==
    RingInv /\ (TestFull \/ WaitForSpace \/ WakeUp \/ outputEnd \/ BreakOutput) => RingInv'
<1> SUFFICES ASSUME RingInv PROVE TestFull \/ WaitForSpace \/ WakeUp \/ outputEnd \/ BreakOutput => RingInv'
  OBVIOUS
<1>1. ASSUME TestFull PROVE RingInv'
  BY <1>1, WriterMoves DEF TestFull, ring, RingInv, RingTypes
<1>2. ASSUME WaitForSpace PROVE RingInv'
  BY <1>2, WriterMoves DEF WaitForSpace, ring, RingInv, RingTypes
<1>3. ASSUME WakeUp PROVE RingInv'
  BY <1>3, WriterMoves DEF WakeUp, ring, RingInv, RingTypes
<1>4. ASSUME outputEnd \/ BreakOutput PROVE RingInv'
  <2>1. UNCHANGED <<ring, prod, toWrite, cons, nbytes, written, delivered>>
    BY <1>4 DEF outputEnd, BreakOutput
  <2>2. QED
    BY <2>1, RingStays
<1>5. QED
  BY <1>1, <1>2, <1>3, <1>4

(* A step of the connection's thread before it has measured and after it   *)
(* has freed the cells.                                                    *)
LEMMA ReaderMoves ==
    ASSUME RingInv, UNCHANGED <<ring, toWrite, nbytes, written, delivered>>,
           cons \notin {"sendRest", "free"},
           cons' \in {"loop", "test", "measure", "signal", "gone"},
           cons # "gone",
           cons' = "measure" => read_ptr # write_ptr,
           prod' = prod \/ (prod = "wait" /\ prod' = "woken" /\ ~buf_full)
    PROVE  RingInv'
<1> USE BufSizeAssumption DEF RingInv, ring
<1>1. Base' = Base /\ Held' = Held /\ Measured' = Measured
  <2>1. Base' = Len(delivered) /\ Base = Len(delivered)
    BY DEF Base
  <2>2. QED
    BY <2>1 DEF Held, Measured
<1>2. RingTypes' /\ Delivered'
  BY DEF RingTypes, Delivered
<1>3. PointersMeanHeld'
  <2>1. prod' = "woken" /\ prod = "wait" /\ ~buf_full => Held <= BUF_SIZE - 2
    BY RingSizes DEF PointersMeanHeld, Span, buf_full, RingTypes
  <2>2. QED
    BY <1>1, <2>1 DEF PointersMeanHeld, Span
<1>4. MeasuredIsHeld'
  BY DEF MeasuredIsHeld
<1>5. CellsHoldWritten'
  BY <1>1 DEF CellsHoldWritten, Place
<1>6. QED
  BY <1>2, <1>3, <1>4, <1>5

LEMMA ReaderRingInv ==
    RingInv /\ (ConnectOutput \/ Loop \/ TestEmpty \/ SignalProducer) => RingInv'
<1> SUFFICES ASSUME RingInv
             PROVE  ConnectOutput \/ Loop \/ TestEmpty \/ SignalProducer => RingInv'
  OBVIOUS
<1>1. ASSUME ConnectOutput \/ Loop PROVE RingInv'
  BY <1>1, ReaderMoves DEF ConnectOutput, Loop, ring
<1>2. ASSUME TestEmpty PROVE RingInv'
  BY <1>2, ReaderMoves DEF TestEmpty, AfterRound, buf_empty, ring
<1>3. ASSUME SignalProducer PROVE RingInv'
  BY <1>3, ReaderMoves DEF SignalProducer, ring
<1>4. QED
  BY <1>1, <1>2, <1>3

LEMMA MeasureRingInv == RingInv /\ Measure => RingInv'
<1> SUFFICES ASSUME RingInv, Measure PROVE RingInv'
  OBVIOUS
<1> USE BufSizeAssumption DEF RingInv
<1>0. /\ cons = "measure" /\ cons' = "send" /\ nbytes' = write_ptr - read_ptr
      /\ UNCHANGED <<shared_buf, read_ptr, write_ptr, prod, toWrite, written, delivered>>
  BY DEF Measure, ring
<1>1. RingTypes' /\ Delivered'
  BY <1>0 DEF RingTypes, Delivered
<1>2. Base' = Base /\ Held' = Held
  <2>1. Base' = Len(delivered) /\ Base = Len(delivered)
    BY <1>0 DEF Base
  <2>2. QED
    BY <1>0, <2>1 DEF Held
<1>3. PointersMeanHeld'
  BY <1>0, <1>2 DEF PointersMeanHeld, Span
<1>4. Measured' = Held
  <2>1. Held \in 0 .. BUF_SIZE - 1 /\ Span(Held, read_ptr, write_ptr) /\ read_ptr # write_ptr
    BY <1>0 DEF PointersMeanHeld, MeasuredIsHeld
  <2>2. QED
    BY <1>0, <2>1 DEF Measured, Span, RingTypes
<1>5. MeasuredIsHeld'
  BY <1>0, <1>2, <1>4, RingSizes DEF MeasuredIsHeld, Span, RingTypes
<1>6. CellsHoldWritten'
  BY <1>0, <1>2 DEF CellsHoldWritten, Place
<1>7. QED
  BY <1>1, <1>3, <1>5, <1>6

(* Sending some cells which hold what is to be delivered next. *)
LEMMA SendingCells ==
    ASSUME RingTypes, Delivered,
           NEW from \in Nat, NEW size \in Nat, from + size <= BUF_SIZE,
           Len(delivered) + size <= Len(written),
           \A i \in 1 .. size : shared_buf[from + i - 1] = written[Len(delivered) + i],
           delivered' = delivered \o Cells(from, size), written' = written
    PROVE  /\ delivered' \in Seq(Char \cup {NoChar})
           /\ Len(delivered') = Len(delivered) + size
           /\ Delivered'
<1> USE BufSizeAssumption
<1> DEFINE cells == Cells(from, size)
<1>1. \A i \in 1 .. size : shared_buf[from + i - 1] \in Char \cup {NoChar}
  BY DEF RingTypes, Cell
<1>2. cells \in Seq(Char \cup {NoChar}) /\ Len(cells) = size
      /\ \A i \in 1 .. size : cells[i] = shared_buf[from + i - 1]
  BY SMTT(30), <1>1 DEF Cells
<1>3. delivered \in Seq(Char \cup {NoChar}) /\ delivered' = delivered \o cells
  BY DEF RingTypes
<1> HIDE DEF cells
<1>4. /\ delivered' \in Seq(Char \cup {NoChar})
      /\ Len(delivered') = Len(delivered) + size
      /\ \A i \in 1 .. Len(delivered) + size :
            delivered'[i] = IF i <= Len(delivered) THEN delivered[i] ELSE cells[i - Len(delivered)]
  <2> DEFINE longer == delivered \o cells
  <2>1. /\ longer \in Seq(Char \cup {NoChar})
        /\ Len(longer) = Len(delivered) + Len(cells)
        /\ \A i \in 1 .. Len(delivered) + Len(cells) :
              longer[i] = IF i <= Len(delivered) THEN delivered[i] ELSE cells[i - Len(delivered)]
    BY <1>2, <1>3, ConcatProperties, Zenon
  <2>2. delivered' = longer
    BY <1>3
  <2> HIDE DEF longer
  <2>3. QED
    BY <1>2, <2>1, <2>2, Zenon
<1>5. ASSUME NEW i \in 1 .. Len(delivered) + size PROVE delivered'[i] = written[i]
  <2>1. CASE i <= Len(delivered)
    BY <1>4, <2>1, RingSizes DEF Delivered
  <2>2. CASE i > Len(delivered)
    <3>1. i - Len(delivered) \in 1 .. size /\ Len(delivered) + (i - Len(delivered)) = i
      BY <2>2, RingSizes
    <3>2. cells[i - Len(delivered)] = written[i]
      BY <1>2, <3>1
    <3>3. ~(i <= Len(delivered))
      BY <2>2, RingSizes
    <3>4. QED
      BY <1>4, <3>2, <3>3, Zenon
  <2>3. i <= Len(delivered) \/ i > Len(delivered)
    BY RingSizes
  <2>4. QED
    BY <2>1, <2>2, <2>3, Zenon
<1>6. QED
  BY <1>4, <1>5 DEF Delivered

(* What the thread sends between two places goes out, or nothing does and  *)
(* the thread leaves.                                                      *)
LEMMA SendRingInv ==
    ASSUME RingInv, cons \in {"send", "sendRest"},
           NEW from \in Nat, NEW size \in Nat, from + size <= BUF_SIZE,
           NEW next \in {"sendRest", "free"},
           Send(from, size, next),
           \A i \in 1 .. size : Place(Len(delivered) - Base + i) = from + i - 1,
           Len(delivered) - Base + size <= Measured,
           next = "sendRest" => nbytes <= 0 /\ Len(delivered) - Base + size = BUF_SIZE - read_ptr,
           next = "free" => Len(delivered) - Base + size = Measured
    PROVE  RingInv'
<1> USE BufSizeAssumption DEF RingInv
<1>0. /\ UNCHANGED <<shared_buf, read_ptr, write_ptr, prod, toWrite, nbytes, written>>
      /\ \/ cons' = "gone" /\ delivered' = delivered
         \/ cons' = next /\ delivered' = delivered \o Cells(from, size)
  BY DEF Send, ring
<1>1. CASE cons' = "gone" /\ delivered' = delivered
  BY <1>0, <1>1 DEF RingTypes, Delivered
<1>2. CASE cons' = next /\ delivered' = delivered \o Cells(from, size)
  <2> DEFINE sent0 == Len(delivered) - Base
  <2>1. /\ Base \in Nat /\ Held \in 0 .. BUF_SIZE - 1 /\ Measured <= Held
        /\ Measured \in Int /\ Len(delivered) \in Nat /\ Len(written) \in Nat
        /\ Len(written) - Base >= Held
        /\ sent0 \in Nat
    <3>1. Base \in Nat /\ Held \in 0 .. BUF_SIZE - 1 /\ Measured <= Held
      BY DEF PointersMeanHeld, MeasuredIsHeld
    <3>2. Len(written) - Base >= Held
      BY <3>1, RingSizes DEF Held
    <3>3. Base <= Len(delivered)
      BY SMTT(30), RingSizes DEF Base, RingTypes
    <3>4. QED
      BY <3>1, <3>2, <3>3, RingSizes
  <2>2. ASSUME NEW i \in 1 .. size PROVE shared_buf[from + i - 1] = written[Len(delivered) + i]
    <3>1. sent0 + i \in 1 .. Len(written) - Base
      BY <2>1
    <3>2. shared_buf[Place(sent0 + i)] = written[Base + (sent0 + i)]
      BY <3>1 DEF CellsHoldWritten
    <3>3. Base + (sent0 + i) = Len(delivered) + i
      BY <2>1
    <3>4. QED
      BY <3>2, <3>3
  <2>3. Len(delivered) + size <= Len(written)
    BY <2>1
  <2>4. /\ delivered' \in Seq(Char \cup {NoChar})
        /\ Len(delivered') = Len(delivered) + size
        /\ Delivered'
    BY <1>0, <1>2, <2>2, <2>3, SendingCells
  <2>5. RingTypes'
    BY <1>0, <1>2, <2>4 DEF RingTypes
  <2>6. Measured' = Measured
    BY <1>0 DEF Measured
  <2>7. Base' = Base
    <3>1. CASE next = "sendRest"
      <4>1. Base' = Len(delivered') - (BUF_SIZE - read_ptr)
        BY <1>0, <1>2, <3>1 DEF Base
      <4>2. QED
        BY <2>1, <2>4, <3>1, <4>1
    <3>2. CASE next = "free"
      <4>1. Base' = Len(delivered') - Measured
        BY <1>2, <2>6, <3>2 DEF Base
      <4>2. QED
        BY <2>1, <2>4, <3>2, <4>1
    <3>3. QED
      BY <3>1, <3>2
  <2>8. Held' = Held
    BY <1>0, <2>7 DEF Held
  <2>9. PointersMeanHeld' /\ MeasuredIsHeld'
    BY <1>0, <1>2, <2>6, <2>7, <2>8 DEF PointersMeanHeld, MeasuredIsHeld, Span
  <2>10. CellsHoldWritten'
    BY <1>0, <2>7 DEF CellsHoldWritten, Place
  <2>11. QED
    BY <2>4, <2>5, <2>9, <2>10
<1>3. QED
  BY <1>0, <1>1, <1>2

LEMMA SendFirstRingInv == RingInv /\ SendFirst => RingInv'
<1> SUFFICES ASSUME RingInv, SendFirst PROVE RingInv'
  OBVIOUS
<1> USE BufSizeAssumption
<1>1. /\ cons = "send" /\ Base = Len(delivered)
      /\ read_ptr \in 0 .. BUF_SIZE /\ nbytes \in Int /\ Len(delivered) \in Nat
      /\ read_ptr + nbytes \in 0 .. BUF_SIZE
  BY RingSizes DEF SendFirst, Base, RingInv, RingTypes, MeasuredIsHeld
<1>2. CASE nbytes > 0
  <2>1. Send(read_ptr, nbytes, "free") /\ Measured = nbytes
    BY <1>2 DEF SendFirst, Measured
  <2>2. \A i \in 1 .. nbytes : Place(Len(delivered) - Base + i) = read_ptr + i - 1
    BY <1>1 DEF Place
  <2>3. /\ Len(delivered) - Base + nbytes = Measured
        /\ nbytes \in Nat /\ read_ptr \in Nat /\ read_ptr + nbytes <= BUF_SIZE
    BY <1>1, <1>2, <2>1
  <2>4. QED
    BY <1>1, <2>1, <2>2, <2>3, SendRingInv
<1>3. CASE ~(nbytes > 0)
  <2> DEFINE rest == BUF_SIZE - read_ptr
  <2>1. Send(read_ptr, rest, "sendRest") /\ Measured = BUF_SIZE + nbytes
    BY <1>3 DEF SendFirst, Measured
  <2>2. rest \in Nat /\ read_ptr + rest <= BUF_SIZE /\ read_ptr \in Nat
    BY <1>1
  <2>3. \A i \in 1 .. rest : Place(Len(delivered) - Base + i) = read_ptr + i - 1
    BY <1>1 DEF Place
  <2>4. Len(delivered) - Base + rest <= Measured /\ Len(delivered) - Base + rest = BUF_SIZE - read_ptr
    BY <1>1, <2>1
  <2>5. nbytes <= 0
    BY <1>1, <1>3
  <2> HIDE DEF rest
  <2>6. QED
    BY <1>1, <2>1, <2>2, <2>3, <2>4, <2>5, SendRingInv
<1>4. QED
  BY <1>2, <1>3

LEMMA SendRestRingInv == RingInv /\ SendRest => RingInv'
<1> SUFFICES ASSUME RingInv, SendRest PROVE RingInv'
  OBVIOUS
<1> USE BufSizeAssumption
<1> DEFINE size == nbytes + read_ptr
<1>1. /\ cons = "sendRest" /\ Send(0, size, "free")
      /\ read_ptr \in 0 .. BUF_SIZE /\ nbytes \in Int /\ nbytes <= 0
      /\ size \in 0 .. BUF_SIZE /\ Len(delivered) \in Nat
  BY RingSizes DEF SendRest, RingInv, RingTypes, MeasuredIsHeld
<1>2. Len(delivered) - Base = BUF_SIZE - read_ptr
  BY <1>1 DEF Base
<1>3. Len(delivered) - Base + size = Measured
  BY <1>1, <1>2 DEF Measured
<1>4. \A i \in 1 .. size : Place(BUF_SIZE - read_ptr + i) = 0 + i - 1
  BY <1>1 DEF Place
<1>5. size \in Nat /\ 0 + size <= BUF_SIZE
  BY <1>1
<1> HIDE DEF size
<1>6. \A i \in 1 .. size : Place(Len(delivered) - Base + i) = 0 + i - 1
  BY <1>2, <1>4
<1>7. Len(delivered) - Base + size <= Measured
  BY <1>3, RingSizes DEF RingInv
<1>8. QED
  BY <1>1, <1>3, <1>5, <1>6, <1>7, SendRingInv

LEMMA FreeRingInv == RingInv /\ FreeCells => RingInv'
<1> SUFFICES ASSUME RingInv, FreeCells PROVE RingInv'
  OBVIOUS
<1> USE BufSizeAssumption DEF RingInv
<1>0. /\ cons = "free" /\ cons' \in {"gone", "signal"} /\ read_ptr' = read_ptr + nbytes
      /\ UNCHANGED <<shared_buf, write_ptr, prod, toWrite, nbytes, written, delivered>>
  BY DEF FreeCells, Freed, AfterRound
<1>1. /\ Base = Len(delivered) - Measured /\ Base' = Len(delivered)
      /\ Base \in Nat /\ Measured \in 0 .. BUF_SIZE /\ Len(delivered) \in Nat
      /\ Len(written) \in Nat /\ Held \in 0 .. BUF_SIZE - 1
      /\ read_ptr \in 0 .. BUF_SIZE /\ nbytes \in Int /\ read_ptr + nbytes \in 0 .. BUF_SIZE
      /\ Measured <= Held
      /\ Span(Held - Measured, read_ptr + nbytes, write_ptr)
  <2>1. Base = Len(delivered) - Measured /\ Base' = Len(delivered)
    BY <1>0 DEF Base
  <2>2. /\ Base \in Nat /\ Held \in 0 .. BUF_SIZE - 1 /\ Measured <= Held
        /\ read_ptr + nbytes \in 0 .. BUF_SIZE
        /\ Span(Held - Measured, read_ptr + nbytes, write_ptr)
    BY <1>0 DEF PointersMeanHeld, MeasuredIsHeld
  <2>3. Measured \in 0 .. BUF_SIZE
    BY <2>2 DEF Measured, RingTypes
  <2>4. QED
    BY <2>1, <2>2, <2>3, RingSizes DEF RingTypes
<1>2. Held' = Held - Measured
  <2>1. \E e \in {0, 1} : Held = Len(written) - e - Base /\ Held' = Len(written) - e - Base'
    BY <1>0 DEF Held
  <2>2. QED
    BY <1>1, <2>1
<1>3. RingTypes' /\ Delivered'
  BY <1>0, <1>1 DEF RingTypes, Delivered
<1>4. PointersMeanHeld'
  BY <1>0, <1>1, <1>2 DEF PointersMeanHeld, Span
<1>5. MeasuredIsHeld'
  BY <1>0 DEF MeasuredIsHeld
<1>6. CellsHoldWritten'
  <2> SUFFICES ASSUME NEW i \in 1 .. Len(written) - Len(delivered)
               PROVE  shared_buf[Place(i)'] = written[Len(delivered) + i]
    BY <1>0, <1>1 DEF CellsHoldWritten
  <2>1. Measured + i \in 1 .. Len(written) - Base
    BY <1>1
  <2>2. shared_buf[Place(Measured + i)] = written[Base + (Measured + i)]
    BY <1>0, <2>1 DEF CellsHoldWritten
  <2>3. Base + (Measured + i) = Len(delivered) + i
    BY <1>1
  <2>4. Len(written) - Base <= BUF_SIZE - 1
    <3>1. Held <= BUF_SIZE - 2 \/ prod # "advance"
      BY <1>0 DEF PointersMeanHeld
    <3>2. Len(written) - Base = IF prod = "advance" THEN Held + 1 ELSE Held
      BY <1>1 DEF Held
    <3>3. QED
      BY <1>1, <3>1, <3>2
  <2>5. Measured + i <= BUF_SIZE - 1 /\ i \in Nat
    BY <1>1, <2>1, <2>4
  <2>6. Place(i)' = Place(Measured + i)
    BY <1>0, <1>1, <2>5 DEF Place, Measured
  <2>7. QED
    BY <2>2, <2>3, <2>6
<1>7. QED
  BY <1>3, <1>4, <1>5, <1>6

LEMMA StepRingInv == InputInv /\ RingInv /\ [Next]_vars => RingInv'
<1> SUFFICES ASSUME InputInv, RingInv, [Next]_vars PROVE RingInv'
  OBVIOUS
<1>1. CASE UNCHANGED outVars
  BY <1>1, RingStays DEF outVars
<1>2. CASE PutsTuple
  BY <1>2, PutRingInv
<1>3. CASE TestFull \/ WaitForSpace \/ WakeUp \/ outputEnd \/ BreakOutput
  BY <1>3, WriterRingInv
<1>4. CASE StoreChar \/ AdvanceWrite \/ WrapWrite
  BY <1>4, StoreRingInv, AdvanceRingInv, WrapRingInv
<1>5. CASE ConnectOutput \/ Loop \/ TestEmpty \/ SignalProducer
  BY <1>5, ReaderRingInv
<1>6. CASE Measure \/ SendFirst \/ SendRest \/ FreeCells
  BY <1>6, MeasureRingInv, SendFirstRingInv, SendRestRingInv, FreeRingInv
<1>7. QED
  BY <1>1, <1>2, <1>3, <1>4, <1>5, <1>6, StepOfOutput DEF OutputStep

LEMMA RingInvariance == Spec => []RingInv
BY InitRingInv, StepRingInv, InputInvariance, PTL DEF Spec

-----------------------------------------------------------------------------
(***************************************************************************)
(* Rank: how many lines up to one are to be answered.                      *)
(***************************************************************************)
LEMMA RankIsNumber ==
    /\ IsFiniteSet(Answered) /\ Cardinality(Answered) \in Nat
    /\ \A n \in Int : /\ IsFiniteSet({m \in Answered : m <= n})
                      /\ Rank(n) \in Nat
                      /\ Rank(n) <= Cardinality(Answered)
<1> USE LinesAssumption
<1>1. IsFiniteSet(1 .. MaxLines)
  BY FS_Interval
<1>2. IsFiniteSet(Answered) /\ Cardinality(Answered) \in Nat
  BY <1>1, FS_Subset, FS_CardinalityType DEF Answered
<1>3. ASSUME NEW n \in Int
      PROVE  /\ IsFiniteSet({m \in Answered : m <= n})
             /\ Rank(n) \in Nat
             /\ Rank(n) <= Cardinality(Answered)
  <2>1. {m \in Answered : m <= n} \subseteq Answered
    OBVIOUS
  <2>2. QED
    BY <1>2, <2>1, FS_Subset, FS_CardinalityType DEF Rank
<1>4. QED
  BY <1>2, <1>3

LEMMA RankSame ==
    ASSUME NEW a \in Int, NEW b \in Int, a <= b,
           \A m \in Answered : m <= a \/ m > b
    PROVE  Rank(b) = Rank(a)
<1>1. \A m \in Answered : m \in Int
  BY DEF Answered
<1>2. {m \in Answered : m <= b} = {m \in Answered : m <= a}
  BY <1>1
<1>3. QED
  BY <1>2 DEF Rank

LEMMA RankNext ==
    ASSUME NEW a \in Int, NEW b \in Answered, a < b,
           \A m \in Answered : m <= a \/ m >= b
    PROVE  Rank(b) = Rank(a) + 1
<1>1. \A m \in Answered : m \in Int
  BY DEF Answered
<1>2. {m \in Answered : m <= b} = {m \in Answered : m <= a} \cup {b}
  BY <1>1
<1>3. b \notin {m \in Answered : m <= a}
  BY <1>1
<1>4. QED
  BY <1>2, <1>3, RankIsNumber, FS_AddElement DEF Rank

LEMMA RankGrows ==
    ASSUME NEW m \in Answered, NEW n \in Answered, m # n
    PROVE  Rank(m) # Rank(n)
<1>1. \A a \in Answered : a \in Int
  BY DEF Answered
<1>2. ASSUME NEW a \in Answered, NEW b \in Answered, a < b PROVE Rank(a) < Rank(b)
  <2>1. /\ {k \in Answered : k <= a} \subseteq {k \in Answered : k <= b}
        /\ b \in {k \in Answered : k <= b} /\ b \notin {k \in Answered : k <= a}
    BY <1>1, <1>2
  <2>2. {k \in Answered : k <= a} # {k \in Answered : k <= b}
    BY <2>1
  <2>3. IsFiniteSet({k \in Answered : k <= b}) /\ Rank(a) \in Nat /\ Rank(b) \in Nat
    BY <1>1, RankIsNumber
  <2>4. Rank(a) <= Rank(b) /\ Rank(a) # Rank(b)
    BY <2>1, <2>2, <2>3, FS_Subset DEF Rank
  <2>5. QED
    BY <2>3, <2>4
<1>3. m < n \/ n < m
  BY <1>1
<1>4. Rank(m) \in Nat /\ Rank(n) \in Nat
  BY <1>1, RankIsNumber, Zenon
<1>5. Rank(m) < Rank(n) \/ Rank(n) < Rank(m)
  BY <1>2, <1>3, Zenon
<1>6. \A x, y \in Nat : x < y \/ y < x => x # y
  OBVIOUS
<1>7. QED
  BY <1>4, <1>5, <1>6, Zenon

-----------------------------------------------------------------------------
(***************************************************************************)
(* Before the schema was read there is no tuple.                           *)
(***************************************************************************)
NoTupleYet ==
    /\ inThread \in {"unconnected", "schema"} => ~bInit
    /\ ~bInit => lastTuple = NoLine

LEMMA InitNoTupleYet == Init => NoTupleYet
BY DEF Init, InputInit, NoTupleYet

LEMMA StepNoTupleYet == InputInv /\ NoTupleYet /\ [Next]_vars => NoTupleYet'
<1> SUFFICES ASSUME InputInv, NoTupleYet, [Next]_vars PROVE NoTupleYet'
  OBVIOUS
<1> USE DEF NoTupleYet
<1>1. CASE UNCHANGED inVars
  BY <1>1 DEF inVars
<1>2. CASE ConnectInput \/ GetWriteSlot \/ ReadFails \/ ReadEof \/ WaitForEnd \/ CommitTuple \/ inputEnd
  BY <1>2 DEF ConnectInput, GetWriteSlot, ReadFails, ReadEof, WaitForEnd, CommitTuple, inputEnd
<1>3. CASE initialize
  BY <1>3 DEF initialize
<1>4. CASE readline
  <2>1. Head(inSocket).kind \in Kind
    BY <1>4, NextLine, LineFacts
  <2>2. AfterLine(Head(inSocket).kind) \in {"slot", "commit", "gone"}
    BY <2>1 DEF AfterLine, Kind
  <2>3. QED
    BY <1>4, <2>2 DEF readline
<1>5. CASE getNext
  BY <1>5 DEF getNext
<1>6. QED
  BY <1>1, <1>2, <1>3, <1>4, <1>5, StepOfInput DEF InputStep

-----------------------------------------------------------------------------
(***************************************************************************)
(* The engine's turn comes to each answered line once: Rank(Level) grows   *)
(* by one when getNext() returns a tuple, and by no other step.            *)
(***************************************************************************)
LEMMA LevelStays ==
    ASSUME UNCHANGED <<sent, queue, lastTuple, inThread, inSocket>>
    PROVE  Rank(Level)' = Rank(Level)
<1>1. Level' = Level
  BY DEF Level, Handled, LinesRead
<1>2. QED
  BY <1>1, AnsweredFixed

LEMMA RankPrimed ==
    ASSUME sent' = sent, NEW a, Rank(Level') = a PROVE Rank(Level)' = a
<1>1. Rank(Level)' = Cardinality({m \in Answered' : m <= Level'})
  BY DEF Rank
<1>2. Answered' = Answered
  BY AnsweredFixed
<1>3. QED
  BY <1>1, <1>2 DEF Rank

LEMMA TupleIsAnswered ==
    ASSUME InputInv, NEW i \in 1 .. Len(queue)
    PROVE  /\ queue[i] \in Line /\ queue[i] # NoLine
           /\ queue[i].n \in 1 .. MaxLines /\ queue[i].n <= Handled
           /\ queue[i].kind = "tuple" <=> queue[i].n \in Answered
<1>1. queue[i] \in Line /\ queue[i] # NoLine /\ queue[i].n \in 1 .. MaxLines
  BY ElementOfSeq, LineFacts DEF InputInv, InputTypes
<1>2. /\ queue[i].n <= Handled
      /\ queue[i] = sent[queue[i].n]
      /\ queue[i].kind = "tuple" => queue[i].n \in Answered
  BY DEF InputInv, QueueInOrder
<1>3. queue[i].n \in Answered => sent[queue[i].n].kind = "tuple"
  BY DEF Answered
<1>4. QED
  BY <1>1, <1>2, <1>3

LEMMA HandledIsNumber == InputInv => Handled \in Int /\ LinesRead \in Int /\ Level \in Int
<1> SUFFICES ASSUME InputInv PROVE Handled \in Int /\ LinesRead \in Int /\ Level \in Int
  OBVIOUS
<1>1. LinesRead \in Int
  BY LinesAssumption DEF LinesRead, InputInv, InputTypes
<1>2. Handled \in Int
  BY <1>1 DEF Handled
<1>3. lastTuple # NoLine => lastTuple.n \in Int
  BY LineFacts DEF InputInv, InputTypes
<1>4. queue # <<>> => queue[1].n \in Int
  BY TupleIsAnswered, EmptySeq DEF InputInv, InputTypes
<1>5. QED
  BY <1>1, <1>2, <1>3, <1>4 DEF Level

LEMMA ThreadLevel ==
    ASSUME InputInv,
           ConnectInput \/ initialize \/ GetWriteSlot \/ readline \/ ReadFails \/ ReadEof \/ CommitTuple
               \/ WaitForEnd \/ inputEnd
    PROVE  Rank(Level)' = Rank(Level)
<1> USE LinesAssumption
<1>1. CASE ConnectInput \/ GetWriteSlot \/ ReadFails \/ ReadEof \/ WaitForEnd \/ inputEnd
  <2>1. /\ UNCHANGED <<inSocket, sent, queue, lastTuple>>
        /\ inThread # "commit" <=> inThread' # "commit"
    BY <1>1 DEF ConnectInput, GetWriteSlot, ReadFails, ReadEof, WaitForEnd, inputEnd, client
  <2>2. Level' = Level
    BY <2>1 DEF Level, Handled, LinesRead
  <2>3. QED
    BY <2>1, <2>2, RankPrimed
<1>2. CASE initialize
  <2>1. /\ UNCHANGED <<sent, queue, lastTuple>> /\ inThread' \in {"slot", "gone"}
        /\ inThread = "schema" /\ inSocket' = Tail(inSocket)
    BY <1>2 DEF initialize, client
  <2>2. Handled' = 0 /\ Handled = 0
    <3>1. inSocket \in Seq(Line \cup {Schema, BadSchema}) /\ Len(inSocket) = MaxLines + 1
      BY <2>1 DEF InputInv, InputTypes, SocketHoldsRest
    <3>2. Len(inSocket') = MaxLines
      BY <2>1, <3>1
    <3>3. LinesRead = -1 /\ LinesRead' = 0
      BY <3>1, <3>2 DEF LinesRead
    <3>4. QED
      BY <2>1, <3>3 DEF Handled
  <2>3. Level' = Level
    BY <2>1, <2>2 DEF Level
  <2>4. QED
    BY <2>1, <2>3, RankPrimed
<1>3. CASE readline
  <2>1. UNCHANGED <<sent, queue, lastTuple>> /\ inThread' = AfterLine(Head(inSocket).kind)
    BY <1>3 DEF readline, client
  <2>2. /\ LinesRead \in 0 .. MaxLines - 1 /\ LinesRead' = LinesRead + 1
        /\ Head(inSocket) = sent[LinesRead + 1] /\ Handled = LinesRead
        /\ Head(inSocket).kind \in Kind
    BY <1>3, NextLine, LineFacts
  <2>3. CASE Head(inSocket).kind \in {"tuple", "heartbeat"}
    <3>1. inThread' = "commit"
      BY <2>1, <2>3 DEF AfterLine
    <3>2. Handled' = Handled
      BY <2>2, <3>1 DEF Handled
    <3>3. Level' = Level
      BY <2>1, <3>2 DEF Level
    <3>4. QED
      BY <2>1, <3>3, RankPrimed
  <2>4. CASE Head(inSocket).kind \notin {"tuple", "heartbeat"}
    <3>1. inThread' # "commit"
      BY <2>1, <2>2, <2>4 DEF AfterLine, Kind
    <3>2. Handled' = Handled + 1
      BY <2>2, <3>1 DEF Handled
    <3>3. LinesRead + 1 \notin Answered
      BY <2>2, <2>4 DEF Answered
    <3>4. \A m \in Answered : m <= Handled \/ m > Handled + 1
      BY <2>2, <3>3 DEF Answered
    <3>5. Rank(Handled + 1) = Rank(Handled)
      BY <2>2, <3>4, RankSame
    <3>6. Level' = Level \/ (Level' = Handled + 1 /\ Level = Handled)
      BY <2>1, <3>2 DEF Level
    <3>7. Rank(Level') = Rank(Level)
      BY <3>5, <3>6, Zenon
    <3>8. QED
      BY <2>1, <3>7, RankPrimed
  <2>5. QED
    BY <2>3, <2>4
<1>4. CASE CommitTuple
  <2>1. /\ UNCHANGED <<sent, inSocket, lastTuple>> /\ inThread = "commit"
        /\ queue' = Append(queue, lineBuffer)
    BY <1>4 DEF CommitTuple, client
  <2>2. /\ lineBuffer = sent[LinesRead] /\ LinesRead \in 1 .. MaxLines
        /\ lineBuffer.n = LinesRead /\ lineBuffer \in Line /\ queue \in Seq(Line)
    <3>1. lineBuffer = sent[LinesRead] /\ LinesRead > 0 /\ Len(inSocket) \in Nat
      BY <2>1 DEF InputInv, LinesGood, InputTypes
    <3>2. LinesRead \in 1 .. MaxLines
      BY <3>1 DEF LinesRead
    <3>3. QED
      BY <3>1, <3>2, ElementOfSeq DEF InputInv, InputTypes, SocketHoldsRest
  <2>3. queue' # <<>> /\ queue'[1] = IF queue = <<>> THEN lineBuffer ELSE queue[1]
    BY <2>1, <2>2, AppendProperties, EmptySeq
  <2>4. Handled = LinesRead - 1
    BY <2>1 DEF Handled
  <2>5. Level' = Level
    BY <2>1, <2>2, <2>3, <2>4 DEF Level
  <2>6. QED
    BY <2>1, <2>5, RankPrimed
<1>5. QED
  BY <1>1, <1>2, <1>3, <1>4

LEMMA EngineLevel ==
    ASSUME InputInv, NoTupleYet, getNext
    PROVE  /\ Rank(Level)' = Rank(Level) + (IF lastTuple'.kind = "tuple" THEN 1 ELSE 0)
           /\ lastTuple'.kind = "tuple" =>
                 /\ Level' = lastTuple'.n
                 /\ lastTuple'.n \in Answered
                 /\ sent[lastTuple'.n].n = lastTuple'.n
<1> USE LinesAssumption
<1>0. UNCHANGED <<sent, inSocket, inThread, bInit>> /\ Handled' = Handled
  BY DEF getNext, client, Handled, LinesRead
<1>1. Rank(Level) \in Nat /\ Level \in Int /\ Handled \in Int /\ queue \in Seq(Line)
  <2>1. Level \in Int /\ Handled \in Int
    BY HandledIsNumber
  <2>2. Rank(Level) \in Nat
    BY <2>1, RankIsNumber, Zenon
  <2>3. QED
    BY <2>1, <2>2 DEF InputInv, InputTypes
<1>2. NoLine.kind # "tuple"
  BY DEF NoLine
<1>3. CASE ~bInit
  <2>1. lastTuple' = NoLine /\ lastTuple = NoLine /\ queue' = queue
    BY <1>3 DEF getNext, NoTupleYet
  <2>2. Rank(Level)' = Rank(Level)
    BY <1>0, <2>1, LevelStays
  <2>3. QED
    BY <1>1, <1>2, <2>1, <2>2
<1>4. CASE bInit
  <2>1. /\ queue' = Remaining
        /\ lastTuple' = IF Remaining = <<>> THEN NoLine ELSE Remaining[1]
        /\ Remaining \in Seq(Line)
    BY <1>4, NextTuple
  <2>2. ASSUME Remaining = <<>> PROVE Rank(Level') = Rank(Level)
    <3>1. Level' = Handled
      BY <1>0, <2>1, <2>2 DEF Level
    <3>2. CASE lastTuple = NoLine
      <4>1. queue = <<>>
        BY <1>4, <2>2, <3>2, NextTuple
      <4>2. Level = Handled
        BY <3>2, <4>1 DEF Level
      <4>3. QED
        BY <3>1, <4>2
    <3>3. CASE lastTuple # NoLine
      <4>1. queue # <<>> /\ lastTuple = queue[1] /\ Len(queue) = 1
        <5>1. queue # <<>> /\ lastTuple = queue[1] /\ Len(Remaining) = Len(queue) - 1
          BY <1>4, <3>3, NextTuple
        <5>2. Len(Remaining) = 0
          BY <2>2
        <5>3. QED
          BY <1>1, <5>1, <5>2, LenProperties
      <4>2. Level = queue[1].n
        BY <3>3, <4>1 DEF Level
      <4>3. \A a \in Answered : a <= queue[1].n \/ a > Handled
        BY <4>1 DEF InputInv, QueueInOrder
      <4>4. queue[1].n <= Handled /\ queue[1].n \in Int
        BY <4>1, TupleIsAnswered
      <4>5. Rank(Handled) = Rank(queue[1].n)
        BY <1>1, <4>3, <4>4, RankSame
      <4>6. QED
        BY <3>1, <4>2, <4>5
    <3>4. QED
      BY <3>2, <3>3
  <2>3. ASSUME Remaining # <<>>
        PROVE  /\ lastTuple' = Remaining[1] /\ lastTuple' # NoLine
               /\ \E k \in 1 .. Len(queue) :
                     /\ Remaining[1] = queue[k]
                     /\ Level < queue[k].n
                     /\ \A m \in Answered : m <= Level \/ m >= queue[k].n
    <3>1. lastTuple' = Remaining[1]
      BY <2>1, <2>3
    <3>2. CASE lastTuple = NoLine
      <4>1. Remaining = queue
        BY <1>4, <3>2, NextTuple
      <4>2. 1 \in 1 .. Len(queue)
        BY <1>1, <2>3, <4>1, EmptySeq
      <4>3. Level = queue[1].n - 1
        BY <2>3, <3>2, <4>1 DEF Level
      <4>4. queue[1].n \in Int /\ queue[1] # NoLine
        BY <4>2, TupleIsAnswered
      <4>5. \A m \in Answered : m <= Level \/ m >= queue[1].n
        BY <4>3, <4>4 DEF Answered
      <4>6. Level < queue[1].n
        BY <4>3, <4>4
      <4>7. QED
        BY <3>1, <4>1, <4>2, <4>4, <4>5, <4>6
    <3>3. CASE lastTuple # NoLine
      <4>1. /\ queue # <<>> /\ lastTuple = queue[1]
            /\ Len(Remaining) = Len(queue) - 1
            /\ \A i \in 1 .. Len(Remaining) : Remaining[i] = queue[i + 1]
        BY <1>4, <3>3, NextTuple
      <4>2. 1 \in 1 .. Len(Remaining)
        BY <2>1, <2>3, EmptySeq
      <4>3. 1 \in 1 .. Len(queue) - 1 /\ 2 \in 1 .. Len(queue) /\ Remaining[1] = queue[1 + 1]
        BY <1>1, <4>1, <4>2, LenProperties
      <4>4. Level = queue[1].n
        BY <3>3, <4>1 DEF Level
      <4>5. /\ queue[1].n < queue[1 + 1].n
            /\ \A m \in Answered : m <= queue[1].n \/ m >= queue[1 + 1].n
        BY <4>3 DEF InputInv, QueueInOrder
      <4>6. queue[2] # NoLine /\ 1 + 1 = 2
        BY <4>3, TupleIsAnswered
      <4>7. QED
        BY <3>1, <4>3, <4>4, <4>5, <4>6, Zenon
    <3>4. QED
      BY <3>2, <3>3
  <2>4. CASE Remaining = <<>>
    <3>1. lastTuple' = NoLine
      BY <2>1, <2>4
    <3>2. Rank(Level)' = Rank(Level)
      BY <1>0, <2>2, <2>4, RankPrimed
    <3>3. QED
      BY <1>1, <1>2, <3>1, <3>2
  <2>5. CASE Remaining # <<>>
    <3>1. PICK k \in 1 .. Len(queue) :
                /\ Remaining[1] = queue[k]
                /\ Level < queue[k].n
                /\ \A m \in Answered : m <= Level \/ m >= queue[k].n
      BY <2>3, <2>5
    <3>2. /\ queue[k].n \in 1 .. MaxLines
          /\ queue[k].kind = "tuple" <=> queue[k].n \in Answered
      BY <3>1, TupleIsAnswered
    <3>3. lastTuple' = queue[k] /\ Level' = queue[k].n
      BY <2>3, <2>5, <3>1 DEF Level
    <3>4. CASE queue[k].kind = "tuple"
      <4>1. Rank(queue[k].n) = Rank(Level) + 1
        BY <1>1, <3>1, <3>2, <3>4, RankNext
      <4>2. Rank(Level)' = Rank(Level) + 1
        BY <1>0, <3>3, <4>1, RankPrimed
      <4>3. sent[queue[k].n].n = queue[k].n
        BY <3>2 DEF InputInv, SocketHoldsRest
      <4>4. QED
        BY <3>2, <3>3, <3>4, <4>2, <4>3
    <3>5. CASE queue[k].kind # "tuple"
      <4>1. \A m \in Answered : m <= Level \/ m > queue[k].n
        BY <1>1, <3>1, <3>2, <3>5 DEF Answered
      <4>2. Rank(queue[k].n) = Rank(Level)
        BY <1>1, <3>1, <3>2, <4>1, RankSame
      <4>3. Rank(Level)' = Rank(Level)
        BY <1>0, <3>3, <4>2, RankPrimed
      <4>4. QED
        BY <1>1, <3>3, <3>5, <4>3
    <3>6. QED
      BY <3>4, <3>5
  <2>6. QED
    BY <2>4, <2>5
<1>5. QED
  BY <1>3, <1>4

-----------------------------------------------------------------------------
(***************************************************************************)
(* What goes out: LineGoesOut is inductive with the other two.             *)
(***************************************************************************)
QuietInput ==
    \/ ConnectInput \/ initialize \/ GetWriteSlot \/ readline \/ ReadFails \/ ReadEof
    \/ CommitTuple \/ WaitForEnd \/ inputEnd
    \/ getNext /\ lastTuple'.kind # "tuple"

QuietOutput ==
    \/ TestFull \/ WaitForSpace \/ WakeUp \/ ConnectOutput \/ Loop \/ TestEmpty
    \/ Measure \/ SendFirst \/ SendRest \/ FreeCells \/ SignalProducer
    \/ outputEnd \/ BreakOutput

LEMMA StepKinds ==
    ASSUME [Next]_vars
    PROVE  \/ PutsTuple
           \/ UNCHANGED outVars /\ (QuietInput \/ UNCHANGED inVars)
           \/ UNCHANGED inVars /\ (QuietOutput \/ StoreChar \/ AdvanceWrite \/ WrapWrite)
<1>1. CASE UNCHANGED vars
  BY <1>1 DEF vars
<1>2. CASE InputSide
  BY <1>2 DEF InputSide, InputThread, QuietInput
<1>3. CASE OutputSide
  BY <1>3 DEF OutputSide, Consumer, QuietOutput
<1>4. CASE Engine
  <2>1. CASE EngineRound
    BY <2>1 DEF EngineRound, PutsTuple, QuietInput
  <2>2. CASE EngineStops
    BY <2>2 DEF EngineStops
  <2>3. CASE Writing
    BY <2>3 DEF Writing, Producer, QuietOutput
  <2>4. QED
    BY <1>4, <2>1, <2>2, <2>3 DEF Engine
<1>5. CASE Commands
  <2>1. CASE JoinEngine
    BY <2>1 DEF JoinEngine
  <2>2. CASE EndOutputs
    BY <2>2 DEF EndOutputs, QuietOutput
  <2>3. CASE EndInputs
    BY <2>3 DEF EndInputs, QuietInput
  <2>4. QED
    BY <1>5, <2>1, <2>2, <2>3 DEF Commands
<1>6. CASE Clients
  BY <1>6 DEF Clients, QuietInput, QuietOutput
<1>7. CASE stopExecution \/ Crash
  BY <1>7 DEF stopExecution, Crash
<1>8. QED
  BY <1>1, <1>2, <1>3, <1>4, <1>5, <1>6, <1>7 DEF Next

LEMMA InitLineGoesOut == Init => LineGoesOut
<1> SUFFICES ASSUME Init PROVE LineGoesOut
  OBVIOUS
<1>1. written = <<>> /\ toWrite = <<>> /\ prod = "idle"
  BY DEF Init, OutputInit
<1>2. Len(written) = 0 /\ Len(toWrite) = 0 /\ Done = 0
  BY <1>1 DEF Done
<1>3. InputInv /\ inThread = "unconnected" /\ queue = <<>> /\ lastTuple = NoLine
  BY InitInputInv DEF Init, InputInit
<1>4. Level = 0
  <2>1. LinesRead < 0
    BY <1>3, LinesAssumption DEF LinesRead, InputInv, SocketHoldsRest
  <2>2. QED
    BY <1>3, <2>1 DEF Level, Handled
<1>5. Rank(0) = 0
  <2>1. {m \in Answered : m <= 0} = {}
    BY DEF Answered
  <2>2. QED
    BY <2>1, FS_EmptySet DEF Rank
<1>6. QED
  BY <1>1, <1>2, <1>4, <1>5 DEF LineGoesOut

(* A step that neither writes nor gives the writer something. *)
LEMMA LineStays ==
    ASSUME LineGoesOut, UNCHANGED <<sent, written, toWrite>>,
           Rank(Level)' = Rank(Level),
           prod' \in {"advance", "wrap"} <=> prod \in {"advance", "wrap"},
           prod' = "idle" => prod = "idle"
    PROVE  LineGoesOut'
<1>1. Done' = Done
  BY DEF Done
<1>2. \A i, c : IsCharacter(i, c)' <=> IsCharacter(i, c)
  BY AnsweredFixed
<1>3. Len(written') >= (IF prod' \in {"advance", "wrap"} THEN 1 ELSE 0)
  BY DEF LineGoesOut
<1>4. \A i \in 1 .. Len(written') : IsCharacter(i, written[i])'
  BY <1>2 DEF LineGoesOut
<1>5. \A j \in 1 .. Len(toWrite') : IsCharacter(Done + j, toWrite[j])'
  BY <1>1, <1>2 DEF LineGoesOut
<1>6. QED
  BY <1>1, <1>3, <1>4, <1>5 DEF LineGoesOut

LEMMA PutLine ==
    ASSUME InputInv, RingInv, NoTupleYet, LineGoesOut, PutsTuple
    PROVE  LineGoesOut'
<1> DEFINE n == lastTuple'.n
           out == Len(written)
<1>1. /\ prod = "idle" /\ prod' = "test" /\ written' = written
      /\ toWrite' = Printed(lastTuple') /\ sent' = sent
      /\ getNext /\ lastTuple'.kind = "tuple"
  BY DEF PutsTuple, putNext, getNext, client
<1>2. /\ Rank(Level)' = Rank(Level) + 1
      /\ Level' = n /\ n \in Answered /\ sent[n].n = n
  BY <1>1, EngineLevel
<1>3. out \in Nat /\ out = 2 * Rank(Level) /\ Done' = out /\ Rank(Level) \in Nat
  <2>1. toWrite = <<>> /\ Len(toWrite) = 0 /\ Done = out
    BY <1>1 DEF LineGoesOut, Done
  <2>2. Rank(Level) \in Nat
    BY HandledIsNumber, RankIsNumber, Zenon
  <2>3. out \in Nat
    BY RingSizes DEF RingInv
  <2>4. QED
    BY <1>1, <2>1, <2>2, <2>3 DEF LineGoesOut, Done
<1>4. Rank(n) = Rank(Level) + 1
  <2>1. Rank(Level)' = Cardinality({m \in Answered' : m <= Level'})
    BY DEF Rank
  <2>2. QED
    BY <1>1, <1>2, <2>1, AnsweredFixed DEF Rank
<1>5. Len(toWrite') = 2 /\ toWrite'[1] = n /\ toWrite'[2] = NL
  BY <1>1, PrintedIsText
<1>6. Printed(sent[n])[1] = n /\ Printed(sent[n])[2] = NL
  BY <1>2 DEF Printed
<1> HIDE DEF n, out
<1>7. IsCharacter(out + 1, n)
  <2>1. Rank(n) = (out + 1 + 1) \div 2 /\ 2 - ((out + 1) % 2) = 1
    BY <1>3, <1>4
  <2>2. QED
    BY <1>2, <1>6, <2>1 DEF IsCharacter
<1>8. IsCharacter(out + 2, NL)
  <2>1. \A r \in Nat : (2 * r + 2 + 1) \div 2 = r + 1 /\ 2 - ((2 * r + 2) % 2) = 2
    OBVIOUS
  <2>2. Rank(n) = (out + 2 + 1) \div 2 /\ 2 - ((out + 2) % 2) = 2
    BY <1>3, <1>4, <2>1, Zenon
  <2>3. QED
    BY <1>2, <1>6, <2>2 DEF IsCharacter
<1>9. \A j \in 1 .. Len(toWrite') : IsCharacter(Done' + j, toWrite'[j])
  <2>1. \A j \in 1 .. 2 : j = 1 \/ j = 2
    OBVIOUS
  <2>2. QED
    BY <1>3, <1>5, <1>7, <1>8, <2>1
<1>10. \A i, c : IsCharacter(i, c)' <=> IsCharacter(i, c)
  BY <1>1, AnsweredFixed
<1>11. \A j \in 1 .. Len(toWrite') : IsCharacter(Done + j, toWrite[j])'
  BY <1>9, <1>10
<1>12. \A i \in 1 .. Len(written') : IsCharacter(i, written[i])'
  BY <1>1, <1>10 DEF LineGoesOut
<1>13. Done' + Len(toWrite') = 2 * Rank(Level)'
  BY <1>2, <1>3, <1>5
<1>14. Len(written') >= 0
  BY <1>1, <1>3 DEF out
<1>15. QED
  BY <1>1, <1>11, <1>12, <1>13, <1>14 DEF LineGoesOut

LEMMA StoreLine ==
    ASSUME RingInv, LineGoesOut, StoreChar, Rank(Level)' = Rank(Level), sent' = sent
    PROVE  LineGoesOut'
<1>1. /\ prod = "store" /\ prod' = "advance" /\ toWrite' = toWrite
      /\ written' = Append(written, Head(toWrite))
  BY DEF StoreChar
<1>2. /\ toWrite \in Seq(Char) /\ toWrite # <<>> /\ written \in Seq(Char)
      /\ Len(written) \in Nat /\ Len(toWrite) \in Nat
  BY <1>1, LenProperties DEF RingInv, RingTypes
<1>3. /\ Len(written') = Len(written) + 1
      /\ \A i \in 1 .. Len(written) : written'[i] = written[i]
      /\ written'[Len(written) + 1] = Head(toWrite)
  BY <1>1, <1>2, HeadTailProperties, AppendProperties
<1>4. Done = Len(written) /\ Done' = Len(written)
  BY <1>1, <1>2, <1>3 DEF Done
<1>5. \A i, c : IsCharacter(i, c)' <=> IsCharacter(i, c)
  BY AnsweredFixed
<1>6. IsCharacter(Len(written) + 1, Head(toWrite))
  <2>1. 1 \in 1 .. Len(toWrite) /\ Head(toWrite) = toWrite[1]
    BY <1>2, EmptySeq
  <2>2. QED
    BY <1>4, <2>1 DEF LineGoesOut
<1>7. \A i \in 1 .. Len(written') : IsCharacter(i, written'[i])
  <2>1. \A i \in 1 .. Len(written') : i \in 1 .. Len(written) \/ i = Len(written) + 1
    BY <1>2, <1>3
  <2>2. QED
    BY <1>3, <1>6, <2>1 DEF LineGoesOut
<1>8. \A i \in 1 .. Len(written') : IsCharacter(i, written[i])'
  BY <1>5, <1>7
<1>9. \A j \in 1 .. Len(toWrite') : IsCharacter(Done + j, toWrite[j])'
  BY <1>1, <1>4, <1>5 DEF LineGoesOut
<1>10. Len(written') >= 1
  BY <1>2, <1>3
<1>11. QED
  BY <1>1, <1>4, <1>8, <1>9, <1>10 DEF LineGoesOut

LEMMA AdvanceLine ==
    ASSUME RingInv, LineGoesOut, AdvanceWrite \/ WrapWrite,
           Rank(Level)' = Rank(Level), sent' = sent
    PROVE  LineGoesOut'
<1>1. prod \in {"advance", "wrap"} /\ written' = written
  BY DEF AdvanceWrite, WrapWrite
<1>2. CASE prod' = "wrap" /\ toWrite' = toWrite
  BY <1>1, <1>2, LineStays
<1>3. CASE NextChar
  <2>1. /\ toWrite \in Seq(Char) /\ toWrite # <<>>
        /\ Len(written) \in Nat /\ Len(toWrite) \in Nat \ {0}
    BY <1>1, LenProperties, EmptySeq DEF RingInv, RingTypes
  <2>2. /\ toWrite' = Tail(toWrite) /\ prod' \in {"test", "idle"}
        /\ prod' = "idle" => Len(toWrite) <= 1
    BY <1>3, <2>1 DEF NextChar
  <2>3. /\ toWrite' \in Seq(Char) /\ Len(toWrite') = Len(toWrite) - 1
        /\ \A j \in 1 .. Len(toWrite') : toWrite'[j] = toWrite[j + 1]
    BY <2>1, <2>2, HeadTailProperties
  <2>4. Done = Len(written) - 1 /\ Done' = Len(written) /\ Done' = Done + 1
    BY <1>1, <2>1, <2>2 DEF Done
  <2>5. \A i, c : IsCharacter(i, c)' <=> IsCharacter(i, c)
    BY AnsweredFixed
  <2>6. ASSUME NEW j \in 1 .. Len(toWrite') PROVE IsCharacter(Done' + j, toWrite'[j])
    <3>1. j + 1 \in 1 .. Len(toWrite) /\ Done' + j = Done + (j + 1)
      BY <2>1, <2>3, <2>4
    <3>2. IsCharacter(Done + (j + 1), toWrite[j + 1])
      BY <3>1 DEF LineGoesOut
    <3>3. QED
      BY <2>3, <3>1, <3>2
  <2>7. \A j \in 1 .. Len(toWrite') : IsCharacter(Done + j, toWrite[j])'
    BY <2>5, <2>6
  <2>8. \A i \in 1 .. Len(written') : IsCharacter(i, written[i])'
    BY <1>1, <2>5 DEF LineGoesOut
  <2>9. Done' + Len(toWrite') = 2 * Rank(Level)'
    <3>1. Done + Len(toWrite) = 2 * Rank(Level)
      BY DEF LineGoesOut
    <3>2. Done' + Len(toWrite') = Done + Len(toWrite)
      BY <2>1, <2>3, <2>4
    <3>3. QED
      BY <3>1, <3>2
  <2>10. prod' = "idle" => toWrite' = <<>>
    BY <2>1, <2>2, <2>3, EmptySeq
  <2>11. QED
    BY <1>1, <2>1, <2>2, <2>7, <2>8, <2>9, <2>10 DEF LineGoesOut
<1>4. QED
  BY <1>2, <1>3 DEF AdvanceWrite, WrapWrite

LEMMA StepLineGoesOut ==
    InputInv /\ RingInv /\ NoTupleYet /\ LineGoesOut /\ [Next]_vars => LineGoesOut'
<1> SUFFICES ASSUME InputInv, RingInv, NoTupleYet, LineGoesOut, [Next]_vars PROVE LineGoesOut'
  OBVIOUS
<1>1. CASE PutsTuple
  BY <1>1, PutLine
<1>2. CASE UNCHANGED outVars /\ QuietInput
  <2>1. Rank(Level)' = Rank(Level) /\ sent' = sent
    <3>1. CASE getNext /\ lastTuple'.kind # "tuple"
      <4>1. Rank(Level) \in Nat
        BY HandledIsNumber, RankIsNumber, Zenon
      <4>2. QED
        BY <3>1, <4>1, EngineLevel DEF getNext, client
    <3>2. CASE ~getNext
      BY <1>2, <3>2, ThreadLevel, SentFixed DEF QuietInput, InputStep
    <3>3. QED
      BY <1>2, <3>1, <3>2, ThreadLevel, SentFixed DEF QuietInput, InputStep
  <2>2. QED
    BY <1>2, <2>1, LineStays DEF outVars
<1>3. CASE UNCHANGED inVars
  <2>1. Rank(Level)' = Rank(Level) /\ sent' = sent
    BY <1>3, LevelStays DEF inVars, client
  <2>2. CASE UNCHANGED outVars
    BY <2>1, <2>2, LineStays DEF outVars
  <2>3. CASE StoreChar
    BY <2>1, <2>3, StoreLine
  <2>4. CASE AdvanceWrite \/ WrapWrite
    BY <2>1, <2>4, AdvanceLine
  <2>5. CASE QuietOutput
    <3>1. /\ UNCHANGED <<written, toWrite>>
          /\ prod' = prod \/ {prod, prod'} \subseteq {"test", "lock", "wait", "woken", "store"}
      BY <2>5 DEF QuietOutput, TestFull, WaitForSpace, WakeUp, ConnectOutput, Loop, TestEmpty,
            Measure, SendFirst, SendRest, Send, FreeCells, SignalProducer, outputEnd, BreakOutput
    <3>2. QED
      BY <2>1, <3>1, LineStays
  <2>6. QED
    BY <1>1, <1>3, <2>2, <2>3, <2>4, <2>5, StepKinds
<1>4. QED
  BY <1>1, <1>2, <1>3, StepKinds

LEMMA LineInvariance == Spec => [](InputInv /\ RingInv /\ LineGoesOut)
<1>1. Init => NoTupleYet /\ LineGoesOut
  BY InitNoTupleYet, InitLineGoesOut
<1>2. InputInv /\ RingInv /\ NoTupleYet /\ LineGoesOut /\ [Next]_vars => (NoTupleYet /\ LineGoesOut)'
  BY StepNoTupleYet, StepLineGoesOut
<1>3. QED
  BY <1>1, <1>2, InputInvariance, RingInvariance, PTL DEF Spec

-----------------------------------------------------------------------------
(***************************************************************************)
(* Through the queue and the ring, with the pointers read while the other  *)
(* thread moves them (out_conn.cc, writechar() and consumeBuf(); in_conn.cc,*)
(* getNext()), the output client gets a beginning of what was written, and *)
(* what was written is a beginning of the tuples that the input client     *)
(* sent, whole, once each and in their order.                              *)
(***************************************************************************)
LEMMA RingInOrder == RingInv => StartOf(delivered, written)
<1> SUFFICES ASSUME RingInv PROVE delivered = SubSeq(written, 1, Len(delivered))
  BY DEF StartOf
<1> DEFINE Chars == Char \cup {NoChar}
           start == SubSeq(written, 1, Len(delivered))
<1>1. /\ delivered \in Seq(Chars) /\ written \in Seq(Chars)
      /\ Len(delivered) \in Nat /\ Len(written) \in Nat
      /\ Len(delivered) <= Len(written)
      /\ \A i \in 1 .. Len(delivered) : delivered[i] = written[i]
  BY RingSizes, SeqMonotonic DEF RingInv, RingTypes, Delivered
<1>2. \A i \in 1 .. Len(delivered) : written[i] \in Chars
  BY <1>1
<1>3. /\ start \in Seq(Chars)
      /\ Len(start) = Len(delivered)
      /\ \A i \in 1 .. Len(delivered) : start[i] = written[i]
  BY <1>1, <1>2, SubSeqProperties
<1> HIDE DEF start, Chars
<1>4. delivered = start
  BY <1>1, <1>3, SeqEqual
<1>5. QED
  BY <1>4 DEF start

LEMMA TuplesInOrder == RingInv /\ LineGoesOut => StartOf(written, Expected)
<1> SUFFICES ASSUME RingInv, LineGoesOut PROVE written = SubSeq(Expected, 1, Len(written))
  BY DEF StartOf
<1> DEFINE start == SubSeq(Expected, 1, Len(written))
<1>1. written \in Seq(Char) /\ Len(written) \in Nat
  BY RingSizes DEF RingInv, RingTypes
<1>2. ASSUME NEW i \in 1 .. Len(written) PROVE Expected[i] = written[i]
  <2>1. PICK n \in Answered : /\ Rank(n) = (i + 1) \div 2
                              /\ written[i] = Printed(sent[n])[2 - (i % 2)]
    BY DEF LineGoesOut, IsCharacter
  <2>2. Rank(n) <= Cardinality(Answered) /\ Cardinality(Answered) \in Nat
    <3>1. n \in Int
      BY DEF Answered
    <3>2. QED
      BY <3>1, RankIsNumber
  <2>3. i \in 1 .. 2 * Cardinality(Answered)
    BY <1>1, <2>1, <2>2
  <2>4. (CHOOSE m \in Answered : Rank(m) = (i + 1) \div 2) = n
    BY <2>1, RankGrows
  <2>5. QED
    BY <2>1, <2>3, <2>4 DEF Expected
<1>3. \A i \in 1 .. Len(written) : Expected[i] \in Char
  BY <1>1, <1>2
<1>4. /\ start \in Seq(Char)
      /\ Len(start) = Len(written)
      /\ \A i \in 1 .. Len(written) : start[i] = Expected[i]
  BY <1>1, <1>3, SubSeqProperties
<1> HIDE DEF start
<1>5. written = start
  BY <1>1, <1>2, <1>4, SeqEqual
<1>6. QED
  BY <1>5 DEF start

THEOREM DeliveryInOrder == Spec => []DeliveredInOrder
BY RingInOrder, TuplesInOrder, LineInvariance, PTL DEF DeliveredInOrder

=============================================================================
