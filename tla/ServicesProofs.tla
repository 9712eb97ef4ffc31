--------------------------- MODULE ServicesProofs ---------------------------
(***************************************************************************)
(* Theorems about the instances of Services, for every value of their      *)
(* constants: time is converted within the error the delays allow, a sound *)
(* is transcribed as a whole, a client with the right pin is let in and    *)
(* shares its secrets with the server, audio goes into the pipeline of its *)
(* format, at its time, metrics add up, and every variable keeps its type. *)
(***************************************************************************)
EXTENDS Services, Modular, SequenceTheorems

-----------------------------------------------------------------------------
(* The timing service.  A time is converted with an error of at most half  *)
(* of the delay of the fastest answer in the ring.  It rests on what an    *)
(* answer is: wherever it is, it was made of a request and two delays, so  *)
(* that what is measured of it is off by half the difference of those      *)
(* delays, and its delay is their sum.  An entry of the ring nothing was   *)
(* put into is slower than any answer.                                     *)

\* An answer under way or in the socket is one the client gave to a request.
AnswersAreAnswers ==
  \A m \in wire \cup inbox :
    \E t0 \in SendTimes, d \in Delays, h \in Holds : m = Answer(t0, d, h)

\* An entry's offset is the one of the clocks but for half of its delay.
MeasuredWell(entry) ==
  /\ entry.delay \in Nat /\ entry.delay < RAOP_NTP_MAX_DISP
  /\ Within(entry.offset - THETA, entry.delay)

RingMeasuredWell == \A i \in Slots : data[i] = Filler \/ MeasuredWell(data[i])

\* The offset in use is that of a fastest entry.
OffsetOfTheFastest ==
  (\E i \in Slots : data[i] # Filler) =>
    \E i \in Slots : Fastest(data, i) /\ sync_offset = data[i].offset

\* The inductive invariant.
Clocks == TypeOK /\ AnswersAreAnswers /\ RingMeasuredWell /\ OffsetOfTheFastest

-----------------------------------------------------------------------------
\* Arithmetic

\* Half differs from a half by at most a half.
LEMMA HalfIsNear ==
  ASSUME NEW n \in Int
  PROVE  Half(n) \in Int /\ n - 1 <= 2 * Half(n) /\ 2 * Half(n) <= n + 1
  BY DEF Half

\* The next index is one of the ring (raop_ntp.c:342).
LEMMA NextIndexInRing ==
  ASSUME data_index \in Slots
  PROVE  NextIndex \in Slots
  BY NtpAssumption DEF Slots, NextIndex

\* What is measured of an answer that took e back: both delays are in the
\* delay, and half of their difference is in the offset.
LEMMA AnswerMeasured ==
  ASSUME NEW t0 \in SendTimes, NEW d \in Delays, NEW h \in Holds, NEW e \in Delays,
         NEW m, m = Answer(t0, d, h)
  PROVE  /\ Measured(m, m.t2 - THETA + e) \in [offset : Int, delay : Int]
         /\ MeasuredWell(Measured(m, m.t2 - THETA + e))
<1> DEFINE t3 == m.t2 - THETA + e
           n == (m.t1 - m.t0) + (m.t2 - t3)
<1>1. /\ t0 \in Int /\ d \in Nat /\ h \in Nat /\ e \in Nat /\ THETA \in Int
      /\ d + e < RAOP_NTP_MAX_DISP
  BY NtpAssumption
<1>2. m.t0 = t0 /\ m.t1 = t0 + THETA + d /\ m.t2 = t0 + THETA + d + h
  BY DEF Answer
<1>3. n \in Int /\ n = 2 * THETA + d - e
  BY <1>1, <1>2
<1>4. Half(n) \in Int /\ n - 1 <= 2 * Half(n) /\ 2 * Half(n) <= n + 1
  BY <1>3, HalfIsNear
<1>5. (t3 - m.t0) - (m.t2 - m.t1) = d + e
  BY <1>1, <1>2
<1>6. Measured(m, t3) = [offset |-> Half(n), delay |-> d + e]
  BY <1>5 DEF Measured
<1>7. Within(Half(n) - THETA, d + e)
  <2>1. 2 * (Half(n) - THETA) = 2 * Half(n) - 2 * THETA
    BY <1>1, <1>4
  <2> QED BY <2>1, <1>1, <1>3, <1>4 DEF Within
<1> HIDE DEF n
<1>8. [offset |-> Half(n), delay |-> d + e] \in [offset : Int, delay : Int]
  BY <1>1, <1>4
<1> QED BY <1>1, <1>6, <1>7, <1>8 DEF MeasuredWell

-----------------------------------------------------------------------------
\* The invariant

LEMMA ClocksInit == Init => Clocks
<1> SUFFICES ASSUME Init PROVE Clocks
  OBVIOUS
<1>1. Filler \in [offset : Int, delay : Int]
  BY NtpAssumption DEF Filler
<1>2. 0 \in Slots
  BY NtpAssumption DEF Slots
<1>3. TypeOK
  <2>1. data \in [Slots -> [offset : Int, delay : Int]]
    BY <1>1 DEF Init
  <2>2. \A m \in wire \cup inbox : m \in [t0 : Int, t1 : Int, t2 : Int]
    BY DEF Init
  <2>3. sync_offset \in Int /\ data_index \in Slots /\ timeout_counter \in Nat
    BY <1>2 DEF Init
  <2>4. /\ running \in BOOLEAN /\ joined \in BOOLEAN
        /\ tsock \in {"none", "open", "closed"} /\ client \in {"answering", "silent"}
        /\ thread = "none" /\ caller = "idle"
    BY DEF Init
  <2> QED BY <2>1, <2>2, <2>3, <2>4 DEF TypeOK
<1>4. AnswersAreAnswers
  BY DEF Init, AnswersAreAnswers
<1>5. RingMeasuredWell /\ OffsetOfTheFastest
  BY DEF Init, RingMeasuredWell, OffsetOfTheFastest
<1> QED BY <1>3, <1>4, <1>5 DEF Clocks

\* A step that reads no answer, and puts none under way but true ones.
LEMMA RingUntouched ==
  ASSUME Clocks, TypeOK', UNCHANGED ring_vars,
         \A m \in wire' \cup inbox' :
           m \in wire \cup inbox
             \/ \E t0 \in SendTimes, d \in Delays, h \in Holds : m = Answer(t0, d, h)
  PROVE  Clocks'
<1>1. AnswersAreAnswers'
  BY DEF Clocks, AnswersAreAnswers
<1>2. RingMeasuredWell'
  BY DEF Clocks, RingMeasuredWell, ring_vars
<1>3. OffsetOfTheFastest'
  BY DEF Clocks, OffsetOfTheFastest, Fastest, ring_vars
<1> QED BY <1>1, <1>2, <1>3 DEF Clocks

\* An answer has the times of one.
LEMMA AnswerType ==
  ASSUME NEW t0 \in SendTimes, NEW d \in Delays, NEW h \in Holds
  PROVE  Answer(t0, d, h) \in [t0 : Int, t1 : Int, t2 : Int]
<1>1. t0 \in Int /\ d \in Nat /\ h \in Nat /\ THETA \in Int
  BY NtpAssumption
<1> QED BY <1>1 DEF Answer

\* Reading an answer.
LEMMA ReceiveKeeps ==
  ASSUME Clocks, NEW m \in inbox, NEW e \in Delays, Receive(m, e)
  PROVE  Clocks'
<1>1. PICK t0 \in SendTimes, d \in Delays, h \in Holds : m = Answer(t0, d, h)
  BY DEF Clocks, AnswersAreAnswers
<1> DEFINE entry == Measured(m, m.t2 - THETA + e)
<1>2. entry \in [offset : Int, delay : Int] /\ MeasuredWell(entry)
  BY <1>1, AnswerMeasured
<1> HIDE DEF entry
<1>3. NextIndex \in Slots
  BY NextIndexInRing DEF Clocks, TypeOK
<1>4. data' = [data EXCEPT ![NextIndex] = entry] /\ data_index' = NextIndex
  BY DEF Receive, entry
<1>5. data' \in [Slots -> [offset : Int, delay : Int]]
  BY <1>2, <1>3, <1>4 DEF Clocks, TypeOK
<1>6. PICK i \in Slots : Fastest(data', i) /\ sync_offset' = data'[i].offset
  BY DEF Receive
<1>7. TypeOK'
  <2>1. sync_offset' \in Int
    BY <1>5, <1>6
  <2> QED BY <2>1, <1>3, <1>4, <1>5 DEF Clocks, TypeOK, Receive, Thread, control_vars
<1>8. AnswersAreAnswers'
  BY DEF Clocks, AnswersAreAnswers, Receive
<1>9. RingMeasuredWell'
  <2> SUFFICES ASSUME NEW j \in Slots
               PROVE  data'[j] = Filler \/ MeasuredWell(data'[j])
    BY DEF RingMeasuredWell, Filler, MeasuredWell
  <2>1. data'[j] = IF j = NextIndex THEN entry ELSE data[j]
    BY <1>3, <1>4 DEF Clocks, TypeOK
  <2> QED BY <2>1, <1>2 DEF Clocks, RingMeasuredWell
<1>10. OffsetOfTheFastest'
  BY <1>6 DEF OffsetOfTheFastest, Fastest
<1> QED BY <1>7, <1>8, <1>9, <1>10 DEF Clocks

LEMMA ClocksNext == Clocks /\ [Next]_vars => Clocks'
<1> SUFFICES ASSUME Clocks, [Next]_vars PROVE Clocks'
  OBVIOUS
<1> USE DEF thread_vars, ring_vars, net_vars, control_vars
<1>1. CASE UNCHANGED vars
  <2>1. TypeOK'
    BY <1>1 DEF Clocks, TypeOK, vars
  <2> QED BY <2>1, <1>1, RingUntouched DEF vars
<1>2. ASSUME NEW m \in wire, Arrive(m) PROVE Clocks'
  <2>1. TypeOK'
    BY <1>2 DEF Clocks, TypeOK, Arrive
  <2> QED BY <2>1, <1>2, RingUntouched DEF Arrive
<1>3. ASSUME NEW m \in wire, Lose(m) PROVE Clocks'
  <2>1. TypeOK'
    BY <1>3 DEF Clocks, TypeOK, Lose
  <2> QED BY <2>1, <1>3, RingUntouched DEF Lose
<1>4. CASE FallSilent
  <2>1. TypeOK'
    BY <1>4 DEF Clocks, TypeOK, FallSilent
  <2> QED BY <2>1, <1>4, RingUntouched DEF FallSilent
<1>5. CASE Top
  <2>1. TypeOK'
    BY <1>5 DEF Clocks, TypeOK, Top, GoesOn
  <2> QED BY <2>1, <1>5, RingUntouched DEF Top
<1>6. CASE Send
  <2>1. \A m \in wire' \cup inbox' :
          m \in wire \cup inbox
            \/ \E t0 \in SendTimes, d \in Delays, h \in Holds : m = Answer(t0, d, h)
    BY <1>6 DEF Send
  <2>2. \A m \in wire' \cup inbox' : m \in [t0 : Int, t1 : Int, t2 : Int]
    BY <2>1, AnswerType DEF Clocks, TypeOK
  <2>3. TypeOK'
    BY <2>2, <1>6 DEF Clocks, TypeOK, Send, Thread
  <2> QED BY <2>1, <2>3, <1>6, RingUntouched DEF Send
<1>7. CASE SendFails
  <2>1. TypeOK'
    BY <1>7 DEF Clocks, TypeOK, SendFails, Thread
  <2> QED BY <2>1, <1>7, RingUntouched DEF SendFails
<1>8. ASSUME NEW m \in inbox, NEW e \in Delays, Receive(m, e) PROVE Clocks'
  BY <1>8, ReceiveKeeps
<1>9. CASE Timeout
  <2>1. TypeOK'
    BY <1>9 DEF Clocks, TypeOK, Timeout, Counted
  <2> QED BY <2>1, <1>9, RingUntouched DEF Timeout
<1>10. CASE Wake
  <2>1. TypeOK'
    BY <1>10 DEF Clocks, TypeOK, Wake, Thread
  <2> QED BY <2>1, <1>10, RingUntouched DEF Wake
<1>11. CASE Clear
  <2>1. TypeOK'
    BY <1>11 DEF Clocks, TypeOK, Clear
  <2> QED BY <2>1, <1>11, RingUntouched DEF Clear
<1>12. CASE ConnReset
  <2>1. TypeOK'
    BY <1>12 DEF Clocks, TypeOK, ConnReset, Thread
  <2> QED BY <2>1, <1>12, RingUntouched DEF ConnReset
<1>13. CASE Start
  <2>1. TypeOK'
    BY <1>13 DEF Clocks, TypeOK, Start
  <2> QED BY <2>1, <1>13, RingUntouched DEF Start
<1>14. CASE Stop
  <2>1. TypeOK'
    BY <1>14 DEF Clocks, TypeOK, Stop
  <2> QED BY <2>1, <1>14, RingUntouched DEF Stop
<1>15. CASE StopClose
  <2>1. TypeOK'
    BY <1>15 DEF Clocks, TypeOK, StopClose
  <2> QED BY <2>1, <1>15, RingUntouched DEF StopClose
<1>16. CASE StopJoin
  <2>1. TypeOK'
    BY <1>16 DEF Clocks, TypeOK, StopJoin
  <2> QED BY <2>1, <1>16, RingUntouched DEF StopJoin
<1> QED
  BY <1>1, <1>2, <1>3, <1>4, <1>5, <1>6, <1>7, <1>8, <1>9, <1>10, <1>11, <1>12, <1>13,
     <1>14, <1>15, <1>16 DEF Next, TimingThread

\* The fastest entry is a measured one as soon as there is one.
LEMMA ClocksConvert == Clocks => ConvertedWithinDelay
<1> SUFFICES ASSUME Clocks, NEW k \in Slots, data[k] # Filler
             PROVE  \E i \in Slots :
                      /\ \A j \in Slots : data[i].delay <= data[j].delay
                      /\ \A t \in SendTimes :
                           /\ Within(ConvertRemote(t + THETA) - t, data[i].delay)
                           /\ Within(ConvertLocal(t) - (t + THETA), data[i].delay)
  BY DEF ConvertedWithinDelay
<1>1. PICK i \in Slots : Fastest(data, i) /\ sync_offset = data[i].offset
  BY DEF Clocks, OffsetOfTheFastest
<1>2. data[k].delay < RAOP_NTP_MAX_DISP /\ data[k].delay \in Nat
  BY DEF Clocks, RingMeasuredWell, MeasuredWell
<1>3. data[i].delay <= data[k].delay
  BY <1>1 DEF Fastest
<1>4. data[i] # Filler
  BY <1>2, <1>3, NtpAssumption DEF Filler
<1>5. data[i].delay \in Nat /\ Within(data[i].offset - THETA, data[i].delay)
  BY <1>4 DEF Clocks, RingMeasuredWell, MeasuredWell
<1>6. data[i].offset \in Int /\ THETA \in Int
  BY NtpAssumption DEF Clocks, TypeOK
<1>7. ASSUME NEW t \in SendTimes
      PROVE  /\ Within(ConvertRemote(t + THETA) - t, data[i].delay)
             /\ Within(ConvertLocal(t) - (t + THETA), data[i].delay)
  <2>1. t \in Int
    BY NtpAssumption
  <2>2. ConvertLocal(t) - (t + THETA) = sync_offset - THETA
    BY <2>1, <1>1, <1>6 DEF ConvertLocal
  <2>3. ConvertRemote(t + THETA) - t = -(sync_offset - THETA)
    BY <2>1, <1>1, <1>6 DEF ConvertRemote
  <2> QED BY <2>2, <2>3, <1>1, <1>5, <1>6 DEF Within
<1> QED BY <1>1, <1>7 DEF Fastest

-----------------------------------------------------------------------------
\* The state of the service is always of its kind, the index within the ring
\* (raop_ntp.c:342) and the counts not negative.
THEOREM NtpTypeCorrect == Spec => []TypeOK
<1>1. Clocks => TypeOK
  BY DEF Clocks
<1> QED BY <1>1, ClocksInit, ClocksNext, PTL DEF Spec

\* Once an answer has come, times are converted with an error of at most half
\* of the delay of the fastest answer in the ring (raop_ntp.c:342-369).
THEOREM ConvertedAlways == Spec => []ConvertedWithinDelay
<1> QED BY ClocksInit, ClocksNext, ClocksConvert, PTL DEF Spec

-----------------------------------------------------------------------------
(* Tasks.                                                                  *)

Tasks == {Assistant!NewTask(s) : s \in Sentences}

ThreadsInv ==
  /\ console \in [pc : {"input", "push", "moving", "process", "exit"}, task : Tasks \cup {Assistant!NoTask}]
  /\ worker \in [pc : {"poll", "process"}, task : Tasks \cup {Assistant!NoTask}]
  /\ taskQueue \in [tasks : Seq(Tasks), moving : BOOLEAN, broken : BOOLEAN]
  /\ typed \in Seq(Tasks)

\* Who works on a task holds one, and the map is moved by the console: what
\* Assistant's TypeOK says, which every step keeps.
LEMMA TasksTyped ==
  ASSUME ThreadsInv, Assistant!TypeOK, [Assistant!Next]_(Assistant!vars)
  PROVE  (ThreadsInv /\ Assistant!TypeOK)'
<1>1. /\ console \in [pc : {"input", "push", "moving", "process", "exit"}, task : Tasks \cup {Assistant!NoTask}]
      /\ worker \in [pc : {"poll", "process"}, task : Tasks \cup {Assistant!NoTask}]
      /\ taskQueue \in [tasks : Seq(Tasks), moving : BOOLEAN, broken : BOOLEAN]
      /\ typed \in Seq(Tasks)
  BY DEF ThreadsInv
<1>2. /\ console.task = Assistant!NoTask <=> console.pc \in {"input", "exit"}
      /\ worker.task = Assistant!NoTask <=> worker.pc = "poll"
      /\ taskQueue.moving <=> console.pc = "moving"
      /\ Len(typed) \in 0 .. Lines
  BY DEF Assistant!TypeOK
<1>3. Assistant!NoTask \notin Tasks
  <2>1. ASSUME NEW label PROVE Assistant!stringToTaskType(label) # "none"
    BY DEF Assistant!stringToTaskType, Assistant!HomeTasks, Assistant!IdleTasks
  <2>2. ASSUME NEW t \in Tasks PROVE t.type # "none"
    <3>1. PICK s \in Sentences : t = Assistant!NewTask(s)
      BY DEF Tasks
    <3>2. t.type = Assistant!stringToTaskType(Assistant!ClassifySentence(s))
      BY <3>1 DEF Assistant!NewTask
    <3> QED BY <2>1, <3>2
  <2>3. Assistant!NoTask.type = "none"
    BY DEF Assistant!NoTask
  <2> QED BY <2>2, <2>3
<1>4. CASE Assistant!GetLine
  <2>1. PICK s \in Sentences :
          /\ console' = [pc |-> "push", task |-> Assistant!NewTask(s)]
          /\ typed' = Append(typed, Assistant!NewTask(s))
    BY <1>4 DEF Assistant!GetLine
  <2>2. Assistant!NewTask(s) \in Tasks /\ Len(typed) < Lines /\ console.pc = "input"
        /\ UNCHANGED <<worker, taskQueue>>
    BY <1>4 DEF Tasks, Assistant!GetLine
  <2>3. console'.task # Assistant!NoTask /\ console'.pc = "push"
    BY <1>3, <2>1, <2>2
  <2>4. Len(typed') \in 0 .. Lines
    <3> DEFINE n == Len(typed)
    <3>1. n \in 0 .. Lines /\ n < Lines /\ Len(typed') = n + 1
      BY <1>1, <1>2, <2>1, <2>2
    <3> HIDE DEF n
    <3> QED BY <3>1, AssistantAssumption
  <2>5. ThreadsInv'
    BY <1>1, <2>1, <2>2 DEF ThreadsInv
  <2> QED BY <1>2, <2>2, <2>3, <2>4, <2>5 DEF Assistant!TypeOK
<1>5. CASE Assistant!Exit
  BY <1>1, <1>2, <1>5 DEF Assistant!Exit, Assistant!TypeOK, ThreadsInv
<1>6. CASE Assistant!MoveMap
  BY <1>1, <1>2, <1>6 DEF Assistant!MoveMap, Assistant!TypeOK, ThreadsInv
<1>7. CASE Assistant!addTask
  <2>1. console.task \in Tasks
    BY <1>1, <1>2, <1>7 DEF Assistant!addTask
  <2>2. Append(taskQueue.tasks, console.task) \in Seq(Tasks)
    BY <1>1, <2>1
  <2>3. /\ console' = [console EXCEPT !.pc = "process"]
        /\ taskQueue' = [taskQueue EXCEPT !.tasks = Append(taskQueue.tasks, console.task), !.moving = FALSE]
        /\ UNCHANGED <<typed, worker>>
    BY <1>7 DEF Assistant!addTask
  <2>4. ThreadsInv'
    BY <1>1, <2>2, <2>3 DEF ThreadsInv
  <2>5. Assistant!TypeOK'
    BY <1>1, <1>2, <1>7, <2>3 DEF Assistant!addTask, Assistant!TypeOK
  <2> QED BY <2>4, <2>5
<1>8. CASE Assistant!ConsoleProcess
  BY <1>1, <1>2, <1>8 DEF Assistant!ConsoleProcess, Assistant!TypeOK, ThreadsInv
<1>9. CASE Assistant!getNextTask
  <2>1. Assistant!Front(taskQueue.tasks) \in Tasks
    BY <1>1, <1>9 DEF Assistant!getNextTask, Assistant!Front
  <2>2. /\ worker' = [pc |-> "process", task |-> Assistant!Front(taskQueue.tasks)]
        /\ taskQueue'.moving = taskQueue.moving /\ UNCHANGED <<console, typed>>
    BY <1>1, <1>9 DEF Assistant!getNextTask
  <2>3. worker'.task # Assistant!NoTask /\ worker'.pc = "process"
    BY <1>3, <2>1, <2>2
  <2>4. PICK broken \in BOOLEAN : broken = (taskQueue.broken \/ taskQueue.moving)
    BY Zenon
  <2>5. /\ taskQueue' = [taskQueue EXCEPT !.tasks = Tail(taskQueue.tasks), !.broken = broken]
        /\ taskQueue.tasks # <<>>
    BY <1>9, <2>4 DEF Assistant!getNextTask
  <2>6. Tail(taskQueue.tasks) \in Seq(Tasks)
    BY <1>1, <2>5
  <2>7. ThreadsInv'
    BY <1>1, <2>1, <2>2, <2>4, <2>5, <2>6 DEF ThreadsInv
  <2> QED BY <1>2, <2>2, <2>3, <2>7 DEF Assistant!TypeOK
<1>10. CASE Assistant!WorkerProcess
  BY <1>1, <1>2, <1>10 DEF Assistant!WorkerProcess, Assistant!TypeOK, ThreadsInv
<1>11. CASE UNCHANGED Assistant!vars
  BY <1>11 DEF Assistant!vars, Assistant!TypeOK, ThreadsInv
<1> QED BY <1>4, <1>5, <1>6, <1>7, <1>8, <1>9, <1>10, <1>11
       DEF Assistant!Next, Assistant!Console, Assistant!Worker

\* At the start nobody works.
LEMMA TasksTypedFirst == Assistant!Init => ThreadsInv /\ Assistant!TypeOK
<1>1. Lines \in Nat
  BY AssistantAssumption
<1> QED BY <1>1 DEF Assistant!Init, Assistant!TypeOK, ThreadsInv

-----------------------------------------------------------------------------
(* Sounds.                                                                 *)

Sessions ==
  [pc : {"none", "backlog", "first", "rest", "overrun", "terminate", "transcribe", "answer",
         "closed"}, got : Seq(Nat), remaining : Nat]

SoundTypes ==
  /\ sound \in [Speakers -> Seq(Nat)]
  /\ owner \in [Speakers -> {"connecting", "scope", "gone"}]
  /\ speech \in [Speakers -> {"none", "header", "body", "receive", "recv", "done", "killed"}]
  /\ sd \in [Speakers -> {"closed", "open", "held"}]
  /\ stream \in [Speakers -> Seq(Nat)]
  /\ sound_session \in [Speakers -> Sessions]
  /\ heard \in [Speakers -> Seq(Int)]

\* Before the first recv, what came is what was sent: nothing, the header, or
\* the header and the sound.  Either may be missing when the socket was closed.
Coming(c) ==
  /\ speech[c] \in {"none", "header"} => stream[c] = <<>>
  /\ speech[c] = "body" =>
       stream[c] = Network!Header \/ (stream[c] = <<>> /\ sd[c] # "open")
  /\ stream[c] \in {<<>>, Network!Header, Network!Header \o sound[c]}

\* What was read of a request, after its first units, and what of it is on
\* its way.
Flow(request, w, got, first) ==
  /\ \A i \in 1 .. Len(got) : got[i] = request[first + i]
  /\ \A i \in 1 .. Len(w) : w[i] = request[first + Len(got) + i]

\* What the session has is the beginning of a stretch of the request, and what
\* is on its way is what follows, to the end of the header or of the sound.
Begun(c, first, length) ==
  LET s == sound_session[c]
  IN  /\ Len(s.got) + s.remaining = length
      /\ first + length <= 4 + Len(sound[c])
      /\ Flow(Network!Header \o sound[c], stream[c], s.got, first)
      /\ speech[c] = "body" => first + Len(s.got) + Len(stream[c]) = 4

\* A zero byte in the first piece hid the bytes behind it: the session waits for
\* more than is on its way.
Starved(c) == speech[c] # "body" /\ sound_session[c].remaining > Len(stream[c])

\* The sound, or a stretch of the request that begins in the header.
Heard(c, t) ==
  \/ t = sound[c]
  \/ \E length \in 1 .. Len(sound[c]) : t = SubSeq(Network!Header \o sound[c], 2, length + 1)

SoundInv(c) ==
  /\ owner[c] = "connecting" => speech[c] = "none" /\ sound_session[c].pc = "none"
  /\ sound_session[c].pc \in {"none", "backlog", "first"} => Coming(c)
  /\ sound_session[c].pc = "rest" =>
       /\ speech[c] \notin {"none", "header"}
       /\ \/ Begun(c, 4, Len(sound[c]))
          \/ \E length \in 1 .. Len(sound[c]) : Begun(c, 1, length)
          \/ Starved(c)
  /\ sound_session[c].pc = "transcribe" => Heard(c, sound_session[c].got)
  /\ heard[c] = Network!Nothing \/ Heard(c, heard[c])

NetInv == SoundTypes /\ \A c \in Speakers : SoundInv(c)

\* The header is four units, and none of them is zero.
LEMMA HeaderUnits ==
  /\ Network!Header \in Seq(Nat) /\ Len(Network!Header) = 4
  /\ \A i \in 1 .. 4 : Network!Header[i] # 0
  BY DEF Network!Header, Network!TOP, Network!LENGTH, Network!VALUE, Network!BLANK

\* A speaker that a step leaves alone.
LEMMA SameSound ==
  ASSUME NEW d \in Speakers, SoundInv(d),
         sound[d]' = sound[d], owner[d]' = owner[d], speech[d]' = speech[d], sd[d]' = sd[d],
         stream[d]' = stream[d], sound_session[d]' = sound_session[d], heard[d]' = heard[d]
  PROVE  SoundInv(d)'
  BY DEF SoundInv, Coming, Begun, Starved, Heard

\* What was heard is not heard anew.
LEMMA SameHeard ==
  ASSUME NEW c \in Speakers, SoundInv(c), sound'[c] = sound[c], heard'[c] = heard[c]
  PROVE  heard'[c] = Network!Nothing \/ Heard(c, heard[c])'
  BY DEF SoundInv, Heard

\* A step of the client that sends nothing.
LEMMA SameSession ==
  ASSUME NEW c \in Speakers, SoundInv(c), owner'[c] # "connecting",
         sound'[c] = sound[c], stream'[c] = stream[c], heard'[c] = heard[c],
         sound_session'[c] = sound_session[c],
         speech'[c] \in {"none", "header"} => speech'[c] = speech[c],
         speech'[c] = "body" => speech[c] = "body" /\ (sd[c] # "open" => sd'[c] # "open")
  PROVE  SoundInv(c)'
<1>1. heard'[c] = Network!Nothing \/ Heard(c, heard[c])'
  BY SameHeard
<1>2. sound_session'[c].pc = "transcribe" => Heard(c, sound_session[c].got)'
  BY DEF SoundInv, Heard
<1>3. Coming(c) => Coming(c)'
  BY DEF Coming
<1>4. ASSUME NEW first, NEW length, Begun(c, first, length) PROVE Begun(c, first, length)'
  BY <1>4 DEF Begun
<1>5. Starved(c) => Starved(c)'
  BY DEF Starved
<1>6. sound_session'[c].pc = "rest" =>
        /\ speech'[c] \notin {"none", "header"}
        /\ \/ Begun(c, 4, Len(sound[c]))'
           \/ \E length \in 1 .. Len(sound'[c]) : Begun(c, 1, length)'
           \/ Starved(c)'
  BY <1>4, <1>5 DEF SoundInv
<1> QED BY <1>1, <1>2, <1>3, <1>6 DEF SoundInv

\* No connection yet, and no sound.
LEMMA NetBegins == Network!Init => NetInv
<1> SUFFICES ASSUME Network!Init PROVE NetInv
  OBVIOUS
<1> USE DEF Network!Init, Network!NoSession
<1>1. SoundTypes
  BY NetworkAssumption DEF SoundTypes, Sessions, Network!Nothing
<1>2. ASSUME NEW c \in Speakers PROVE SoundInv(c)
  BY DEF SoundInv, Coming
<1> QED BY <1>1, <1>2 DEF NetInv

\* The invariant says what HeardAsSent does.
LEMMA NetInvImplies == NetInv => HeardAsSent
  BY DEF NetInv, SoundInv, Heard, HeardAsSent, Network!HeardAsSent

\* The client's steps that send nothing.
LEMMA ClientQuiet ==
  ASSUME NetInv, NEW c \in Speakers,
         \/ Network!Connect(c) \/ Network!LeaveScope(c)
         \/ Network!EnterRecv(c) \/ Network!LeaveRecv(c)
  PROVE  NetInv'
<1> USE DEF NetInv
<1>1. SoundTypes'
  <2>1. CASE Network!Connect(c)
    BY <2>1, ZenonT(60) DEF SoundTypes, Sessions, Network!Connect
  <2>2. CASE Network!LeaveScope(c)
    BY <2>2 DEF SoundTypes, Network!LeaveScope
  <2>3. CASE Network!EnterRecv(c)
    BY <2>3 DEF SoundTypes, Network!EnterRecv
  <2>4. CASE Network!LeaveRecv(c)
    BY <2>4 DEF SoundTypes, Network!LeaveRecv
  <2> QED BY <2>1, <2>2, <2>3, <2>4
<1>2. ASSUME NEW d \in Speakers, d # c PROVE SoundInv(d)'
  <2>1. /\ sound[d]' = sound[d] /\ owner[d]' = owner[d] /\ speech[d]' = speech[d]
        /\ sd[d]' = sd[d] /\ stream[d]' = stream[d]
        /\ sound_session[d]' = sound_session[d] /\ heard[d]' = heard[d]
    BY <1>2 DEF SoundTypes, Network!Connect, Network!LeaveScope, Network!EnterRecv, Network!LeaveRecv
  <2> QED BY <2>1, SameSound
<1>3. SoundInv(c)'
  <2>1. CASE Network!Connect(c)
    <3>1. /\ sound'[c] = sound[c] /\ heard'[c] = heard[c] /\ stream'[c] = stream[c]
          /\ owner[c] = "connecting" /\ owner'[c] = "scope" /\ speech'[c] = "header"
          /\ sound_session'[c].pc = "backlog"
      BY <2>1 DEF SoundTypes, Sessions, Network!Connect
    <3>2. stream[c] = <<>>
      BY <3>1 DEF SoundInv, Coming
    <3>3. Coming(c)'
      BY <3>1, <3>2 DEF Coming
    <3>4. heard'[c] = Network!Nothing \/ Heard(c, heard[c])'
      BY <3>1, SameHeard
    <3> QED BY <3>1, <3>3, <3>4 DEF SoundInv
  <2>2. CASE Network!LeaveScope(c) \/ Network!EnterRecv(c) \/ Network!LeaveRecv(c)
    <3>1. /\ sound'[c] = sound[c] /\ stream'[c] = stream[c] /\ heard'[c] = heard[c]
          /\ sound_session'[c] = sound_session[c]
          /\ speech'[c] \in {"none", "header"} => speech'[c] = speech[c]
          /\ speech'[c] = "body" => speech[c] = "body" /\ (sd[c] # "open" => sd'[c] # "open")
      BY <2>2 DEF SoundTypes, Network!LeaveScope, Network!EnterRecv, Network!LeaveRecv
    <3>2. owner'[c] # "connecting"
      BY <2>2 DEF SoundTypes, SoundInv, Network!LeaveScope, Network!EnterRecv, Network!LeaveRecv
    <3> QED BY <3>1, <3>2, SameSession
  <2> QED BY <2>1, <2>2
<1> QED BY <1>1, <1>2, <1>3

\* The header is sent, or lost with the socket.
LEMMA SendHeaderKeeps ==
  ASSUME NetInv, NEW c \in Speakers, Network!SendHeader(c)
  PROVE  NetInv'
<1> USE DEF NetInv, Network!SendHeader, Network!Send
<1>1. SoundTypes'
  <2>1. stream[c] \o Network!Header \in Seq(Nat)
    BY HeaderUnits DEF SoundTypes
  <2> QED BY <2>1 DEF SoundTypes
<1>2. ASSUME NEW d \in Speakers, d # c PROVE SoundInv(d)'
  <2>1. /\ sound[d]' = sound[d] /\ owner[d]' = owner[d] /\ speech[d]' = speech[d]
        /\ sd[d]' = sd[d] /\ stream[d]' = stream[d]
        /\ sound_session[d]' = sound_session[d] /\ heard[d]' = heard[d]
    BY <1>2 DEF SoundTypes
  <2> QED BY <2>1, SameSound
<1>3. SoundInv(c)'
  <2>1. /\ speech[c] = "header" /\ speech'[c] = "body" /\ sound_session'[c] = sound_session[c]
        /\ sound'[c] = sound[c] /\ owner'[c] = owner[c] /\ sd'[c] = sd[c] /\ heard'[c] = heard[c]
    BY DEF SoundTypes
  <2>2. heard'[c] = Network!Nothing \/ Heard(c, heard[c])'
    BY <2>1, SameHeard
  <2>3. CASE sound_session[c].pc \in {"none", "backlog", "first"}
    <3>1. stream[c] = <<>>
      BY <2>1, <2>3 DEF SoundInv, Coming
    <3>2. stream'[c] = IF sd[c] = "open" THEN Network!Header ELSE <<>>
      BY <2>3, <3>1, HeaderUnits DEF SoundTypes
    <3>3. Coming(c)'
      BY <2>1, <2>3, <3>2 DEF SoundInv, Coming
    <3>4. owner'[c] # "connecting"
      BY <2>1 DEF SoundInv
    <3> QED BY <2>1, <2>2, <2>3, <3>3, <3>4 DEF SoundInv
  <2>4. CASE sound_session[c].pc \notin {"none", "backlog", "first"}
    <3>1. sound_session[c].pc # "rest" /\ owner'[c] # "connecting"
      BY <2>1 DEF SoundInv
    <3>2. sound_session'[c].pc = "transcribe" => Heard(c, sound_session[c].got)'
      BY <2>1 DEF SoundInv, Heard
    <3> QED BY <2>1, <2>2, <2>4, <3>1, <3>2 DEF SoundInv
  <2> QED BY <2>3, <2>4
<1> QED BY <1>1, <1>2, <1>3

\* The header followed by a sound.
LEMMA HeaderAndSound ==
  ASSUME NEW s \in Seq(Nat)
  PROVE  /\ Network!Header \o s \in Seq(Nat) /\ Len(Network!Header \o s) = 4 + Len(s)
         /\ \A i \in 1 .. 4 : (Network!Header \o s)[i] # 0
         /\ \A i \in 1 .. Len(s) : (Network!Header \o s)[i + 4] = s[i]
<1> DEFINE h == Network!Header
<1>1. h \in Seq(Nat) /\ Len(h) = 4 /\ \A i \in 1 .. 4 : h[i] # 0
  BY HeaderUnits
<1> HIDE DEF h
<1>2. /\ h \o s \in Seq(Nat) /\ Len(h \o s) = 4 + Len(s)
      /\ \A i \in 1 .. 4 + Len(s) : (h \o s)[i] = IF i <= 4 THEN h[i] ELSE s[i - 4]
  <2>1. /\ h \o s \in Seq(Nat) /\ Len(h \o s) = Len(h) + Len(s)
        /\ \A i \in 1 .. Len(h) + Len(s) : (h \o s)[i] = IF i <= Len(h) THEN h[i] ELSE s[i - Len(h)]
    BY <1>1, ConcatProperties, Zenon
  <2> QED BY <1>1, <2>1
<1>3. ASSUME NEW i \in 1 .. 4 PROVE (h \o s)[i] = h[i]
  BY <1>2
<1>4. ASSUME NEW i \in 1 .. Len(s) PROVE (h \o s)[i + 4] = s[i]
  BY <1>2, SMTT(40)
<1> QED BY <1>1, <1>2, <1>3, <1>4 DEF h

\* What follows what is on its way is on its way behind it.
LEMMA FlowSent ==
  ASSUME NEW snd \in Seq(Nat), NEW w \in Seq(Nat), NEW got \in Seq(Nat), NEW first \in Nat,
         Flow(Network!Header \o snd, w, got, first), first + Len(got) + Len(w) = 4
  PROVE  Flow(Network!Header \o snd, w \o snd, got, first)
<1> DEFINE request == Network!Header \o snd
           more == w \o snd
           lw == Len(w)
           lg == Len(got)
           ls == Len(snd)
<1>1. \A i \in 1 .. ls : request[i + 4] = snd[i]
  BY HeaderAndSound
<1>2. /\ more \in Seq(Nat) /\ Len(more) = lw + ls
      /\ \A i \in 1 .. lw + ls : more[i] = IF i <= lw THEN w[i] ELSE snd[i - lw]
  BY ConcatProperties, Zenon
<1>3. lw \in Nat /\ lg \in Nat /\ ls \in Nat /\ first + lg + lw = 4
  OBVIOUS
<1>4. /\ \A i \in 1 .. lg : got[i] = request[first + i]
      /\ \A i \in 1 .. lw : w[i] = request[first + lg + i]
  BY DEF Flow
<1> HIDE DEF request, more, lw, lg, ls
<1>5. ASSUME NEW i \in 1 .. lw + ls PROVE more[i] = request[first + lg + i]
  <2>1. CASE i <= lw
    <3>1. i \in 1 .. lw
      BY <1>3, <2>1
    <3> QED BY <1>2, <1>4, <2>1, <3>1
  <2>2. CASE ~(i <= lw)
    <3>1. i - lw \in 1 .. ls /\ (i - lw) + 4 = first + lg + i
      BY <1>3, <2>2
    <3> QED BY <1>1, <1>2, <2>2, <3>1
  <2> QED BY <2>1, <2>2
<1>6. Flow(request, more, got, first)
  BY <1>2, <1>4, <1>5 DEF Flow, lg
<1> QED BY <1>6 DEF request, more

\* The sound is sent behind it, or lost.
LEMMA SendBodyKeeps ==
  ASSUME NetInv, NEW c \in Speakers, Network!SendBody(c)
  PROVE  NetInv'
<1> USE DEF NetInv
<1>1. CASE Network!Killed(c)
  <2> USE <1>1 DEF Network!Killed
  <2>1. SoundTypes'
    BY DEF SoundTypes
  <2>2. ASSUME NEW d \in Speakers, d # c PROVE SoundInv(d)'
    <3>1. /\ sound[d]' = sound[d] /\ owner[d]' = owner[d] /\ speech[d]' = speech[d]
          /\ sd[d]' = sd[d] /\ stream[d]' = stream[d]
          /\ sound_session[d]' = sound_session[d] /\ heard[d]' = heard[d]
      BY <2>2 DEF SoundTypes
    <3> QED BY <3>1, SameSound
  <2>3. /\ sound'[c] = sound[c] /\ heard'[c] = heard[c] /\ stream'[c] = stream[c]
        /\ owner'[c] = "gone" /\ speech'[c] = "killed" /\ sound_session'[c] = sound_session[c]
    BY DEF SoundTypes
  <2>4. SoundInv(c)'
    BY <2>3, SameSession
  <2> QED BY <2>1, <2>2, <2>4
<1>2. CASE Network!Send(c, "body", sound[c], "receive")
  <2>1. SoundTypes'
    <3>1. stream[c] \o sound[c] \in Seq(Nat)
      BY DEF SoundTypes
    <3> QED BY <1>2, <3>1 DEF SoundTypes, Network!Send
  <2>2. ASSUME NEW d \in Speakers, d # c PROVE SoundInv(d)'
    <3>1. /\ sound[d]' = sound[d] /\ owner[d]' = owner[d] /\ speech[d]' = speech[d]
          /\ sd[d]' = sd[d] /\ stream[d]' = stream[d]
          /\ sound_session[d]' = sound_session[d] /\ heard[d]' = heard[d]
      BY <1>2, <2>2 DEF SoundTypes, Network!Send
    <3> QED BY <3>1, SameSound
  <2>3. /\ speech[c] = "body" /\ speech'[c] = "receive" /\ sound_session'[c] = sound_session[c]
        /\ sound'[c] = sound[c] /\ owner'[c] = owner[c] /\ sd'[c] = sd[c] /\ heard'[c] = heard[c]
        /\ sound[c] \in Seq(Nat) /\ stream[c] \in Seq(Nat)
        /\ sound_session[c].remaining \in Nat /\ sound_session[c].got \in Seq(Nat)
    BY <1>2 DEF SoundTypes, Sessions, Network!Send
  <2>4. stream'[c] = IF sd[c] = "open" /\ sound_session[c].pc # "closed"
                     THEN stream[c] \o sound[c] ELSE stream[c]
    BY <1>2 DEF SoundTypes, Network!Send
  <2>5. heard'[c] = Network!Nothing \/ Heard(c, heard[c])'
    BY <2>3, SameHeard
  <2>6. owner'[c] # "connecting"
    BY <2>3 DEF SoundInv
  <2>7. ASSUME sound_session[c].pc \in {"none", "backlog", "first"} PROVE SoundInv(c)'
    <3>1. Coming(c)'
      BY <2>3, <2>4, <2>7 DEF SoundInv, Coming
    <3> QED BY <2>3, <2>5, <2>6, <2>7, <3>1 DEF SoundInv
  <2>8. ASSUME sound_session[c].pc = "rest" PROVE SoundInv(c)'
    <3>1. ASSUME NEW first \in Nat, NEW length, Begun(c, first, length)
          PROVE  Begun(c, first, length)'
      <4>1. /\ Flow(Network!Header \o sound[c], stream[c], sound_session[c].got, first)
            /\ first + Len(sound_session[c].got) + Len(stream[c]) = 4
        BY <2>3, <3>1 DEF Begun
      <4>2. Flow(Network!Header \o sound[c], stream'[c], sound_session[c].got, first)
        <5>1. Flow(Network!Header \o sound[c], stream[c] \o sound[c], sound_session[c].got, first)
          BY <2>3, <4>1, FlowSent
        <5> QED BY <2>4, <4>1, <5>1
      <4> QED BY <2>3, <3>1, <4>2 DEF Begun
    <3>2. ~Starved(c)
      BY <2>3 DEF Starved
    <3>3. Begun(c, 4, Len(sound[c])) \/ \E length \in 1 .. Len(sound[c]) : Begun(c, 1, length)
      BY <2>8, <3>2 DEF SoundInv
    <3>4. Begun(c, 4, Len(sound[c]))' \/ \E length \in 1 .. Len(sound'[c]) : Begun(c, 1, length)'
      BY <2>3, <3>1, <3>3
    <3> QED BY <2>3, <2>5, <2>6, <2>8, <3>4 DEF SoundInv
  <2>9. ASSUME sound_session[c].pc \notin {"none", "backlog", "first", "rest"} PROVE SoundInv(c)'
    <3>1. sound_session'[c].pc = "transcribe" => Heard(c, sound_session[c].got)'
      BY <2>3 DEF SoundInv, Heard
    <3> QED BY <2>3, <2>5, <2>6, <2>9, <3>1 DEF SoundInv
  <2> QED BY <2>1, <2>2, <2>7, <2>8, <2>9
<1> QED BY <1>1, <1>2 DEF Network!SendBody

\* A session that has read all it wants has the sound, or that stretch.
LEMMA AllRead ==
  ASSUME SoundTypes, NEW c \in Speakers, sound_session[c].remaining = 0,
         \/ Begun(c, 4, Len(sound[c]))
         \/ \E length \in 1 .. Len(sound[c]) : Begun(c, 1, length)
  PROVE  Heard(c, sound_session[c].got)
<1> DEFINE snd == sound[c]
           got == sound_session[c].got
           request == Network!Header \o snd
           ls == Len(snd)
           lg == Len(got)
<1>1. /\ snd \in Seq(Nat) /\ got \in Seq(Nat) /\ ls \in Nat /\ lg \in Nat
      /\ \A i \in 1 .. ls : snd[i] \in Nat
  BY DEF SoundTypes, Sessions
<1>2. /\ request \in Seq(Nat) /\ Len(request) = 4 + ls
      /\ \A i \in 1 .. ls : request[i + 4] = snd[i]
  BY <1>1, HeaderAndSound
<1>3. CASE Begun(c, 4, Len(sound[c]))
  <2>1. lg + 0 = ls /\ \A i \in 1 .. lg : got[i] = request[4 + i]
    BY <1>3 DEF Begun, Flow
  <2> HIDE DEF snd, got, request, ls, lg
  <2>2. lg = ls
    BY <1>1, <2>1
  <2>3. ASSUME NEW i \in 1 .. lg PROVE got[i] = snd[i]
    <3>1. i \in 1 .. ls /\ 4 + i = i + 4
      BY <1>1, <2>2
    <3> QED BY <1>2, <2>1, <3>1
  <2>4. got = snd
    BY <1>1, <2>2, <2>3, SeqEqual DEF lg, ls
  <2> QED BY <2>4 DEF got, snd, Heard
<1>4. ASSUME NEW length \in 1 .. Len(sound[c]), Begun(c, 1, length)
      PROVE  Heard(c, sound_session[c].got)
  <2> DEFINE stretch == SubSeq(request, 2, length + 1)
  <2>1. lg + 0 = length /\ \A i \in 1 .. lg : got[i] = request[1 + i]
    BY <1>4 DEF Begun, Flow
  <2>2. length \in 1 .. ls
    OBVIOUS
  <2> HIDE DEF snd, got, request, ls, lg
  <2>3. \A i \in 2 .. length + 1 : request[i] \in Nat
    <3>1. \A i \in 2 .. length + 1 : i \in 1 .. 4 + ls
      BY <1>1, <2>2
    <3> QED BY <1>2, <3>1
  <2>4. /\ stretch \in Seq(Nat)
        /\ Len(stretch) = IF 2 <= length + 1 THEN length + 1 - 2 + 1 ELSE 0
        /\ \A i \in 1 .. length + 1 - 2 + 1 : stretch[i] = request[2 + i - 1]
    BY <2>2, <2>3, SubSeqProperties
  <2> HIDE DEF stretch
  <2>5. Len(stretch) = lg /\ lg = length
    BY <1>1, <2>1, <2>2, <2>4
  <2>6. ASSUME NEW i \in 1 .. lg PROVE got[i] = stretch[i]
    <3>1. i \in 1 .. length + 1 - 2 + 1 /\ 2 + i - 1 = 1 + i
      BY <2>2, <2>5
    <3> QED BY <2>1, <2>4, <3>1
  <2>7. got = stretch
    BY <1>1, <2>4, <2>5, <2>6, SeqEqual DEF lg
  <2> QED BY <2>2, <2>7 DEF got, stretch, request, snd, ls, Heard
<1> QED BY <1>3, <1>4

\* The steps of a session that receive nothing.
LEMMA ServerQuiet ==
  ASSUME NetInv, NEW c \in Speakers,
         \/ Network!acceptClient(c) \/ Network!Transcribe(c)
         \/ Network!Transcribed(c) \/ Network!Answer(c)
  PROVE  NetInv'
<1> USE DEF NetInv
<1>1. SoundTypes'
  <2>1. CASE Network!acceptClient(c)
    BY <2>1, ZenonT(60) DEF SoundTypes, Sessions, Network!acceptClient
  <2>2. CASE Network!Transcribe(c)
    BY <2>2, ZenonT(60) DEF SoundTypes, Sessions, Network!Transcribe
  <2>3. CASE Network!Transcribed(c)
    <3>1. sound_session[c].got \in Seq(Int)
      <4>1. sound_session[c].got \in Seq(Nat)
        BY DEF SoundTypes, Sessions
      <4> QED BY <4>1
    <3>2. heard' \in [Speakers -> Seq(Int)]
      BY <2>3, <3>1 DEF SoundTypes, Network!Transcribed
    <3>3. [Network!NoSession EXCEPT !.pc = "answer"] =
            [pc |-> "answer", got |-> <<>>, remaining |-> 0]
      BY DEF Network!NoSession
    <3>4. sound_session' \in [Speakers -> Sessions]
      <4>1. [pc |-> "answer", got |-> <<>>, remaining |-> 0] \in Sessions
        BY DEF Sessions
      <4> QED BY <2>3, <3>3, <4>1 DEF SoundTypes, Network!Transcribed
    <3> QED BY <2>3, <3>2, <3>4 DEF SoundTypes, Network!Transcribed
  <2>4. CASE Network!Answer(c)
    <3>1. PICK pc \in {"closed", "terminate"} :
            sound_session' = [sound_session EXCEPT ![c].pc = pc]
      BY <2>4 DEF Network!Answer
    <3> QED BY <2>4, <3>1, ZenonT(60) DEF SoundTypes, Sessions, Network!Answer
  <2> QED BY <2>1, <2>2, <2>3, <2>4
<1>2. ASSUME NEW d \in Speakers, d # c PROVE SoundInv(d)'
  <2>1. /\ sound[d]' = sound[d] /\ owner[d]' = owner[d] /\ speech[d]' = speech[d]
        /\ sd[d]' = sd[d] /\ stream[d]' = stream[d]
        /\ sound_session[d]' = sound_session[d] /\ heard[d]' = heard[d]
    BY <1>2 DEF SoundTypes, Network!acceptClient, Network!Transcribe, Network!Transcribed, Network!Answer
  <2> QED BY <2>1, SameSound
<1>3. SoundInv(c)'
  <2>1. CASE Network!acceptClient(c)
    <3>1. /\ sound_session[c].pc = "backlog" /\ sound_session'[c].pc = "first"
          /\ UNCHANGED <<sound, owner, speech, sd, stream, heard>>
      BY <2>1 DEF SoundTypes, Sessions, Network!acceptClient
    <3>2. Coming(c)'
      BY <3>1 DEF SoundInv, Coming
    <3> QED BY <3>1, <3>2, SameHeard DEF SoundInv
  <2>2. CASE Network!Transcribe(c)
    <3>1. /\ sound_session[c].pc = "rest" /\ sound_session[c].remaining = 0
          /\ sound_session'[c].pc = "transcribe" /\ sound_session'[c].got = sound_session[c].got
          /\ UNCHANGED <<sound, owner, speech, heard>>
      BY <2>2 DEF SoundTypes, Sessions, Network!Transcribe
    <3>2. Heard(c, sound_session[c].got)
      <4>1. \/ Begun(c, 4, Len(sound[c]))
            \/ \E length \in 1 .. Len(sound[c]) : Begun(c, 1, length)
        <5>1. ~(0 > Len(stream[c]))
          BY DEF SoundTypes
        <5> QED BY <3>1, <5>1 DEF SoundInv, Starved
      <4> QED BY <3>1, <4>1, AllRead
    <3>3. Heard(c, sound_session[c].got)'
      BY <3>1, <3>2 DEF Heard
    <3> QED BY <3>1, <3>3, SameHeard DEF SoundInv
  <2>3. CASE Network!Transcribed(c)
    <3>1. /\ sound_session[c].pc = "transcribe" /\ sound_session'[c].pc = "answer"
          /\ heard'[c] = sound_session[c].got /\ UNCHANGED <<sound, owner, speech>>
      BY <2>3 DEF SoundTypes, Network!Transcribed, Network!NoSession
    <3>2. Heard(c, heard[c])'
      BY <3>1 DEF SoundInv, Heard
    <3> QED BY <3>1, <3>2 DEF SoundInv
  <2>4. CASE Network!Answer(c)
    <3>1. /\ sound_session[c].pc = "answer" /\ sound_session'[c].pc \in {"closed", "terminate"}
          /\ UNCHANGED <<sound, owner, speech, heard>>
      BY <2>4 DEF SoundTypes, Sessions, Network!Answer
    <3> QED BY <3>1, SameHeard DEF SoundInv
  <2> QED BY <2>1, <2>2, <2>3, <2>4
<1> QED BY <1>1, <1>2, <1>3

\* A text cut in two.
LEMMA Pieces ==
  ASSUME NEW s \in Seq(Nat), NEW n \in 0 .. Len(s)
  PROVE  /\ SubSeq(s, 1, n) \in Seq(Nat) /\ Len(SubSeq(s, 1, n)) = n
         /\ \A i \in 1 .. n : SubSeq(s, 1, n)[i] = s[i]
         /\ SubSeq(s, n + 1, Len(s)) \in Seq(Nat) /\ Len(SubSeq(s, n + 1, Len(s))) = Len(s) - n
         /\ \A i \in 1 .. Len(s) - n : SubSeq(s, n + 1, Len(s))[i] = s[n + i]
<1> DEFINE l == Len(s)
           front == SubSeq(s, 1, n)
           rest == SubSeq(s, n + 1, l)
<1>1. l \in Nat /\ n \in Nat /\ n <= l /\ \A i \in 1 .. l : s[i] \in Nat
  OBVIOUS
<1> HIDE DEF l
<1>2. /\ \A i \in 1 .. n : s[i] \in Nat
      /\ \A i \in n + 1 .. l : s[i] \in Nat
  BY <1>1
<1>3. /\ front \in Seq(Nat) /\ Len(front) = (IF 1 <= n THEN n - 1 + 1 ELSE 0)
      /\ \A i \in 1 .. n - 1 + 1 : front[i] = s[1 + i - 1]
  BY <1>1, <1>2, SubSeqProperties
<1>4. /\ rest \in Seq(Nat) /\ Len(rest) = (IF n + 1 <= l THEN l - (n + 1) + 1 ELSE 0)
      /\ \A i \in 1 .. l - (n + 1) + 1 : rest[i] = s[n + 1 + i - 1]
  BY <1>1, <1>2, SubSeqProperties
<1> HIDE DEF front, rest
<1>5. Len(front) = n /\ Len(rest) = l - n
  BY <1>1, <1>3, <1>4
<1>6. ASSUME NEW i \in 1 .. n PROVE front[i] = s[i]
  <2>1. i \in 1 .. n - 1 + 1 /\ 1 + i - 1 = i
    BY <1>1
  <2> QED BY <1>3, <2>1
<1>7. ASSUME NEW i \in 1 .. l - n PROVE rest[i] = s[n + i]
  <2>1. i \in 1 .. l - (n + 1) + 1 /\ n + 1 + i - 1 = n + i
    BY <1>1
  <2> QED BY <1>4, <2>1
<1> QED BY <1>3, <1>4, <1>5, <1>6, <1>7 DEF front, rest, l

\* recv leaves the rest of what came.
LEMMA ReceivedRest ==
  ASSUME SoundTypes, NEW c \in Speakers, NEW n \in 0 .. Len(stream[c]), Network!Received(c, n)
  PROVE  /\ SubSeq(stream[c], 1, n) \in Seq(Nat) /\ Len(SubSeq(stream[c], 1, n)) = n
         /\ \A i \in 1 .. n : SubSeq(stream[c], 1, n)[i] = stream[c][i]
         /\ stream' = [stream EXCEPT ![c] = SubSeq(stream[c], n + 1, Len(stream[c]))]
         /\ stream'[c] = SubSeq(stream[c], n + 1, Len(stream[c]))
         /\ stream'[c] \in Seq(Nat) /\ Len(stream'[c]) = Len(stream[c]) - n
         /\ \A i \in 1 .. Len(stream[c]) - n : stream'[c][i] = stream[c][n + i]
         /\ UNCHANGED <<sound, owner, speech, sd, heard>>
<1>1. stream[c] \in Seq(Nat)
  BY DEF SoundTypes
<1>2. stream' = [stream EXCEPT ![c] = SubSeq(stream[c], n + 1, Len(stream[c]))]
  BY DEF Network!Received, SoundTypes
<1>3. stream'[c] = SubSeq(stream[c], n + 1, Len(stream[c]))
  BY <1>2 DEF SoundTypes
<1>4. UNCHANGED <<sound, owner, speech, sd, heard>>
  BY DEF Network!Received
<1>5. /\ SubSeq(stream[c], 1, n) \in Seq(Nat) /\ Len(SubSeq(stream[c], 1, n)) = n
      /\ \A i \in 1 .. n : SubSeq(stream[c], 1, n)[i] = stream[c][i]
      /\ SubSeq(stream[c], n + 1, Len(stream[c])) \in Seq(Nat)
      /\ Len(SubSeq(stream[c], n + 1, Len(stream[c]))) = Len(stream[c]) - n
      /\ \A i \in 1 .. Len(stream[c]) - n :
           SubSeq(stream[c], n + 1, Len(stream[c]))[i] = stream[c][n + i]
  BY <1>1, Pieces
<1> QED BY <1>2, <1>3, <1>4, <1>5

\* Up to its first zero byte, a request is what came.
LEMMA RequestBegins ==
  ASSUME NEW piece \in Seq(Nat)
  PROVE  LET r == Network!Request(piece)
         IN  /\ r \in Seq(Nat) /\ Len(r) <= Len(piece)
             /\ \A i \in 1 .. Len(r) : r[i] = piece[i] /\ piece[i] # 0
             /\ Len(r) < Len(piece) => piece[Len(r) + 1] = 0
<1> DEFINE ends == {i \in 1 .. Len(piece) : piece[i] = 0}
           first == CHOOSE i \in ends : \A j \in ends : i <= j
<1>1. CASE ends = {}
  <2>1. Network!Request(piece) = piece
    BY <1>1 DEF Network!Request
  <2> QED BY <1>1, <2>1
<1>2. CASE ends # {}
  <2>1. PICK n \in ends : \A j \in ends : n <= j
    <3>1. ends \subseteq 0 .. Len(piece) /\ Len(piece) \in Nat
      OBVIOUS
    <3> HIDE DEF ends
    <3> QED BY <1>2, <3>1, LeastNumber
  <2>2. first \in ends /\ \A j \in ends : first <= j
    BY <2>1
  <2>3. Network!Request(piece) = SubSeq(piece, 1, first - 1)
    BY <1>2 DEF Network!Request
  <2> HIDE DEF first
  <2>4. first \in 1 .. Len(piece) /\ piece[first] = 0 /\ \A j \in 1 .. first - 1 : piece[j] # 0
    BY <2>2, SMTT(40)
  <2>5. /\ SubSeq(piece, 1, first - 1) \in Seq(Nat) /\ Len(SubSeq(piece, 1, first - 1)) = first - 1
        /\ \A i \in 1 .. first - 1 : SubSeq(piece, 1, first - 1)[i] = piece[i]
    <3>1. first - 1 \in 0 .. Len(piece)
      BY <2>4
    <3> QED BY <3>1, Pieces, SMTT(40)
  <2> QED BY <2>3, <2>4, <2>5, SMTT(40)
<1> QED BY <1>1, <1>2

\* What the first recv makes of a piece that holds a value: units of the request
\* behind the header, or of the header if that was cut; and what is left follows,
\* or is too short for what a zero byte hid.
Split(snd, w, taken, left, first) ==
  /\ taken \in Seq(Nat) /\ first + Len(taken) <= Len(w)
  /\ first = 1 => Len(taken) = 2
  /\ \/ /\ first + Len(taken) + Len(left) = Len(w)
        /\ Flow(Network!Header \o snd, left, taken, first)
     \/ first = 4 /\ w = Network!Header \o snd /\ Len(snd) - Len(taken) > Len(left)

\* It does, whatever is sent first.
LEMMA FirstPiece ==
  ASSUME NEW snd \in Seq(Nat), NEW w \in {Network!Header, Network!Header \o snd},
         NEW n \in 3 .. Len(w), NEW first, first = IF n < 4 THEN 1 ELSE 4
  PROVE  LET request == Network!Request(SubSeq(w, 1, n))
         IN  Split(snd, w, SubSeq(request, first + 1, Len(request)), SubSeq(w, n + 1, Len(w)), first)
<1> DEFINE request == Network!Request(SubSeq(w, 1, n))
           taken == SubSeq(request, first + 1, Len(request))
           left == SubSeq(w, n + 1, Len(w))
<1> SUFFICES Split(snd, w, taken, left, first)
  OBVIOUS
<1> DEFINE full == Network!Header \o snd
           piece == SubSeq(w, 1, n)
           lw == Len(w)
           ls == Len(snd)
           lr == Len(request)
           ld == Len(taken)
           ll == Len(left)
<1>1. /\ w \in Seq(Nat) /\ lw \in Nat /\ ls \in Nat
      /\ \A i \in 1 .. 4 : w[i] # 0
      /\ lw = 4 \/ (lw = 4 + ls /\ w = full)
      /\ \A i \in 1 .. lw : full[i] = w[i]
  <2>1. ls \in Nat
    OBVIOUS
  <2>2. /\ full \in Seq(Nat) /\ Len(full) = 4 + ls /\ \A i \in 1 .. 4 : full[i] # 0
    BY HeaderAndSound
  <2>3. CASE w = Network!Header
    <3>1. w \in Seq(Nat) /\ lw = 4 /\ \A i \in 1 .. 4 : w[i] # 0
      BY <2>3, HeaderUnits
    <3>2. /\ Len(w \o snd) = lw + ls
          /\ \A i \in 1 .. lw + ls : (w \o snd)[i] = IF i <= lw THEN w[i] ELSE snd[i - lw]
      BY <3>1, ConcatProperties, Zenon
    <3> HIDE DEF ls
    <3>3. \A i \in 1 .. 4 : (w \o snd)[i] = w[i]
      <4> SUFFICES ASSUME NEW i \in 1 .. 4 PROVE (w \o snd)[i] = w[i]
        OBVIOUS
      <4> HIDE DEF lw
      <4>1. lw = 4
        BY <3>1
      <4>2. i \in 1 .. lw + ls /\ i <= lw
        BY <2>1, <4>1
      <4> QED BY <3>2, <4>2, Zenon
    <3>4. \A i \in 1 .. lw : full[i] = w[i]
      BY <2>3, <3>1, <3>3
    <3> HIDE DEF full, lw
    <3> QED BY <2>1, <3>1, <3>4, Zenon
  <2>4. CASE w = full
    <3> HIDE DEF full, ls
    <3>1. lw = 4 + ls
      BY <2>2, <2>4
    <3> HIDE DEF lw
    <3>2. lw \in Nat
      BY <2>1, <3>1
    <3>3. w \in Seq(Nat) /\ \A i \in 1 .. 4 : w[i] # 0
      BY <2>2, <2>4
    <3>4. \A i \in 1 .. lw : full[i] = w[i]
      BY <2>4
    <3> QED BY <2>1, <2>4, <3>1, <3>2, <3>3, <3>4, Zenon
  <2> QED BY <2>3, <2>4
<1>2. n \in Int /\ 3 <= n /\ n <= lw
  BY <1>1
<1>3. piece \in Seq(Nat) /\ Len(piece) = n /\ \A i \in 1 .. n : piece[i] = w[i]
  <2>1. n \in 0 .. Len(w)
    BY <1>1, <1>2
  <2> QED BY <1>1, <2>1, Pieces
<1>4. left \in Seq(Nat) /\ ll = lw - n /\ \A i \in 1 .. lw - n : left[i] = w[n + i]
  <2>1. n \in 0 .. Len(w)
    BY <1>1, <1>2
  <2> QED BY <1>1, <2>1, Pieces
<1> HIDE DEF piece, left, full, lw, ls, ll
<1>5. /\ request \in Seq(Nat) /\ lr \in Nat /\ lr <= n
      /\ \A i \in 1 .. lr : request[i] = w[i]
      /\ lr < n => w[lr + 1] = 0
  <2>1. /\ request \in Seq(Nat) /\ lr <= Len(piece)
        /\ \A i \in 1 .. lr : request[i] = piece[i]
        /\ lr < Len(piece) => piece[lr + 1] = 0
    BY <1>3, RequestBegins DEF piece
  <2> HIDE DEF request
  <2>2. lr \in Nat
    BY <2>1
  <2> HIDE DEF lr
  <2>3. \A i \in 1 .. lr : i \in 1 .. n
    BY <1>2, <1>3, <2>1, <2>2
  <2>4. lr < n => lr + 1 \in 1 .. n
    BY <1>2, <2>2
  <2> QED BY <1>3, <2>1, <2>2, <2>3, <2>4
<1> HIDE DEF request
\* No zero byte is in the header.
<1>6. /\ first \in {1, 4} /\ first <= lr
      /\ lr < n => first = 4 /\ 4 < lw /\ 4 < n
      /\ first = 1 => lr = 3 /\ n = 3
  <2> HIDE DEF lr
  <2>1. lr < n => lr + 1 \notin 1 .. 4
    BY <1>1, <1>5
  <2> QED BY <1>1, <1>2, <1>5, <2>1
<1>7. taken \in Seq(Nat) /\ ld = lr - first /\ \A i \in 1 .. lr - first : taken[i] = request[i + first]
  <2>1. request \in Seq(Nat) /\ lr \in Nat /\ lr >= first /\ first \in Nat
    BY <1>5, <1>6
  <2> HIDE DEF lr
  <2>2. \A i \in first + 1 .. lr : request[i] \in Nat
    <3>1. \A i \in 1 .. lr : request[i] \in Nat
      BY <2>1, ElementOfSeq, Zenon DEF lr
    <3>2. \A i \in first + 1 .. lr : i \in 1 .. lr
      BY <2>1
    <3> QED BY <3>1, <3>2
  <2>3. taken = SubSeq(request, first + 1, lr)
    BY DEF lr
  <2> HIDE DEF taken
  <2>4. /\ taken \in Seq(Nat) /\ ld = IF first + 1 <= lr THEN lr - (first + 1) + 1 ELSE 0
        /\ \A i \in 1 .. lr - (first + 1) + 1 : taken[i] = request[first + 1 + i - 1]
    BY <2>1, <2>2, <2>3, SubSeqProperties
  <2> HIDE DEF ld
  <2>5. ld = lr - first
    BY <2>1, <2>4
  <2>6. ASSUME NEW i \in 1 .. lr - first PROVE taken[i] = request[i + first]
    <3>1. i \in 1 .. lr - (first + 1) + 1 /\ first + 1 + i - 1 = i + first
      BY <2>1
    <3> QED BY <2>4, <3>1
  <2> QED BY <2>4, <2>5, <2>6
<1> HIDE DEF taken, lr, ld
<1>8. ASSUME NEW i \in 1 .. ld PROVE taken[i] = full[first + i]
  <2>1. i \in 1 .. lr - first /\ i + first \in 1 .. lr /\ i + first \in 1 .. lw /\ i + first = first + i
    BY <1>1, <1>2, <1>5, <1>6, <1>7
  <2>2. taken[i] = request[i + first]
    BY <1>7, <2>1
  <2>3. request[i + first] = w[i + first]
    BY <1>5, <2>1
  <2>4. full[i + first] = w[i + first]
    BY <1>1, <2>1
  <2> QED BY <2>1, <2>2, <2>3, <2>4
<1>9. first + ld <= lw /\ (first = 1 => ld = 2)
  BY <1>1, <1>2, <1>5, <1>6, <1>7
<1>10. CASE lr = n
  <2>1. first + ld + ll = lw
    BY <1>1, <1>2, <1>4, <1>6, <1>7, <1>10
  <2>2. ASSUME NEW i \in 1 .. ll PROVE left[i] = full[first + ld + i]
    <3>1. i \in 1 .. lw - n /\ n + i = first + ld + i /\ n + i \in 1 .. lw
      BY <1>1, <1>2, <1>4, <1>6, <1>7, <1>10
    <3> QED BY <3>1, <1>1, <1>4
  <2>3. Flow(full, left, taken, first)
    BY <1>8, <2>2 DEF Flow, ld, ll
  <2> QED BY <1>7, <1>9, <2>1, <2>3 DEF Split, full, lw, ld, ll
<1>11. CASE lr < n
  <2>1. ls - ld > ll /\ first = 4 /\ w = full
    BY <1>1, <1>2, <1>4, <1>5, <1>6, <1>7, <1>11
  <2> QED BY <1>7, <1>9, <2>1 DEF Split, full, lw, ls, ld, ll
<1> QED BY <1>2, <1>5, <1>10, <1>11

\* What becomes of a session at the first recv.
LEMMA FirstSession ==
  ASSUME SoundTypes, NEW c \in Speakers, Network!FirstRecv(c)
  PROVE  \E n \in 0 .. Len(stream[c]), length \in 0 .. Len(sound[c]), s \in Sessions :
           /\ Network!Received(c, n)
           /\ sound_session' = [sound_session EXCEPT ![c] = s]
           /\ \/ s.pc \in {"answer", "terminate", "overrun"} /\ s.remaining = sound_session[c].remaining
              \/ /\ n >= 3 /\ s.pc = "rest" /\ s.remaining \in Nat
                 /\ Len(s.got) + s.remaining = length
                 /\ LET request == Network!Request(SubSeq(stream[c], 1, n))
                        first == IF n < 4 THEN 1 ELSE 4
                    IN  s.got = SubSeq(request, first + 1, Len(request))
                 /\ n >= 4 => length = Len(sound[c])
<1> DEFINE Made(n, length) ==
             LET request == Network!Request(SubSeq(stream[c], 1, n))
                 start == IF n < Len(Network!Header) THEN 2 ELSE Len(Network!Header) + 1
                 taken == SubSeq(request, start, Len(request))
             IN  IF n < 2 THEN [sound_session[c] EXCEPT !.pc = "answer"]
                 ELSE IF n = 2 THEN [sound_session[c] EXCEPT !.pc = "terminate"]
                 ELSE IF Len(taken) > length
                 THEN [sound_session[c] EXCEPT !.pc = "overrun", !.got = taken]
                 ELSE [pc |-> "rest", got |-> taken, remaining |-> length - Len(taken)]
<1>1. PICK n \in 0 .. Len(stream[c]), length \in 0 .. Len(sound[c]) :
        /\ Network!Received(c, n)
        /\ n # 3 => length = Len(sound[c])
        /\ sound_session' = [sound_session EXCEPT ![c] = Made(n, length)]
  BY ZenonT(40) DEF Network!FirstRecv, SoundTypes
<1> DEFINE request == Network!Request(SubSeq(stream[c], 1, n))
           first == IF n < 4 THEN 1 ELSE 4
           taken == SubSeq(request, first + 1, Len(request))
           s == Made(n, length)
<1>2. n \in Nat /\ length \in Nat /\ sound_session[c] \in Sessions
  BY <1>1 DEF SoundTypes
<1>3. request \in Seq(Nat)
  <2>1. SubSeq(stream[c], 1, n) \in Seq(Nat)
    BY <1>1, ReceivedRest
  <2> QED BY <2>1, RequestBegins
<1>4. (IF n < Len(Network!Header) THEN 2 ELSE Len(Network!Header) + 1) = first + 1
  BY <1>2, HeaderUnits
<1> HIDE DEF request
<1>5. taken \in Seq(Nat) /\ Len(taken) \in Nat
  <2>1. first \in {1, 4}
    OBVIOUS
  <2> HIDE DEF first
  <2>2. taken \in Seq(Nat)
    BY <1>3, <2>1
  <2> HIDE DEF taken
  <2> QED BY <2>2
<1>6. s = IF n < 2 THEN [sound_session[c] EXCEPT !.pc = "answer"]
          ELSE IF n = 2 THEN [sound_session[c] EXCEPT !.pc = "terminate"]
          ELSE IF Len(taken) > length
          THEN [sound_session[c] EXCEPT !.pc = "overrun", !.got = taken]
          ELSE [pc |-> "rest", got |-> taken, remaining |-> length - Len(taken)]
  BY <1>4, Zenon DEF request
<1> HIDE DEF taken, first, Made
<1>7. /\ s \in Sessions
      /\ \/ s.pc \in {"answer", "terminate", "overrun"} /\ s.remaining = sound_session[c].remaining
         \/ /\ n >= 3 /\ s.pc = "rest" /\ s.got = taken /\ s.remaining \in Nat
            /\ Len(taken) + s.remaining = length
  <2> HIDE DEF s
  <2>1. CASE n < 2
    BY <1>2, <1>6, <2>1 DEF Sessions
  <2>2. CASE n = 2
    BY <1>2, <1>6, <2>2 DEF Sessions
  <2>3. CASE n > 2 /\ Len(taken) > length
    <3>1. s = [sound_session[c] EXCEPT !.pc = "overrun", !.got = taken]
      BY <1>2, <1>6, <2>3
    <3> QED BY <1>2, <1>5, <3>1 DEF Sessions
  <2>4. CASE n > 2 /\ ~(Len(taken) > length)
    <3> DEFINE rem == length - Len(taken)
    <3>1. s = [pc |-> "rest", got |-> taken, remaining |-> rem]
      BY <1>2, <1>6, <2>4
    <3>2. rem \in Nat /\ Len(taken) + rem = length /\ n >= 3
      <4> DEFINE ld == Len(taken)
      <4>1. ld \in Nat /\ ~(ld > length)
        BY <1>5, <2>4
      <4> HIDE DEF ld
      <4>2. length - ld \in Nat /\ ld + (length - ld) = length
        BY <1>2, <4>1
      <4> QED BY <1>2, <2>4, <4>2 DEF ld
    <3> HIDE DEF rem
    <3> QED BY <1>5, <3>1, <3>2 DEF Sessions
  <2> QED BY <1>2, <2>1, <2>2, <2>3, <2>4
<1>8. n >= 4 => length = Len(sound[c])
  BY <1>1, <1>2
<1>9. taken = SubSeq(Network!Request(SubSeq(stream[c], 1, n)),
                    (IF n < 4 THEN 1 ELSE 4) + 1, Len(Network!Request(SubSeq(stream[c], 1, n))))
  BY DEF taken, first, request
<1> HIDE DEF s
<1> WITNESS n \in 0 .. Len(stream[c]), length \in 0 .. Len(sound[c])
<1>10. sound_session' = [sound_session EXCEPT ![c] = s]
  BY <1>1 DEF s
<1> QED BY <1>1, <1>7, <1>8, <1>9, <1>10

\* The first recv: the header came, or a value at least, or the session is lost;
\* behind the header, all that came or what is before a zero byte.
LEMMA FirstRecvKeeps ==
  ASSUME NetInv, NEW c \in Speakers, Network!FirstRecv(c)
  PROVE  NetInv'
<1> USE DEF NetInv
<1>1. PICK n \in 0 .. Len(stream[c]), length \in 0 .. Len(sound[c]), s \in Sessions :
        /\ Network!Received(c, n)
        /\ sound_session' = [sound_session EXCEPT ![c] = s]
        /\ \/ s.pc \in {"answer", "terminate", "overrun"} /\ s.remaining = sound_session[c].remaining
           \/ /\ n >= 3 /\ s.pc = "rest" /\ s.remaining \in Nat
              /\ Len(s.got) + s.remaining = length
              /\ LET request == Network!Request(SubSeq(stream[c], 1, n))
                     first == IF n < 4 THEN 1 ELSE 4
                 IN  s.got = SubSeq(request, first + 1, Len(request))
              /\ n >= 4 => length = Len(sound[c])
  BY FirstSession
<1>2. sound_session[c].pc = "first" /\ Coming(c)
  BY DEF Network!FirstRecv, SoundInv
<1>3. /\ stream' = [stream EXCEPT ![c] = SubSeq(stream[c], n + 1, Len(stream[c]))]
      /\ stream'[c] = SubSeq(stream[c], n + 1, Len(stream[c])) /\ stream'[c] \in Seq(Nat)
      /\ Len(stream'[c]) = Len(stream[c]) - n
      /\ UNCHANGED <<sound, owner, speech, sd, heard>>
  BY <1>1, ReceivedRest
<1>4. /\ sound[c] \in Seq(Nat) /\ stream[c] \in Seq(Nat)
      /\ Len(sound[c]) \in Nat /\ Len(stream[c]) \in Nat
  BY DEF SoundTypes
<1>5. SoundTypes' /\ sound_session'[c] = s
  <2>1. stream' \in [Speakers -> Seq(Nat)]
    BY <1>3 DEF SoundTypes
  <2>2. sound_session' \in [Speakers -> Sessions] /\ sound_session'[c] = s
    BY <1>1 DEF SoundTypes
  <2> QED BY <1>3, <2>1, <2>2 DEF SoundTypes
<1>6. ASSUME NEW d \in Speakers, d # c PROVE SoundInv(d)'
  <2>1. /\ sound[d]' = sound[d] /\ owner[d]' = owner[d] /\ speech[d]' = speech[d]
        /\ sd[d]' = sd[d] /\ stream[d]' = stream[d]
        /\ sound_session[d]' = sound_session[d] /\ heard[d]' = heard[d]
    BY <1>1, <1>3, <1>6 DEF SoundTypes
  <2> QED BY <2>1, SameSound
<1>7. owner'[c] # "connecting" /\ (heard'[c] = Network!Nothing \/ Heard(c, heard[c])')
  BY <1>2, <1>3, SameHeard DEF SoundInv
<1>8. SoundInv(c)'
  <2>1. CASE s.pc \in {"answer", "terminate", "overrun"}
    BY <2>1, <1>5, <1>7 DEF SoundInv
  <2>2. CASE ~(s.pc \in {"answer", "terminate", "overrun"})
    <3> DEFINE first == IF n < 4 THEN 1 ELSE 4
               request == Network!Request(SubSeq(stream[c], 1, n))
    <3>1. /\ n >= 3 /\ s.pc = "rest" /\ s.remaining \in Nat
          /\ Len(s.got) + s.remaining = length
          /\ s.got = SubSeq(request, first + 1, Len(request))
          /\ n >= 4 => length = Len(sound[c])
      BY <1>1, <2>2
    <3>2. n \in 3 .. Len(stream[c]) /\ stream[c] # <<>>
      BY <1>4, <3>1
    <3>3. stream[c] \in {Network!Header, Network!Header \o sound[c]} /\ speech[c] \notin {"none", "header"}
      BY <1>2, <3>2 DEF Coming
    <3>4. Split(sound[c], stream[c], s.got, stream'[c], first)
      <4> HIDE DEF first, request
      <4>1. first = IF n < 4 THEN 1 ELSE 4
        BY DEF first
      <4>2. request = Network!Request(SubSeq(stream[c], 1, n))
        BY DEF request
      <4> QED BY <1>3, <1>4, <3>1, <3>2, <3>3, <4>1, <4>2, FirstPiece
    <3>5. first \in {1, 4} /\ (first = 4 => length = Len(sound[c]))
      BY <3>1, <3>2
    <3> HIDE DEF first, request
    <3>6. /\ s.got \in Seq(Nat) /\ Len(s.got) \in Nat /\ first + Len(s.got) <= Len(stream[c])
          /\ first = 1 => Len(s.got) = 2
      BY <3>4 DEF Split
    <3>7. length \in Nat /\ length <= Len(sound[c]) /\ first + length <= 4 + Len(sound[c])
          /\ (first = 1 => length \in 1 .. Len(sound[c]))
      <4> DEFINE ls == Len(sound[c])
                 lg == Len(s.got)
                 rem == s.remaining
      <4>1. length \in 0 .. ls /\ ls \in Nat /\ rem \in Nat /\ lg + rem = length
            /\ (first = 1 => lg = 2) /\ first \in {1, 4}
        BY <1>4, <3>1, <3>5, <3>6
      <4> HIDE DEF ls, lg, rem
      <4> QED BY <4>1 DEF ls
    <3>8. speech[c] = "body" => stream[c] = Network!Header
      BY <1>2, <3>2 DEF Coming
    <3>9. ASSUME first + Len(s.got) + Len(stream'[c]) = Len(stream[c]),
                 Flow(Network!Header \o sound[c], stream'[c], s.got, first)
          PROVE  Begun(c, first, length)'
      <4>1. speech'[c] = "body" => first + Len(s.got) + Len(stream'[c]) = 4
        BY <1>3, <3>8, <3>9, HeaderUnits
      <4> QED BY <1>3, <1>5, <3>1, <3>7, <3>9, <4>1 DEF Begun
    <3>10. ASSUME first = 4, stream[c] = Network!Header \o sound[c],
                  Len(sound[c]) - Len(s.got) > Len(stream'[c])
           PROVE  Starved(c)' \/ Begun(c, 4, Len(sound[c]))'
      <4>1. CASE speech[c] = "body"
        <5>1. Len(stream[c]) = 4 /\ Len(stream[c]) = 4 + Len(sound[c])
          BY <1>4, <3>8, <3>10, <4>1, HeaderUnits, HeaderAndSound
        <5> DEFINE ls == Len(sound[c])
                   lg == Len(s.got)
                   lw == Len(stream[c])
        <5>2. ls \in Nat /\ lg \in Nat /\ lw = 4 /\ lw = 4 + ls /\ n \in 3 .. lw
              /\ ls - lg > lw - n
          BY <1>3, <1>4, <3>2, <3>6, <3>10, <5>1
        <5> HIDE DEF ls, lg, lw
        <5>3. FALSE
          BY <5>2
        <5> QED BY <5>3
      <4>2. CASE speech[c] # "body"
        <5> DEFINE ls == Len(sound[c])
                   lg == Len(s.got)
                   rem == s.remaining
        <5>1. rem = ls - lg
          <6>1. ls \in Nat /\ lg \in Nat /\ rem \in Nat /\ lg + rem = ls
            BY <1>4, <3>1, <3>5, <3>6, <3>10
          <6> HIDE DEF ls, lg, rem
          <6> QED BY <6>1
        <5>2. s.remaining > Len(stream'[c])
          BY <3>10, <5>1
        <5> QED BY <1>3, <1>5, <4>2, <5>2 DEF Starved
      <4> QED BY <4>1, <4>2
    <3>11. Begun(c, first, length)' \/ Starved(c)' \/ Begun(c, 4, Len(sound[c]))'
      BY <3>4, <3>9, <3>10 DEF Split
    <3>12. \/ Begun(c, 4, Len(sound[c]))'
           \/ \E l \in 1 .. Len(sound'[c]) : Begun(c, 1, l)'
           \/ Starved(c)'
      <4>1. ASSUME Begun(c, first, length)'
            PROVE  \/ Begun(c, 4, Len(sound[c]))'
                   \/ \E l \in 1 .. Len(sound'[c]) : Begun(c, 1, l)'
        <5>1. CASE first = 4
          <6>1. length = Len(sound'[c])
            BY <1>3, <3>5, <5>1
          <6> QED BY <4>1, <5>1, <6>1
        <5>2. CASE first = 1
          <6>1. length \in 1 .. Len(sound'[c])
            BY <1>3, <3>7, <5>2
          <6> QED BY <4>1, <5>2, <6>1
        <5> QED BY <3>5, <5>1, <5>2
      <4> QED BY <3>11, <4>1
    <3> QED BY <1>3, <1>5, <1>7, <3>1, <3>3, <3>12 DEF SoundInv
  <2> QED BY <2>1, <2>2
<1> QED BY <1>5, <1>6, <1>8

\* Units that are read are read in order.
LEMMA FlowOn ==
  ASSUME NEW request, NEW w \in Seq(Nat), NEW got \in Seq(Nat), NEW first \in Nat,
         NEW n \in 0 .. Len(w), Flow(request, w, got, first)
  PROVE  /\ got \o SubSeq(w, 1, n) \in Seq(Nat)
         /\ Len(got \o SubSeq(w, 1, n)) = Len(got) + n
         /\ Len(SubSeq(w, n + 1, Len(w))) = Len(w) - n
         /\ Flow(request, SubSeq(w, n + 1, Len(w)), got \o SubSeq(w, 1, n), first)
<1> DEFINE piece == SubSeq(w, 1, n)
           left == SubSeq(w, n + 1, Len(w))
           more == got \o piece
           lg == Len(got)
           lw == Len(w)
<1>1. lg \in Nat /\ lw \in Nat /\ n \in 0 .. lw
  OBVIOUS
<1>2. /\ piece \in Seq(Nat) /\ Len(piece) = n /\ \A i \in 1 .. n : piece[i] = w[i]
      /\ left \in Seq(Nat) /\ Len(left) = lw - n /\ \A i \in 1 .. lw - n : left[i] = w[n + i]
  BY Pieces
<1>3. /\ \A i \in 1 .. lg : got[i] = request[first + i]
      /\ \A i \in 1 .. lw : w[i] = request[first + lg + i]
  BY DEF Flow
<1> HIDE DEF piece, left
<1>4. /\ more \in Seq(Nat) /\ Len(more) = lg + n
      /\ \A i \in 1 .. lg + n : more[i] = IF i <= lg THEN got[i] ELSE piece[i - lg]
  <2>1. /\ more \in Seq(Nat) /\ Len(more) = lg + Len(piece)
        /\ \A i \in 1 .. lg + Len(piece) : more[i] = IF i <= lg THEN got[i] ELSE piece[i - lg]
    BY <1>2, ConcatProperties, ZenonT(40)
  <2> HIDE DEF more, lg
  <2> QED BY <1>2, <2>1
<1> HIDE DEF more, lg, lw
<1>5. ASSUME NEW i \in 1 .. lg + n PROVE more[i] = request[first + i]
  <2>1. CASE i <= lg
    <3>1. i \in 1 .. lg
      BY <1>1, <2>1
    <3> QED BY <1>3, <1>4, <2>1, <3>1
  <2>2. CASE ~(i <= lg)
    <3>1. i - lg \in 1 .. n /\ i - lg \in 1 .. lw /\ first + lg + (i - lg) = first + i
      BY <1>1, <2>2
    <3>2. more[i] = piece[i - lg]
      BY <1>4, <2>2
    <3>3. piece[i - lg] = w[i - lg]
      BY <1>2, <3>1
    <3>4. w[i - lg] = request[first + lg + (i - lg)]
      BY <1>3, <3>1
    <3> QED BY <3>1, <3>2, <3>3, <3>4
  <2> QED BY <2>1, <2>2
<1>6. ASSUME NEW i \in 1 .. lw - n PROVE left[i] = request[first + (lg + n) + i]
  <2>1. n + i \in 1 .. lw /\ first + lg + (n + i) = first + (lg + n) + i
    BY <1>1
  <2> QED BY <1>2, <1>3, <2>1
<1>7. Flow(request, left, more, first)
  BY <1>2, <1>4, <1>5, <1>6 DEF Flow
<1> QED BY <1>2, <1>4, <1>7 DEF more, piece, left, lg, lw

\* A further recv: the session has more of what it reads, or the client is gone.
LEMMA RestRecvKeeps ==
  ASSUME NetInv, NEW c \in Speakers, Network!RestRecv(c)
  PROVE  NetInv'
<1> USE DEF NetInv
<1> DEFINE s == sound_session[c]
           w == stream[c]
           got == s.got
           rem == s.remaining
<1>1. PICK n \in 0 .. Len(w) :
        /\ Network!Received(c, n)
        /\ sound_session' = [sound_session EXCEPT ![c] = Network!Rest(s, SubSeq(w, 1, n))]
  BY DEF Network!RestRecv, SoundTypes
<1> DEFINE piece == SubSeq(w, 1, n)
           left == SubSeq(w, n + 1, Len(w))
           new == Network!Rest(s, piece)
<1>2. /\ s.pc = "rest" /\ rem > 0 /\ speech[c] \notin {"none", "header"} /\ owner[c] # "connecting"
      /\ \/ Begun(c, 4, Len(sound[c]))
         \/ \E length \in 1 .. Len(sound[c]) : Begun(c, 1, length)
         \/ Starved(c)
  BY DEF Network!RestRecv, SoundInv
<1>3. /\ piece \in Seq(Nat) /\ Len(piece) = n
      /\ stream' = [stream EXCEPT ![c] = left] /\ stream'[c] = left
      /\ left \in Seq(Nat) /\ Len(left) = Len(w) - n
      /\ UNCHANGED <<sound, owner, speech, sd, heard>>
  <2>1. stream'[c] = left
    BY <1>1, ReceivedRest
  <2>2. /\ piece \in Seq(Nat) /\ Len(piece) = n
        /\ stream' = [stream EXCEPT ![c] = left]
        /\ stream'[c] \in Seq(Nat) /\ Len(stream'[c]) = Len(w) - n
        /\ UNCHANGED <<sound, owner, speech, sd, heard>>
    BY <1>1, ReceivedRest
  <2> HIDE DEF piece, left
  <2> QED BY <2>1, <2>2
<1>4. /\ w \in Seq(Nat) /\ got \in Seq(Nat) /\ rem \in Nat /\ s \in Sessions
      /\ Len(w) \in Nat /\ Len(got) \in Nat
  BY DEF SoundTypes, Sessions
<1> HIDE DEF piece, left
<1>5. ASSUME NEW d \in Speakers, d # c PROVE SoundInv(d)'
  <2>1. /\ sound[d]' = sound[d] /\ owner[d]' = owner[d] /\ speech[d]' = speech[d]
        /\ sd[d]' = sd[d] /\ stream[d]' = stream[d]
        /\ sound_session[d]' = sound_session[d] /\ heard[d]' = heard[d]
    BY <1>1, <1>3, <1>5 DEF SoundTypes
  <2> QED BY <2>1, SameSound
<1>6. ASSUME new \in Sessions PROVE SoundTypes' /\ sound_session'[c] = new
  <2>1. stream' \in [Speakers -> Seq(Nat)]
    BY <1>3 DEF SoundTypes
  <2>2. sound_session' = [sound_session EXCEPT ![c] = new]
    BY <1>1 DEF piece
  <2> HIDE DEF new
  <2>3. sound_session' \in [Speakers -> Sessions] /\ sound_session'[c] = new
    BY <1>6, <2>2 DEF SoundTypes
  <2> QED BY <1>3, <2>1, <2>3 DEF SoundTypes
<1>7. owner'[c] # "connecting" /\ (heard'[c] = Network!Nothing \/ Heard(c, heard[c])')
  BY <1>2, <1>3, SameHeard
<1>8. ASSUME piece = <<>> \/ Len(piece) > rem PROVE NetInv'
  <2>1. PICK pc \in {"closed", "overrun"} : new = [s EXCEPT !.pc = pc]
    BY <1>8 DEF Network!Rest
  <2> HIDE DEF new
  <2>2. new \in Sessions /\ new.pc \in {"closed", "overrun"}
    BY <1>4, <2>1 DEF Sessions
  <2>3. SoundTypes' /\ sound_session'[c].pc \in {"closed", "overrun"}
    BY <1>6, <2>2
  <2>4. SoundInv(c)'
    BY <1>7, <2>3 DEF SoundInv
  <2> QED BY <1>5, <2>3, <2>4
<1>9. ASSUME piece # <<>>, ~(Len(piece) > rem) PROVE NetInv'
  <2> DEFINE more == got \o piece
             less == rem - n
  <2>1. new = [s EXCEPT !.got = more, !.remaining = less]
    <3>1. new = [s EXCEPT !.got = @ \o piece, !.remaining = @ - Len(piece)]
      BY <1>9 DEF Network!Rest
    <3> HIDE DEF new
    <3> QED BY <1>3, <3>1
  <2>2. more \in Seq(Nat)
    <3> HIDE DEF got
    <3> QED BY <1>3, <1>4
  <2>3. n \in Nat /\ n <= Len(w) /\ n <= rem
    <3> DEFINE lw == Len(w)
    <3>1. n \in 0 .. lw /\ Len(piece) = n
      BY <1>1, <1>3, Zenon
    <3>2. ~(n > rem)
      BY <1>9, <3>1, Zenon
    <3>3. lw \in Nat /\ rem \in Nat
      BY <1>4
    <3> HIDE DEF lw, rem
    <3>4. n \in Nat /\ n <= lw /\ n <= rem
      BY <3>1, <3>2, <3>3
    <3> QED BY <3>4 DEF lw, rem
  <2>4. less \in Nat
    BY <1>4, <2>3
  <2> HIDE DEF more, less, new
  <2>5. new \in Sessions /\ new.pc = "rest" /\ new.got = more /\ new.remaining = less
    <3>1. s \in Sessions /\ s.pc = "rest"
      BY <1>2, <1>4
    <3> HIDE DEF s
    <3> QED BY <2>1, <2>2, <2>4, <3>1 DEF Sessions
  <2>6. /\ SoundTypes' /\ sound_session'[c].pc = "rest" /\ sound_session'[c].got = more
        /\ sound_session'[c].remaining = less
        /\ stream'[c] = left /\ sound'[c] = sound[c] /\ speech'[c] = speech[c]
    BY <1>3, <1>6, <2>5
  <2>7. ASSUME Starved(c) PROVE Starved(c)'
    <3>1. speech[c] # "body" /\ rem > Len(w)
      BY <2>7 DEF Starved
    <3>2. less > Len(left)
      BY <1>3, <1>4, <2>3, <3>1, SMTT(40) DEF less
    <3> QED BY <2>6, <3>1, <3>2 DEF Starved
  <2>8. ASSUME NEW first \in {1, 4}, NEW length \in Nat, Begun(c, first, length)
        PROVE  Begun(c, first, length)'
    <3>1. /\ Len(got) + rem = length
          /\ first + length <= 4 + Len(sound[c])
          /\ Flow(Network!Header \o sound[c], w, got, first)
          /\ speech[c] = "body" => first + Len(got) + Len(w) = 4
      BY <2>8 DEF Begun
    <3>2. /\ Len(more) = Len(got) + n /\ Len(left) = Len(w) - n
          /\ Flow(Network!Header \o sound[c], left, more, first)
      <4> DEFINE request == Network!Header \o sound[c]
      <4>1. /\ w \in Seq(Nat) /\ got \in Seq(Nat) /\ first \in Nat /\ n \in 0 .. Len(w)
            /\ Flow(request, w, got, first)
        BY <1>1, <1>4, <3>1
      <4> HIDE DEF request, w, got
      <4>2. /\ got \o SubSeq(w, 1, n) \in Seq(Nat)
            /\ Len(got \o SubSeq(w, 1, n)) = Len(got) + n
            /\ Len(SubSeq(w, n + 1, Len(w))) = Len(w) - n
            /\ Flow(request, SubSeq(w, n + 1, Len(w)), got \o SubSeq(w, 1, n), first)
        BY <4>1, FlowOn, Zenon
      <4> QED BY <4>2 DEF more, piece, left, request
    <3> DEFINE lg == Len(got)
               lw == Len(w)
    <3>3. /\ Len(more) = lg + n /\ Len(left) = lw - n /\ lg + rem = length
          /\ speech[c] = "body" => first + lg + lw = 4
          /\ lg \in Nat /\ lw \in Nat /\ rem \in Nat /\ n \in Nat
      BY <1>4, <2>3, <3>1, <3>2
    <3> HIDE DEF lg, lw, rem
    <3>4. Len(more) + less = length /\ (speech[c] = "body" => first + Len(more) + Len(left) = 4)
      BY <3>3 DEF less
    <3> QED BY <2>6, <3>1, <3>2, <3>4 DEF Begun
  <2>9. Len(sound[c]) \in Nat
    BY DEF SoundTypes
  <2>10. \/ Begun(c, 4, Len(sound[c]))'
         \/ \E length \in 1 .. Len(sound'[c]) : Begun(c, 1, length)'
         \/ Starved(c)'
    <3>1. CASE Begun(c, 4, Len(sound[c]))
      <4>1. ASSUME NEW length, length = Len(sound[c])
            PROVE  Begun(c, 4, Len(sound[c]))'
        <5>1. Begun(c, 4, length)
          BY <3>1, <4>1
        <5>2. Begun(c, 4, length)'
          BY <2>8, <2>9, <4>1, <5>1
        <5> QED BY <2>6, <4>1, <5>2
      <4> QED BY <4>1
    <3>2. CASE \E length \in 1 .. Len(sound[c]) : Begun(c, 1, length)
      <4>1. PICK length \in 1 .. Len(sound[c]) : Begun(c, 1, length)
        BY <3>2
      <4>2. Begun(c, 1, length)' /\ length \in 1 .. Len(sound'[c])
        BY <2>6, <2>8, <2>9, <4>1
      <4> QED BY <4>2
    <3> QED BY <1>2, <2>7, <3>1, <3>2
  <2>11. SoundInv(c)'
    BY <1>2, <1>7, <2>6, <2>10 DEF SoundInv
  <2> QED BY <1>5, <2>6, <2>11
<1> QED BY <1>8, <1>9

\* After an overrun the session ends, or reads on what it does not keep.
LEMMA OverrunKeeps ==
  ASSUME NetInv, NEW c \in Speakers, Network!Overrun(c)
  PROVE  NetInv'
<1> USE DEF NetInv
<1>1. PICK pc \in {"overrun", "terminate", "closed"} :
        sound_session' = [sound_session EXCEPT ![c].pc = pc]
  <2>1. sound_session = [sound_session EXCEPT ![c].pc = "overrun"]
    BY DEF Network!Overrun, SoundTypes, Sessions
  <2> QED BY <2>1 DEF Network!Overrun
<1>2. /\ stream' = stream \/ stream' = [stream EXCEPT ![c] = <<>>]
      /\ UNCHANGED <<sound, owner, speech, sd, heard>> /\ sound_session[c].pc = "overrun"
  BY DEF Network!Overrun
<1>3. SoundTypes'
  <2>1. stream' \in [Speakers -> Seq(Nat)]
    <3>1. <<>> \in Seq(Nat)
      OBVIOUS
    <3> QED BY <1>2, <3>1 DEF SoundTypes
  <2>2. sound_session' \in [Speakers -> Sessions]
    BY <1>1, ZenonT(60) DEF SoundTypes, Sessions
  <2> QED BY <1>2, <2>1, <2>2 DEF SoundTypes
<1>4. ASSUME NEW d \in Speakers, d # c PROVE SoundInv(d)'
  <2>1. /\ sound[d]' = sound[d] /\ owner[d]' = owner[d] /\ speech[d]' = speech[d]
        /\ sd[d]' = sd[d] /\ stream[d]' = stream[d]
        /\ sound_session[d]' = sound_session[d] /\ heard[d]' = heard[d]
    BY <1>1, <1>2, <1>4 DEF SoundTypes
  <2> QED BY <2>1, SameSound
<1>5. SoundInv(c)'
  <2>1. sound_session'[c].pc \in {"overrun", "terminate", "closed"}
    BY <1>1 DEF SoundTypes, Sessions
  <2> QED BY <1>2, <2>1, SameHeard DEF SoundInv
<1> QED BY <1>3, <1>4, <1>5

\* Every step of the client programs and of the server program keeps NetInv.
LEMMA NetStep == NetInv /\ [Network!Next]_(Network!vars) => NetInv'
<1> SUFFICES ASSUME NetInv, [Network!Next]_(Network!vars) PROVE NetInv'
  OBVIOUS
<1>1. ASSUME UNCHANGED <<sound, owner, speech, sd, stream, sound_session, heard>>
      PROVE  NetInv'
  <2>1. SoundTypes'
    BY <1>1 DEF NetInv, SoundTypes
  <2>2. ASSUME NEW d \in Speakers PROVE SoundInv(d)'
    BY <1>1, SameSound DEF NetInv
  <2> QED BY <2>1, <2>2 DEF NetInv
<1>2. CASE UNCHANGED Network!vars
  BY <1>1, <1>2 DEF Network!vars
<1>3. CASE Network!RunServer
  BY <1>1, <1>3 DEF Network!RunServer
<1>4. ASSUME NEW c \in Speakers,
             \/ Network!Connect(c) \/ Network!LeaveScope(c)
             \/ Network!EnterRecv(c) \/ Network!LeaveRecv(c)
      PROVE  NetInv'
  BY <1>4, ClientQuiet
<1>5. ASSUME NEW c \in Speakers, Network!SendHeader(c) PROVE NetInv'
  BY <1>5, SendHeaderKeeps
<1>6. ASSUME NEW c \in Speakers, Network!SendBody(c) PROVE NetInv'
  BY <1>6, SendBodyKeeps
<1>7. ASSUME NEW c \in Speakers,
             \/ Network!acceptClient(c) \/ Network!Transcribe(c)
             \/ Network!Transcribed(c) \/ Network!Answer(c)
      PROVE  NetInv'
  BY <1>7, ServerQuiet
<1>8. ASSUME NEW c \in Speakers, Network!FirstRecv(c) PROVE NetInv'
  BY <1>8, FirstRecvKeeps
<1>9. ASSUME NEW c \in Speakers, Network!Overrun(c) PROVE NetInv'
  BY <1>9, OverrunKeeps
<1>10. ASSUME NEW c \in Speakers, Network!RestRecv(c) PROVE NetInv'
  BY <1>10, RestRecvKeeps
<1> QED BY <1>2, <1>3, <1>4, <1>5, <1>6, <1>7, <1>8, <1>9, <1>10
        DEF Network!Next, Network!Speak, Network!Serve

\* What a step of one speaker's threads has to leave true of it.
LEMMA NetTypedStep ==
  ASSUME NetInv, NetInv', Network!TypeOK, NEW c \in Speakers, sound' = sound,
         \A d \in Speakers : d # c =>
           sd'[d] = sd[d] /\ speech'[d] = speech[d] /\ sound_session'[d] = sound_session[d],
         sd'[c] = "held" => speech'[c] = "recv",
         sound_session'[c].remaining <= Len(sound[c]),
         lock' \in Speakers \cup {"free"}, \A d \in Speakers : d # c => (lock' = d <=> lock = d),
         lock' = c <=> sound_session'[c].pc = "transcribe"
  PROVE  Network!TypeOK'
<1>1. /\ owner' \in [Speakers -> {"connecting", "scope", "gone"}]
      /\ sd' \in [Speakers -> {"closed", "open", "held"}]
      /\ sound_session' \in [Speakers -> Sessions] /\ sound' \in [Speakers -> Seq(Nat)]
  BY DEF NetInv, SoundTypes
<1>2. ASSUME NEW d \in Speakers
      PROVE  /\ owner'[d] \in {"connecting", "scope", "gone"}
             /\ sd'[d] \in {"closed", "open", "held"}
             /\ sd'[d] = "held" => speech'[d] = "recv"
             /\ sound_session'[d].remaining \in 0 .. Len(sound'[d])
             /\ lock' = d <=> sound_session'[d].pc = "transcribe"
  <2>1. owner'[d] \in {"connecting", "scope", "gone"} /\ sd'[d] \in {"closed", "open", "held"}
    BY <1>1
  <2>2. sd'[d] = "held" => speech'[d] = "recv"
    BY DEF Network!TypeOK
  <2>3. lock' = d <=> sound_session'[d].pc = "transcribe"
    BY DEF Network!TypeOK
  <2>4. sound_session'[d].remaining \in 0 .. Len(sound'[d])
    <3> DEFINE r == sound_session'[d].remaining
               n == Len(sound[d])
    <3>1. r \in Nat /\ n \in Nat /\ sound'[d] = sound[d]
      BY <1>1 DEF Sessions
    <3>2. r <= n
      <4>1. CASE d = c
        BY <4>1
      <4>2. CASE d # c
        <5>1. sound_session[d].remaining \in 0 .. n
          BY DEF Network!TypeOK
        <5>2. r = sound_session[d].remaining
          BY <4>2
        <5> HIDE DEF r, n
        <5> QED BY <3>1, <5>1, <5>2
      <4> QED BY <4>1, <4>2
    <3> HIDE DEF r, n
    <3>3. r \in 0 .. n
      BY <3>1, <3>2
    <3> QED BY <3>1, <3>3 DEF r, n
  <2> QED BY <2>1, <2>2, <2>3, <2>4
<1> QED BY <1>2 DEF Network!TypeOK

\* Who has the mutex is transcribing, and a socket that is held is in a recv:
\* what NetworkManager's TypeOK says, which every step keeps.
LEMMA NetTyped ==
  ASSUME NetInv, NetInv', Network!TypeOK, [Network!Next]_(Network!vars)
  PROVE  Network!TypeOK'
<1>1. /\ sound \in [Speakers -> Seq(Nat)]
      /\ owner \in [Speakers -> {"connecting", "scope", "gone"}]
      /\ speech \in [Speakers -> {"none", "header", "body", "receive", "recv", "done", "killed"}]
      /\ sd \in [Speakers -> {"closed", "open", "held"}]
      /\ stream \in [Speakers -> Seq(Nat)]
      /\ sound_session \in [Speakers -> Sessions]
  BY DEF NetInv, SoundTypes
<1>2. /\ lock \in Speakers \cup {"free"} /\ "free" \notin Speakers
      /\ \A c \in Speakers : /\ sd[c] = "held" => speech[c] = "recv"
                             /\ sound_session[c].remaining <= Len(sound[c])
                             /\ lock = c <=> sound_session[c].pc = "transcribe"
  <2>1. ASSUME NEW c \in Speakers PROVE sound_session[c].remaining <= Len(sound[c])
    BY DEF Network!TypeOK
  <2> QED BY <2>1, NetworkAssumption DEF Network!TypeOK
<1>3. ASSUME NEW c \in Speakers,
             \/ Network!Connect(c) \/ Network!LeaveScope(c) \/ Network!SendHeader(c)
             \/ Network!SendBody(c) \/ Network!EnterRecv(c) \/ Network!LeaveRecv(c)
      PROVE  Network!TypeOK'
  <2>1. /\ UNCHANGED <<sound, lock>>
        /\ sound_session' = [sound_session EXCEPT ![c].pc = sound_session'[c].pc]
        /\ sound_session'[c].pc = sound_session[c].pc
             \/ (sound_session'[c].pc = "backlog" /\ owner[c] = "connecting")
    BY <1>1, <1>3 DEF Network!Connect, Network!LeaveScope, Network!SendHeader, Network!SendBody,
       Network!Send, Network!Killed, Network!EnterRecv, Network!LeaveRecv, Sessions
  <2>2. sound_session'[c].pc = "transcribe" <=> sound_session[c].pc = "transcribe"
    BY <2>1 DEF NetInv, SoundInv
  <2>3. /\ sound_session'[c].remaining = sound_session[c].remaining
        /\ \A d \in Speakers : d # c => sound_session'[d] = sound_session[d]
    BY <1>1, <2>1 DEF Sessions
  <2>4. \A d \in Speakers : d # c => sd'[d] = sd[d] /\ speech'[d] = speech[d]
    BY <1>1, <1>3 DEF Network!Connect, Network!LeaveScope, Network!SendHeader, Network!SendBody,
       Network!Send, Network!Killed, Network!EnterRecv, Network!LeaveRecv
  <2>5. sd'[c] = "held" => speech'[c] = "recv"
    BY <1>1, <1>2, <1>3 DEF Network!Connect, Network!LeaveScope, Network!SendHeader,
       Network!SendBody, Network!Send, Network!Killed, Network!EnterRecv, Network!LeaveRecv
  <2> QED BY <1>2, <2>1, <2>2, <2>3, <2>4, <2>5, NetTypedStep
<1>4. ASSUME NEW c \in Speakers, UNCHANGED <<sound, sd, speech>>,
             \E s \in Sessions : /\ sound_session' = [sound_session EXCEPT ![c] = s]
                                 /\ s.remaining <= Len(sound[c])
                                 /\ \/ /\ UNCHANGED lock
                                       /\ sound_session[c].pc # "transcribe"
                                       /\ s.pc # "transcribe"
                                    \/ lock = "free" /\ lock' = c /\ s.pc = "transcribe"
                                    \/ /\ lock' = "free" /\ s.pc # "transcribe"
                                       /\ sound_session[c].pc = "transcribe"
      PROVE  Network!TypeOK'
  <2>1. PICK s \in Sessions : /\ sound_session' = [sound_session EXCEPT ![c] = s]
                              /\ s.remaining <= Len(sound[c])
                              /\ \/ /\ UNCHANGED lock
                                    /\ sound_session[c].pc # "transcribe"
                                    /\ s.pc # "transcribe"
                                 \/ lock = "free" /\ lock' = c /\ s.pc = "transcribe"
                                 \/ /\ lock' = "free" /\ s.pc # "transcribe"
                                    /\ sound_session[c].pc = "transcribe"
    BY <1>4
  <2>2. /\ sound_session'[c] = s
        /\ \A d \in Speakers : d # c => sound_session'[d] = sound_session[d]
    BY <1>1, <2>1
  <2>3. /\ lock' \in Speakers \cup {"free"} /\ \A d \in Speakers : d # c => (lock' = d <=> lock = d)
        /\ lock' = c <=> s.pc = "transcribe"
    BY <1>2, <2>1
  <2> QED BY <1>2, <1>4, <2>1, <2>2, <2>3, NetTypedStep
<1>5. ASSUME NEW c \in Speakers,
             Network!acceptClient(c) \/ Network!Overrun(c) \/ Network!Answer(c) \/ Network!Transcribe(c)
      PROVE  Network!TypeOK'
  <2> DEFINE s == sound_session'[c]
  <2>1. /\ UNCHANGED <<sound, sd, speech>> /\ sound_session' = [sound_session EXCEPT ![c] = s]
        /\ s.remaining = sound_session[c].remaining
        /\ \/ UNCHANGED lock /\ sound_session[c].pc # "transcribe" /\ s.pc # "transcribe"
           \/ lock = "free" /\ lock' = c /\ s.pc = "transcribe"
    BY <1>1, <1>5 DEF Network!acceptClient, Network!Overrun, Network!Answer, Network!Transcribe,
       Sessions
  <2>2. s \in Sessions
    BY DEF NetInv, SoundTypes
  <2> HIDE DEF s
  <2> QED BY <1>2, <1>4, <2>1, <2>2
<1>6. ASSUME NEW c \in Speakers, Network!Transcribed(c)
      PROVE  Network!TypeOK'
  <2> DEFINE s == [Network!NoSession EXCEPT !.pc = "answer"]
  <2>1. s \in Sessions /\ s.remaining = 0 /\ s.pc = "answer"
    <3>1. s = [pc |-> "answer", got |-> <<>>, remaining |-> 0]
      BY DEF Network!NoSession
    <3>2. <<>> \in Seq(Nat)
      OBVIOUS
    <3> HIDE DEF s
    <3> QED BY <3>1, <3>2 DEF Sessions
  <2>2. /\ UNCHANGED <<sound, sd, speech>> /\ sound_session' = [sound_session EXCEPT ![c] = s]
        /\ lock' = "free" /\ sound_session[c].pc = "transcribe"
    BY <1>6 DEF Network!Transcribed, Network!Unlocked
  <2>3. 0 <= Len(sound[c])
    BY <1>1
  <2> HIDE DEF s
  <2> QED BY <1>4, <2>1, <2>2, <2>3
<1>7. ASSUME NEW c \in Speakers, Network!FirstRecv(c)
      PROVE  Network!TypeOK'
  <2>1. PICK n \in 0 .. Len(stream[c]), length \in 0 .. Len(sound[c]), s \in Sessions :
          /\ Network!Received(c, n)
          /\ sound_session' = [sound_session EXCEPT ![c] = s]
          /\ \/ s.pc \in {"answer", "terminate", "overrun"} /\ s.remaining = sound_session[c].remaining
             \/ s.pc = "rest" /\ s.remaining \in Nat /\ Len(s.got) + s.remaining = length
    <3>1. SoundTypes
      BY DEF NetInv
    <3> QED BY <1>7, <3>1, FirstSession
  <2>2. UNCHANGED <<sound, sd, speech, lock>> /\ sound_session[c].pc = "first"
    BY <1>7, <2>1 DEF Network!FirstRecv, Network!Received
  <2>3. s.remaining <= Len(sound[c])
    <3>1. CASE s.remaining = sound_session[c].remaining
      BY <1>2, <3>1
    <3>2. CASE s.remaining \in Nat /\ Len(s.got) + s.remaining = length
      <4> DEFINE r == s.remaining
                 lg == Len(s.got)
                 ls == Len(sound[c])
      <4>1. s.got \in Seq(Nat)
        BY <2>1 DEF Sessions
      <4>2. r \in Nat /\ lg \in Nat /\ ls \in Nat /\ length \in 0 .. ls /\ lg + r = length
        BY <1>1, <2>1, <3>2, <4>1
      <4> HIDE DEF r, lg, ls
      <4>3. r <= ls
        BY <4>2
      <4> QED BY <4>3 DEF r, ls
    <3> QED BY <2>1, <3>1, <3>2
  <2>4. s.pc # "transcribe"
    BY <2>1
  <2> QED BY <1>4, <2>1, <2>2, <2>3, <2>4
<1>8. ASSUME NEW c \in Speakers, Network!RestRecv(c)
      PROVE  Network!TypeOK'
  <2>1. PICK n \in 0 .. Len(stream[c]) :
        /\ Network!Received(c, n)
        /\ sound_session' = [sound_session EXCEPT ![c] =
                               Network!Rest(sound_session[c], SubSeq(stream[c], 1, n))]
    BY <1>1, <1>8 DEF Network!RestRecv
  <2> DEFINE piece == SubSeq(stream[c], 1, n)
             s == Network!Rest(sound_session[c], piece)
  <2>2. piece \in Seq(Nat)
    BY <2>1, ReceivedRest DEF NetInv
  <2>3. Len(piece) \in Nat
    <3> HIDE DEF piece
    <3> QED BY <2>2
  <2>4. UNCHANGED <<sound, sd, speech, lock>> /\ sound_session[c].pc = "rest"
    BY <1>8, <2>1 DEF Network!RestRecv, Network!Received
  <2> HIDE DEF piece
  <2>5. /\ s.pc # "transcribe"
        /\ s.remaining \in {sound_session[c].remaining, sound_session[c].remaining - Len(piece)}
    <3>1. sound_session[c] \in Sessions
      BY <1>1
    <3> QED BY <2>4, <3>1 DEF Network!Rest, Sessions
  <2>6. /\ sound_session' = [sound_session EXCEPT ![c] = s] /\ sound_session'[c] = s
        /\ sound_session'[c] \in Sessions
    BY <1>1, <2>1 DEF piece, NetInv, SoundTypes
  <2>7. s.remaining <= Len(sound[c])
    <3> DEFINE a == Len(sound[c])
               b == Len(piece)
               r == sound_session[c].remaining
    <3>1. a \in Nat /\ b \in Nat /\ r \in Nat /\ r <= a
      BY <1>1, <1>2, <2>3 DEF Sessions
    <3>2. s.remaining \in {r, r - b}
      BY <2>5
    <3> HIDE DEF a, b, r, s
    <3>3. r - b <= a
      BY <3>1
    <3>4. s.remaining <= a
      BY <3>1, <3>2, <3>3
    <3> QED BY <3>4 DEF a
  <2> HIDE DEF s
  <2> QED BY <1>4, <2>4, <2>5, <2>6, <2>7
<1>9. ASSUME Network!RunServer \/ UNCHANGED Network!vars PROVE Network!TypeOK'
  BY <1>9 DEF Network!RunServer, Network!vars, Network!TypeOK
<1> QED BY <1>3, <1>5, <1>6, <1>7, <1>8, <1>9 DEF Network!Next, Network!Speak, Network!Serve

\* At the start nobody is connected.
LEMMA NetTypedFirst == Network!Init => Network!TypeOK
<1> SUFFICES ASSUME Network!Init PROVE Network!TypeOK
  OBVIOUS
<1>1. ASSUME NEW c \in Speakers
      PROVE  /\ owner[c] = "connecting" /\ sd[c] = "closed" /\ sound_session[c].remaining = 0
             /\ sound_session[c].pc = "none" /\ lock # c /\ sound[c] \in Seq(Nat)
  BY NetworkAssumption DEF Network!Init, Network!NoSession
<1>2. ASSUME NEW c \in Speakers PROVE 0 \in 0 .. Len(sound[c])
  BY <1>1
<1> QED BY <1>1, <1>2 DEF Network!TypeOK, Network!Init

\* For every set of speakers and whatever bytes they send, however the stream is
\* cut into pieces and whenever a client closes its socket under the thread that
\* sends: what the server transcribes is the whole sound, or, when the header
\* came in pieces, a stretch of the request no longer than the sound.
THEOREM HeardAlways == Network!Spec => []HeardAsSent
<1>1. NetInv /\ [Network!Next]_(Network!vars) => NetInv'
  BY NetStep
<1> QED BY <1>1, NetBegins, NetInvImplies, PTL DEF Network!Spec

-----------------------------------------------------------------------------
(* Powers modulo a number, as BN_mod_exp computes them one factor at a     *)
(* time.                                                                   *)

\* The table of the powers of x up to the n-th.
IsTable(f, x, n) ==
  f = [i \in 0 .. n |-> IF i = 0 THEN 1 ELSE (x * f[i - 1]) % PRIME]

\* What a table holds.
LEMMA TableRows ==
  ASSUME NEW x, NEW n \in Nat, NEW f, IsTable(f, x, n)
  PROVE  /\ f[0] = 1
         /\ \A i \in 1 .. n : f[i] = (x * f[i - 1]) % PRIME
  BY DEF IsTable

\* There is a table of any length.
LEMMA TableExists ==
  ASSUME NEW x, NEW n \in Nat
  PROVE  \E f : IsTable(f, x, n)
<1> DEFINE S == {k \in Nat : \E f : IsTable(f, x, k)}
<1>1. 0 \in S
  <2>1. IsTable([i \in 0 .. 0 |-> 1], x, 0)
    BY DEF IsTable
  <2> QED BY <2>1
<1>2. ASSUME NEW k \in Nat, k \in S PROVE k + 1 \in S
  <2>1. PICK f : IsTable(f, x, k)
    BY <1>2
  <2> DEFINE g == [i \in 0 .. k + 1 |-> IF i = 0 THEN 1 ELSE (x * f[i - 1]) % PRIME]
  <2>2. ASSUME NEW i \in 0 .. k PROVE g[i] = f[i]
    <3>1. i \in 0 .. k + 1
      OBVIOUS
    <3>2. f[i] = IF i = 0 THEN 1 ELSE (x * f[i - 1]) % PRIME
      BY <2>1 DEF IsTable
    <3> QED BY <3>1, <3>2
  <2>3. ASSUME NEW i \in 0 .. k + 1, i # 0 PROVE f[i - 1] = g[i - 1]
    <3>1. i - 1 \in 0 .. k
      BY <2>3
    <3> HIDE DEF g
    <3> QED BY <2>2, <3>1
  <2>4. g = [i \in 0 .. k + 1 |-> IF i = 0 THEN 1 ELSE (x * g[i - 1]) % PRIME]
    <3> DEFINE h == [i \in 0 .. k + 1 |-> IF i = 0 THEN 1 ELSE (x * g[i - 1]) % PRIME]
    <3>1. ASSUME NEW i \in 0 .. k + 1
          PROVE  (IF i = 0 THEN 1 ELSE (x * f[i - 1]) % PRIME) =
                 (IF i = 0 THEN 1 ELSE (x * g[i - 1]) % PRIME)
      BY <2>3
    <3> QED BY <3>1
  <2> HIDE DEF g
  <2>5. IsTable(g, x, k + 1)
    BY <2>4 DEF IsTable
  <2> QED BY <2>5
<1> HIDE DEF S
<1>3. n \in S
  BY <1>1, <1>2, EveryNumber
<1> QED BY <1>3 DEF S

\* Two tables agree as far as both go.
LEMMA TablesAgree ==
  ASSUME NEW x, NEW n \in Nat, NEW m \in Nat, n <= m, NEW f, NEW g,
         IsTable(f, x, n), IsTable(g, x, m)
  PROVE  f[n] = g[n]
<1> DEFINE S == {k \in Nat : k <= n => f[k] = g[k]}
<1>1. 0 \in S
  <2>1. f[0] = 1 /\ g[0] = 1
    BY TableRows, Zenon
  <2> QED BY <2>1
<1>2. ASSUME NEW k \in Nat, k \in S PROVE k + 1 \in S
  <2>1. CASE k + 1 <= n
    <3>1. k + 1 \in 1 .. n /\ k + 1 \in 1 .. m /\ (k + 1) - 1 = k /\ k <= n
      BY <2>1
    <3>2. f[k + 1] = (x * f[k]) % PRIME
      <4>1. f[k + 1] = (x * f[(k + 1) - 1]) % PRIME
        BY <3>1, TableRows, ZenonT(60)
      <4> QED BY <3>1, <4>1
    <3>3. g[k + 1] = (x * g[k]) % PRIME
      <4>1. g[k + 1] = (x * g[(k + 1) - 1]) % PRIME
        BY <3>1, TableRows, ZenonT(60)
      <4> QED BY <3>1, <4>1
    <3>4. f[k] = g[k]
      BY <1>2, <3>1
    <3> QED BY <3>2, <3>3, <3>4
  <2>2. CASE ~ (k + 1 <= n)
    BY <2>2
  <2> QED BY <2>1, <2>2
<1> HIDE DEF S
<1>3. n \in S
  BY <1>1, <1>2, EveryNumber
<1> QED BY <1>3 DEF S

\* A power is an entry of its table.
LEMMA PowerInTable ==
  ASSUME NEW x, NEW n \in Nat
  PROVE  \E f : IsTable(f, x, n) /\ Pairing!Power(x, n) = f[n]
<1> DEFINE f == CHOOSE f : IsTable(f, x, n)
<1>1. IsTable(f, x, n)
  BY TableExists
<1>2. Pairing!Power(x, n) = f[n]
  BY DEF Pairing!Power, IsTable
<1> QED BY <1>1, <1>2

\* One factor more.
LEMMA PowerNext ==
  ASSUME NEW x
  PROVE  /\ Pairing!Power(x, 0) = 1
         /\ \A n \in Nat : Pairing!Power(x, n + 1) = (x * Pairing!Power(x, n)) % PRIME
<1>1. Pairing!Power(x, 0) = 1
  <2>1. PICK f : IsTable(f, x, 0) /\ Pairing!Power(x, 0) = f[0]
    BY PowerInTable
  <2>2. f[0] = 1
    BY <2>1, TableRows
  <2> QED BY <2>1, <2>2
<1>2. ASSUME NEW n \in Nat
      PROVE  Pairing!Power(x, n + 1) = (x * Pairing!Power(x, n)) % PRIME
  <2>1. PICK f : IsTable(f, x, n) /\ Pairing!Power(x, n) = f[n]
    BY PowerInTable
  <2>2. PICK g : IsTable(g, x, n + 1) /\ Pairing!Power(x, n + 1) = g[n + 1]
    BY PowerInTable
  <2>3. f[n] = g[n]
    BY <2>1, <2>2, TablesAgree
  <2>4. g[n + 1] = (x * g[(n + 1) - 1]) % PRIME
    <3>1. n + 1 \in Nat /\ n + 1 \in 1 .. n + 1
      OBVIOUS
    <3>2. \A i \in 1 .. n + 1 : g[i] = (x * g[i - 1]) % PRIME
      BY <2>2, <3>1, TableRows, ZenonT(60)
    <3> QED BY <3>1, <3>2
  <2> QED BY <2>1, <2>2, <2>3, <2>4
<1> QED BY <1>1, <1>2

\* A power of a number is a remainder.
LEMMA PowerRange ==
  ASSUME NEW x \in Int, NEW n \in Nat
  PROVE  Pairing!Power(x, n) \in 0 .. PRIME - 1
<1> DEFINE S == {k \in Nat : Pairing!Power(x, k) \in 0 .. PRIME - 1}
<1>1. 0 \in S
  BY PowerNext, PairingAssumption
<1>2. ASSUME NEW k \in Nat, k \in S PROVE k + 1 \in S
  <2> DEFINE p == Pairing!Power(x, k)
  <2>1. p \in Int
    BY <1>2, PairingAssumption
  <2> HIDE DEF p
  <2>2. x * p \in Int
    BY <2>1
  <2>3. (x * p) % PRIME \in 0 .. PRIME - 1
    BY <2>2, DivMod, PairingAssumption
  <2>4. Pairing!Power(x, k + 1) = (x * p) % PRIME
    BY PowerNext DEF p
  <2> QED BY <2>3, <2>4
<1> HIDE DEF S
<1>3. n \in S
  BY <1>1, <1>2, EveryNumber
<1> QED BY <1>3 DEF S

\* The power of a product.
LEMMA PowerOfProduct ==
  ASSUME NEW x \in Int, NEW y \in Int, NEW n \in Nat
  PROVE  Pairing!Power((x * y) % PRIME, n) =
           (Pairing!Power(x, n) * Pairing!Power(y, n)) % PRIME
<1> DEFINE z == (x * y) % PRIME
           S == {k \in Nat : Pairing!Power(z, k) =
                   (Pairing!Power(x, k) * Pairing!Power(y, k)) % PRIME}
<1> USE PairingAssumption
<1>1. 0 \in S
  <2>1. Pairing!Power(x, 0) = 1 /\ Pairing!Power(y, 0) = 1 /\ Pairing!Power(z, 0) = 1
    BY PowerNext
  <2>2. 1 \in 0 .. PRIME - 1 /\ 1 * 1 = 1
    OBVIOUS
  <2>3. 1 % PRIME = 1
    BY <2>2, ModSmall
  <2> HIDE DEF z
  <2> QED BY <2>1, <2>2, <2>3
<1>2. ASSUME NEW k \in Nat, k \in S PROVE k + 1 \in S
  <2> DEFINE a == Pairing!Power(x, k)
             b == Pairing!Power(y, k)
  <2>1. a \in Int /\ b \in Int
    BY PowerRange
  <2>2. Pairing!Power(z, k) = (a * b) % PRIME
    BY <1>2
  <2>3. /\ Pairing!Power(x, k + 1) = (x * a) % PRIME
        /\ Pairing!Power(y, k + 1) = (y * b) % PRIME
        /\ Pairing!Power(z, k + 1) = (z * Pairing!Power(z, k)) % PRIME
    BY PowerNext
  <2> HIDE DEF a, b
  <2>4. x * y \in Int /\ a * b \in Int /\ x * a \in Int /\ y * b \in Int
    BY <2>1
  <2>5. (((x * y) % PRIME) * ((a * b) % PRIME)) % PRIME = ((x * y) * (a * b)) % PRIME
    BY <2>4, ModMulBoth
  <2>6. (((x * a) % PRIME) * ((y * b) % PRIME)) % PRIME = ((x * a) * (y * b)) % PRIME
    BY <2>4, ModMulBoth
  <2>7. (x * y) * (a * b) = (x * a) * (y * b)
    BY <2>1
  <2>8. Pairing!Power(z, k + 1) =
          (Pairing!Power(x, k + 1) * Pairing!Power(y, k + 1)) % PRIME
    BY <2>2, <2>3, <2>5, <2>6, <2>7
  <2> QED BY <2>8
<1> HIDE DEF S
<1>3. n \in S
  BY <1>1, <1>2, EveryNumber
<1> QED BY <1>3 DEF S

\* The power with a sum.
LEMMA PowerOfSum ==
  ASSUME NEW x \in Int, NEW n \in Nat, NEW m \in Nat
  PROVE  Pairing!Power(x, n + m) = (Pairing!Power(x, n) * Pairing!Power(x, m)) % PRIME
<1> DEFINE c == Pairing!Power(x, m)
           S == {k \in Nat : Pairing!Power(x, k + m) = (Pairing!Power(x, k) * c) % PRIME}
<1> USE PairingAssumption
<1>0. c \in 0 .. PRIME - 1 /\ c \in Int
  BY PowerRange
<1>1. 0 \in S
  <2>1. Pairing!Power(x, 0) = 1 /\ Pairing!Power(x, 0 + m) = c
    BY PowerNext
  <2> HIDE DEF c
  <2>2. c % PRIME = c /\ 1 * c = c
    BY <1>0, ModSmall
  <2> QED BY <2>1, <2>2
<1>2. ASSUME NEW k \in Nat, k \in S PROVE k + 1 \in S
  <2> DEFINE a == Pairing!Power(x, k)
  <2>1. a \in Int
    BY PowerRange
  <2>2. Pairing!Power(x, k + m) = (a * c) % PRIME
    BY <1>2
  <2>3. /\ Pairing!Power(x, k + 1) = (x * a) % PRIME
        /\ Pairing!Power(x, (k + m) + 1) = (x * Pairing!Power(x, k + m)) % PRIME
        /\ (k + m) + 1 = (k + 1) + m
    <3>1. k + m \in Nat /\ (k + m) + 1 = (k + 1) + m
      OBVIOUS
    <3> QED BY <3>1, PowerNext
  <2> HIDE DEF a, c
  <2>4. a * c \in Int /\ x * a \in Int
    BY <1>0, <2>1
  <2>5. (x * ((a * c) % PRIME)) % PRIME = (x * (a * c)) % PRIME
    BY <2>4, ModMul
  <2>6. (c * ((x * a) % PRIME)) % PRIME = (c * (x * a)) % PRIME
    BY <1>0, <2>4, ModMul
  <2>7. x * (a * c) = c * (x * a)
    BY <1>0, <2>1
  <2>8. ((x * a) % PRIME) * c = c * ((x * a) % PRIME)
    <3>1. (x * a) % PRIME \in Int
      BY <2>4, DivMod
    <3> QED BY <1>0, <3>1
  <2>9. Pairing!Power(x, (k + 1) + m) = (Pairing!Power(x, k + 1) * c) % PRIME
    BY <2>2, <2>3, <2>5, <2>6, <2>7, <2>8
  <2> QED BY <2>9
<1> HIDE DEF S
<1>3. n \in S
  BY <1>1, <1>2, EveryNumber
<1> QED BY <1>3 DEF S

\* The power with a product.
LEMMA PowerOfPower ==
  ASSUME NEW x \in Int, NEW n \in Nat, NEW u \in Nat
  PROVE  Pairing!Power(x, u * n) = Pairing!Power(Pairing!Power(x, n), u)
<1> DEFINE p == Pairing!Power(x, n)
           S == {k \in Nat : Pairing!Power(x, k * n) = Pairing!Power(p, k)}
<1>1. 0 \in S
  <2>1. 0 * n = 0
    OBVIOUS
  <2>2. Pairing!Power(x, 0) = 1 /\ Pairing!Power(p, 0) = 1
    BY PowerNext
  <2> QED BY <2>1, <2>2
<1>2. ASSUME NEW k \in Nat, k \in S PROVE k + 1 \in S
  <2>1. k * n \in Nat /\ (k + 1) * n = k * n + n
    OBVIOUS
  <2>2. Pairing!Power(x, k * n + n) = (Pairing!Power(x, k * n) * p) % PRIME
    BY <2>1, PowerOfSum
  <2>3. Pairing!Power(p, k + 1) = (p * Pairing!Power(p, k)) % PRIME
    BY PowerNext
  <2>4. p \in Int /\ Pairing!Power(p, k) \in Int
    BY PowerRange, PairingAssumption
  <2> HIDE DEF p
  <2>5. Pairing!Power(p, k) * p = p * Pairing!Power(p, k)
    BY <2>4
  <2> QED BY <1>2, <2>1, <2>2, <2>3, <2>5
<1> HIDE DEF S
<1>3. u \in S
  BY <1>1, <1>2, EveryNumber
<1> QED BY <1>3 DEF S

\* Two exponents may change places: both ends of a key agreement have the same
\* secret.
LEMMA PowersCommute ==
  ASSUME NEW x \in Int, NEW n \in Nat, NEW m \in Nat
  PROVE  Pairing!Power(Pairing!Power(x, n), m) = Pairing!Power(Pairing!Power(x, m), n)
<1>1. n * m \in Nat /\ m * n = n * m
  OBVIOUS
<1>2. Pairing!Power(x, m * n) = Pairing!Power(Pairing!Power(x, n), m)
  BY PowerOfPower
<1>3. Pairing!Power(x, n * m) = Pairing!Power(Pairing!Power(x, m), n)
  BY PowerOfPower
<1> QED BY <1>1, <1>2, <1>3

-----------------------------------------------------------------------------
(* Pairing.                                                                *)

\* A hash used as a number.
LEMMA DigestIsNumber ==
  ASSUME NEW x \in Int, NEW y \in Int
  PROVE  Pairing!Digest(x, y) \in Nat
<1> DEFINE n == 5 * x + 3 * y + (x * y)
<1>1. n \in Int
  OBVIOUS
<1> HIDE DEF n
<1>2. n % HASH \in 0 .. HASH - 1
  BY <1>1, DivMod, PairingAssumption
<1>3. 1 + (n % HASH) \in Nat
  BY <1>2, PairingAssumption
<1> QED BY <1>3 DEF Pairing!Digest, n

\* SRP-6a: from the same pin both sides come to the same shared number, the
\* client from the server's public key without the verifier's part, the server
\* from the client's public key and the verifier.
LEMMA SharedNumber ==
  ASSUME NEW x \in Nat, NEW k \in Nat, NEW a \in Nat, NEW b \in Nat, NEW u \in Nat
  PROVE  LET v == Pairing!Power(GENERATOR, x)
             A == Pairing!Power(GENERATOR, a)
             B == (k * v + Pairing!Power(GENERATOR, b)) % PRIME
         IN  Pairing!Power((B - (k * v)) % PRIME, a + (u * x)) =
               Pairing!Power((A * Pairing!Power(v, u)) % PRIME, b)
<1> DEFINE v == Pairing!Power(GENERATOR, x)
           A == Pairing!Power(GENERATOR, a)
           g == Pairing!Power(GENERATOR, b)
           B == (k * v + g) % PRIME
           w == Pairing!Power(v, u)
<1>1. /\ v \in Int /\ A \in Int /\ g \in Int /\ g \in 0 .. PRIME - 1
      /\ PRIME \in Nat \ {0} /\ GENERATOR \in Int
  BY PowerRange, PairingAssumption
<1>2. w \in Int
  BY <1>1, PowerRange, PairingAssumption
<1>3. (B - (k * v)) % PRIME = g
  <2> HIDE DEF v, g
  <2> DEFINE c == k * v
             e == 0 - c
  <2>1. c \in Int /\ e \in Int /\ c + g \in Int
    BY <1>1
  <2> HIDE DEF c
  <2>2. (((c + g) % PRIME) + e) % PRIME = ((c + g) + e) % PRIME
    <3> HIDE DEF e
    <3> QED BY <1>1, <2>1, ModAdd
  <2>3. (c + g) % PRIME \in Int
    BY <1>1, <2>1, DivMod
  <2>4. ((c + g) % PRIME) + e = ((c + g) % PRIME) - c /\ (c + g) + e = g
    BY <1>1, <2>1, <2>3
  <2>5. g % PRIME = g
    BY <1>1, ModSmall
  <2> QED BY <2>2, <2>4, <2>5 DEF c
<1>4. Pairing!Power((A * w) % PRIME, b) =
        (Pairing!Power(A, b) * Pairing!Power(w, b)) % PRIME
  <2> HIDE DEF A, w
  <2> QED BY <1>1, <1>2, PowerOfProduct
<1>5. Pairing!Power(g, a + (u * x)) =
        (Pairing!Power(g, a) * Pairing!Power(g, u * x)) % PRIME
  <2>1. u * x \in Nat
    OBVIOUS
  <2> QED BY <1>1, <2>1, PowerOfSum
<1>6. Pairing!Power(A, b) = Pairing!Power(g, a)
  BY <1>1, PowersCommute
<1>7. Pairing!Power(w, b) = Pairing!Power(g, u * x)
  <2>1. Pairing!Power(g, u * x) = Pairing!Power(Pairing!Power(g, x), u)
    BY <1>1, PowerOfPower
  <2>2. Pairing!Power(g, x) = Pairing!Power(v, b)
    BY <1>1, PowersCommute
  <2>3. Pairing!Power(Pairing!Power(v, b), u) = Pairing!Power(w, b)
    BY <1>1, PowersCommute
  <2> QED BY <2>1, <2>2, <2>3
<1> QED BY <1>3, <1>4, <1>5, <1>6, <1>7

\* The server's verifier for a name and a pin, and the key it sends with it.
Verifier(name, pin, salt) == Pairing!srp_create_salted_verification_key(name, pin, salt)
Sent(name, pin, salt, b) ==
  Pairing!srp_create_server_ephemeral_key(Verifier(name, pin, salt), b)

\* A client whose user typed the pin proves it; and whoever proves it has the
\* key that the server has, and accepts the server's proof.
Matching(name, pin, entered, salt, a, b) ==
  LET user == Pairing!srp_user_process_challenge(name, entered, a, salt, Sent(name, pin, salt, b))
      server == Pairing!srp_verifier_new(name, salt, Verifier(name, pin, salt), user[1].A, b)
  IN  user # Pairing!Failed /\ server # Pairing!Failed =>
        /\ entered = pin => server[1].M = user[1].M
        /\ server[1].M = user[1].M =>
             /\ server[1].session_key = user[1].session_key
             /\ server[1].H_AMK = user[1].H_AMK

\* With the keys that both compute, they do.
LEMMA ProofsAgree ==
  ASSUME NEW name \in Nat, NEW pin \in Nat, NEW entered \in Nat, NEW salt \in Nat,
         NEW a \in Nat, NEW b \in Nat
  PROVE  Matching(name, pin, entered, salt, a, b)
<1> DEFINE x == Pairing!calculate_x(salt, name, pin)
           y == Pairing!calculate_x(salt, name, entered)
           k == Pairing!Multiplier
           v == Pairing!Power(GENERATOR, x)
           A == Pairing!Power(GENERATOR, a)
           B == (k * v + Pairing!Power(GENERATOR, b)) % PRIME
           u == Pairing!Digest(A, B)
           S == Pairing!Power((B - (k * Pairing!Power(GENERATOR, y))) % PRIME, a + (u * y))
           T == Pairing!Power((A * Pairing!Power(v, u)) % PRIME, b)
           K == Pairing!hash_session_key(S)
           L == Pairing!hash_session_key(T)
           M(key) == Pairing!calculate_M(name, salt, A, B, key)
           user == Pairing!srp_user_process_challenge(name, entered, a, salt, Sent(name, pin, salt, b))
           server == Pairing!srp_verifier_new(name, salt, Verifier(name, pin, salt), A, b)
<1>1. /\ x \in Nat /\ k \in Nat
  <2>1. Pairing!Digest(name, pin) \in Nat /\ Pairing!Digest(PRIME, GENERATOR) \in Nat
    <3>1. name \in Int /\ pin \in Int /\ PRIME \in Int /\ GENERATOR \in Int
      BY PairingAssumption
    <3> QED BY <3>1, DigestIsNumber
  <2>2. Pairing!Digest(salt, Pairing!Digest(name, pin)) \in Nat
    <3>1. salt \in Int /\ Pairing!Digest(name, pin) \in Int
      BY <2>1
    <3> QED BY <3>1, DigestIsNumber
  <2> QED BY <2>1, <2>2 DEF Pairing!calculate_x, Pairing!H_ns, Pairing!Multiplier,
                            Pairing!H_nn_rfc5054
<1>2. v \in Int /\ A \in Int /\ Pairing!Power(GENERATOR, b) \in Int
  <2>1. GENERATOR \in Int /\ PRIME \in Nat
    BY PairingAssumption
  <2>2. ASSUME NEW n \in Nat PROVE Pairing!Power(GENERATOR, n) \in Int
    <3>1. Pairing!Power(GENERATOR, n) \in 0 .. PRIME - 1
      BY <2>1, PowerRange
    <3> QED BY <2>1, <3>1
  <2> HIDE DEF x
  <2> QED BY <1>1, <2>2
<1>3. B \in Int
  <2> DEFINE n == k * v + Pairing!Power(GENERATOR, b)
  <2>1. n \in Int
    BY <1>1, <1>2
  <2> HIDE DEF n
  <2>2. n % PRIME \in Int
    BY <2>1, DivMod, PairingAssumption
  <2> QED BY <2>2 DEF n
<1>4. u \in Nat
  BY <1>2, <1>3, DigestIsNumber
<1>5. ASSUME entered = pin PROVE S = T
  <2>1. y = x
    BY <1>5
  <2> HIDE DEF x, y, k, u
  <2> QED BY <1>1, <1>4, <2>1, SharedNumber
<1>6. Verifier(name, pin, salt) = v /\ Sent(name, pin, salt, b) = B
  BY DEF Verifier, Sent, Pairing!srp_create_salted_verification_key,
         Pairing!srp_create_server_ephemeral_key
<1>7. user = IF B % PRIME = 0 THEN Pairing!Failed
             ELSE <<[A |-> A, session_key |-> K, M |-> M(K),
                     H_AMK |-> Pairing!calculate_H_AMK(A, M(K), K)]>>
  BY <1>6 DEF Pairing!srp_user_process_challenge, Pairing!srp_user_start_authentication,
              Pairing!H_nn_rfc5054
<1>8. server = IF A % PRIME = 0 THEN Pairing!Failed
               ELSE <<[session_key |-> L, M |-> M(L),
                       H_AMK |-> Pairing!calculate_H_AMK(A, M(L), L)]>>
  BY <1>6 DEF Pairing!srp_verifier_new, Pairing!H_nn_rfc5054
<1>9. ASSUME NEW p, NEW q, M(p) = M(q) PROVE p = q
  BY <1>9 DEF Pairing!calculate_M, Pairing!sha
<1> HIDE DEF x, y, k, v, A, B, u, S, T, K, L, M, user, server
<1>10. ASSUME user # Pairing!Failed, server # Pairing!Failed
       PROVE  /\ user[1].A = A /\ user[1].M = M(K) /\ user[1].session_key = K
              /\ user[1].H_AMK = Pairing!calculate_H_AMK(A, M(K), K)
              /\ server[1].M = M(L) /\ server[1].session_key = L
              /\ server[1].H_AMK = Pairing!calculate_H_AMK(A, M(L), L)
  BY <1>7, <1>8, <1>10
<1>11. user # Pairing!Failed => user[1].A = A
  BY <1>7
<1>12. entered = pin => K = L
  BY <1>5 DEF K, L
<1>13. user # Pairing!Failed /\ server # Pairing!Failed =>
         /\ entered = pin => server[1].M = user[1].M
         /\ server[1].M = user[1].M =>
              server[1].session_key = user[1].session_key /\ server[1].H_AMK = user[1].H_AMK
  BY <1>9, <1>10, <1>12
<1> QED BY <1>11, <1>13 DEF Matching, user, server, A

\* A session and a client's side are records with these fields, of some values.
SessionsOf(U) ==
  [status : U, srp : U, username : U, client_pk : U, pair_setup : U, ecdh_ours : U,
   ecdh_theirs : U, ed_theirs : U, ecdh_secret : U, aeskey : U]
PeersOf(U) ==
  [step : U, typed : U, pin : U, user : U, own : U, theirs : U, aeskey : U]
IsSession(s) == \E U : s \in SessionsOf(U)
IsPeer(p) == \E U : p \in PeersOf(U)

\* The server and the client work on one exchange, with the verifier of the pin
\* the client was shown, or another one.
Challenged(c, s, p) ==
  \E salt, a, b \in Nat :
    /\ s.username = c /\ p.user # Pairing!Failed
    /\ s.srp = <<[private_key |-> b, salt |-> salt, verifier |-> Verifier(c, p.pin, salt),
                  session_key |-> Pairing!NoSrp]>>
    /\ p.user = Pairing!srp_user_process_challenge(c, p.typed, a, salt, Sent(c, p.pin, salt, b))

\* Both ends agreed on a secret, and the server on who the client is.
Shaken(c, s, p) ==
  /\ s.ed_theirs = c
  /\ s.ecdh_theirs = Pairing!x25519_key_get_raw(p.own)
  /\ p.theirs = Pairing!x25519_key_get_raw(s.ecdh_ours)
  /\ s.ecdh_secret = Pairing!x25519_derive_secret(p.own, p.theirs)

\* A connection: s is the server's session, p the client's side, why the last
\* refusal.
ConnInv(c, s, p, why) ==
  /\ IsSession(s) /\ IsPeer(p) /\ p.typed \in Nat /\ p.pin \in Nat
  /\ why \in {"no", "size", "unregistered"} \/ (why = "proof" /\ p.typed # p.pin)
  /\ p.step = "asked" => why = "no"
  /\ p.step \in {"asked", "typed", "challenged", "proved"} => options.use_pin
  /\ p.step = "new" /\ ~options.use_pin => s.status = "INITIAL"
  /\ p.step = "challenged" => Challenged(c, s, p)
  /\ p.step = "proved" => \E k : s.srp = <<k>> /\ k.session_key = p.user[1].session_key
  /\ p.step = "paired" => s.status = "SETUP"
  /\ p.step = "verifying" => s.status = "HANDSHAKE" /\ Shaken(c, s, p)
  /\ p.step = "verified" => s.status = "FINISHED"
  /\ s.status = "FINISHED" => p.step \in {"verified", "streaming"} /\ Shaken(c, s, p)
  /\ p.step = "streaming" => s.aeskey = p.aeskey

PairInv ==
  /\ options \in PinOptions /\ raop_pin \in Nat /\ shown \in Nat
  /\ paired # {} => options.use_pin
  /\ pairing_session = [c \in Conns |-> pairing_session[c]]
  /\ peer = [c \in Conns |-> peer[c]]
  /\ refused = [c \in Conns |-> refused[c]]
  /\ \A c \in Conns : ConnInv(c, pairing_session[c], peer[c], refused[c])

\* A new session and a client that starts.
LEMMA NewPair ==
  /\ IsSession(Pairing!NewSession) /\ IsPeer(Pairing!NewPeer)
  /\ Pairing!NewSession.status = "INITIAL"
  /\ Pairing!NewPeer.step = "new" /\ Pairing!NewPeer.typed = 0 /\ Pairing!NewPeer.pin = 0
<1> DEFINE U == {"INITIAL", "new", 0, <<>>, FALSE}
<1>1. Pairing!NewSession \in SessionsOf(U) /\ Pairing!NewPeer \in PeersOf(U)
  BY DEF SessionsOf, PeersOf, Pairing!NewSession, Pairing!NewPeer, Pairing!NoSrp, Pairing!NoKey
<1> HIDE DEF U
<1>2. IsSession(Pairing!NewSession) /\ IsPeer(Pairing!NewPeer)
  BY <1>1 DEF IsSession, IsPeer
<1> QED BY <1>2 DEF Pairing!NewSession, Pairing!NewPeer

\* What the handlers change of a session, and the client of its side.
AtStep(p, step) == [p EXCEPT !.step = step]
Typing(p, step, entered) == [p EXCEPT !.step = step, !.typed = entered]
Asking(p, step, user, pin) == [p EXCEPT !.step = step, !.user = user, !.pin = pin]
Using(p, step, aeskey) == [p EXCEPT !.step = step, !.aeskey = aeskey]
WithSrp(s, srp) == [s EXCEPT !.srp = srp]
Named(s, username, srp) == [s EXCEPT !.username = username, !.srp = srp]
Confirmed(s, client_pk, pair_setup, status) ==
  [s EXCEPT !.client_pk = client_pk, !.pair_setup = pair_setup, !.status = status]
InStatus(s, status) == [s EXCEPT !.status = status]
Agreed(s, status, ours, theirs, ed, secret) ==
  [s EXCEPT !.status = status, !.ecdh_ours = ours, !.ecdh_theirs = theirs,
            !.ed_theirs = ed, !.ecdh_secret = secret]
WithKey(s, aeskey) == [s EXCEPT !.aeskey = aeskey]
Salted(s, salt, verifier) == [s EXCEPT !.srp[1].salt = salt, !.srp[1].verifier = verifier]
Proved(s, key) == [s EXCEPT !.srp[1].session_key = key]

\* A peer and a session with some fields changed.
\* The changes of a peer, and what they leave alone.
LEMMA PeerStep ==
  ASSUME NEW p, IsPeer(p), NEW step, NEW entered, NEW user, NEW pin, NEW aeskey
  PROVE  /\ LET q == AtStep(p, step)
            IN  /\ IsPeer(q) /\ q.step = step /\ q.typed = p.typed /\ q.pin = p.pin
                /\ q.user = p.user /\ q.own = p.own /\ q.theirs = p.theirs /\ q.aeskey = p.aeskey
         /\ LET q == Typing(p, step, entered)
            IN  IsPeer(q) /\ q.step = step /\ q.typed = entered /\ q.pin = p.pin
         /\ LET q == Asking(p, step, user, pin)
            IN  IsPeer(q) /\ q.step = step /\ q.user = user /\ q.pin = pin /\ q.typed = p.typed
         /\ LET q == Using(p, step, aeskey)
            IN  /\ IsPeer(q) /\ q.step = step /\ q.typed = p.typed /\ q.pin = p.pin
                /\ q.own = p.own /\ q.theirs = p.theirs /\ q.aeskey = aeskey
<1>1. PICK U : p \in PeersOf(U)
  BY DEF IsPeer
<1> DEFINE V == U \cup {step, entered, user, pin, aeskey}
<1>2. p \in PeersOf(V)
  BY <1>1 DEF PeersOf
<1>3. step \in V /\ entered \in V /\ user \in V /\ pin \in V /\ aeskey \in V
  OBVIOUS
<1> HIDE DEF V
<1>4. /\ LET q == [p EXCEPT !.step = step]
         IN  /\ q \in PeersOf(V) /\ q.step = step /\ q.typed = p.typed /\ q.pin = p.pin
             /\ q.user = p.user /\ q.own = p.own /\ q.theirs = p.theirs /\ q.aeskey = p.aeskey
  BY <1>2, <1>3 DEF PeersOf
<1>5. LET q == [p EXCEPT !.step = step, !.typed = entered]
      IN  q \in PeersOf(V) /\ q.step = step /\ q.typed = entered /\ q.pin = p.pin
  BY <1>2, <1>3 DEF PeersOf
<1>6. LET q == [p EXCEPT !.step = step, !.user = user, !.pin = pin]
      IN  q \in PeersOf(V) /\ q.step = step /\ q.user = user /\ q.pin = pin /\ q.typed = p.typed
  BY <1>2, <1>3 DEF PeersOf
<1>7. LET q == [p EXCEPT !.step = step, !.aeskey = aeskey]
      IN  /\ q \in PeersOf(V) /\ q.step = step /\ q.typed = p.typed /\ q.pin = p.pin
          /\ q.own = p.own /\ q.theirs = p.theirs /\ q.aeskey = aeskey
  BY <1>2, <1>3 DEF PeersOf
<1> QED BY <1>4, <1>5, <1>6, <1>7 DEF IsPeer, AtStep, Typing, Asking, Using

\* The changes of a session, and what they leave alone.
LEMMA SessionStep ==
  ASSUME NEW s, IsSession(s), NEW status, NEW srp, NEW username, NEW client_pk, NEW pair_setup,
         NEW ours, NEW theirs, NEW ed, NEW secret, NEW aeskey
  PROVE  /\ LET t == WithSrp(s, srp)
            IN  IsSession(t) /\ t.srp = srp /\ t.status = s.status
         /\ LET t == Named(s, username, srp)
            IN  IsSession(t) /\ t.srp = srp /\ t.username = username /\ t.status = s.status
         /\ LET t == Confirmed(s, client_pk, pair_setup, status)
            IN  IsSession(t) /\ t.status = status
         /\ LET t == InStatus(s, status)
            IN  /\ IsSession(t) /\ t.status = status /\ t.ecdh_ours = s.ecdh_ours
                /\ t.ecdh_theirs = s.ecdh_theirs /\ t.ed_theirs = s.ed_theirs
                /\ t.ecdh_secret = s.ecdh_secret
         /\ LET t == Agreed(s, status, ours, theirs, ed, secret)
            IN  /\ IsSession(t) /\ t.status = status /\ t.ecdh_ours = ours
                /\ t.ecdh_theirs = theirs /\ t.ed_theirs = ed /\ t.ecdh_secret = secret
         /\ LET t == WithKey(s, aeskey)
            IN  /\ IsSession(t) /\ t.status = s.status /\ t.ecdh_ours = s.ecdh_ours
                /\ t.ecdh_theirs = s.ecdh_theirs /\ t.ed_theirs = s.ed_theirs
                /\ t.ecdh_secret = s.ecdh_secret /\ t.aeskey = aeskey
<1>1. PICK U : s \in SessionsOf(U)
  BY DEF IsSession
<1> DEFINE V == U \cup {status, srp, username, client_pk, pair_setup, ours, theirs, ed, secret, aeskey}
<1>2. s \in SessionsOf(V)
  BY <1>1 DEF SessionsOf
<1>3. /\ status \in V /\ srp \in V /\ username \in V /\ client_pk \in V /\ pair_setup \in V
      /\ ours \in V /\ theirs \in V /\ ed \in V /\ secret \in V /\ aeskey \in V
  OBVIOUS
<1> HIDE DEF V
<1>4. LET t == [s EXCEPT !.srp = srp]
      IN  t \in SessionsOf(V) /\ t.srp = srp /\ t.status = s.status
  BY <1>2, <1>3 DEF SessionsOf
<1>5. LET t == [s EXCEPT !.username = username, !.srp = srp]
      IN  t \in SessionsOf(V) /\ t.srp = srp /\ t.username = username /\ t.status = s.status
  BY <1>2, <1>3 DEF SessionsOf
<1>6. LET t == [s EXCEPT !.client_pk = client_pk, !.pair_setup = pair_setup, !.status = status]
      IN  t \in SessionsOf(V) /\ t.status = status
  BY <1>2, <1>3 DEF SessionsOf
<1>7. LET t == [s EXCEPT !.status = status]
      IN  /\ t \in SessionsOf(V) /\ t.status = status /\ t.ecdh_ours = s.ecdh_ours
          /\ t.ecdh_theirs = s.ecdh_theirs /\ t.ed_theirs = s.ed_theirs
          /\ t.ecdh_secret = s.ecdh_secret
  BY <1>2, <1>3 DEF SessionsOf
<1>8. LET t == [s EXCEPT !.status = status, !.ecdh_ours = ours, !.ecdh_theirs = theirs,
                         !.ed_theirs = ed, !.ecdh_secret = secret]
      IN  /\ t \in SessionsOf(V) /\ t.status = status /\ t.ecdh_ours = ours
          /\ t.ecdh_theirs = theirs /\ t.ed_theirs = ed /\ t.ecdh_secret = secret
  BY <1>2, <1>3 DEF SessionsOf
<1>9. LET t == [s EXCEPT !.aeskey = aeskey]
      IN  /\ t \in SessionsOf(V) /\ t.status = s.status /\ t.ecdh_ours = s.ecdh_ours
          /\ t.ecdh_theirs = s.ecdh_theirs /\ t.ed_theirs = s.ed_theirs
          /\ t.ecdh_secret = s.ecdh_secret /\ t.aeskey = aeskey
  BY <1>2, <1>3 DEF SessionsOf
<1> QED BY <1>4, <1>5, <1>6, <1>7, <1>8, <1>9
        DEF IsSession, WithSrp, Named, Confirmed, InStatus, Agreed, WithKey

\* The numbers of an exchange, once they are there, and the key of the session.
LEMMA SessionSrp ==
  ASSUME NEW s, IsSession(s), NEW b, NEW salt, NEW verifier, NEW key, NEW old, NEW older, NEW oldest,
         s.srp = <<[private_key |-> b, salt |-> old, verifier |-> older, session_key |-> oldest]>>
  PROVE  /\ LET t == Salted(s, salt, verifier)
            IN  /\ IsSession(t) /\ t.status = s.status /\ t.username = s.username
                /\ t.srp = <<[private_key |-> b, salt |-> salt, verifier |-> verifier,
                              session_key |-> oldest]>>
         /\ LET t == Proved(s, key)
            IN  /\ IsSession(t) /\ t.status = s.status
                /\ t.srp = <<[private_key |-> b, salt |-> old, verifier |-> older,
                              session_key |-> key]>>
<1>1. PICK U : s \in SessionsOf(U)
  BY DEF IsSession
<1> DEFINE r == [private_key |-> b, salt |-> old, verifier |-> older, session_key |-> oldest]
           first == <<[private_key |-> b, salt |-> salt, verifier |-> older, session_key |-> oldest]>>
           whole == <<[private_key |-> b, salt |-> salt, verifier |-> verifier,
                       session_key |-> oldest]>>
           keyed == <<[private_key |-> b, salt |-> old, verifier |-> older, session_key |-> key]>>
           V == U \cup {first, whole, keyed}
<1>2. s \in SessionsOf(V) /\ first \in V /\ whole \in V /\ keyed \in V
  BY <1>1 DEF SessionsOf
<1>3. /\ [<<r>> EXCEPT ![1].salt = salt] = first
      /\ [first EXCEPT ![1].verifier = verifier] = whole
      /\ [<<r>> EXCEPT ![1].session_key = key] = keyed
  OBVIOUS
<1>4. [s EXCEPT !.srp[1].salt = salt, !.srp[1].verifier = verifier] = [s EXCEPT !.srp = whole]
  BY <1>1, <1>3 DEF SessionsOf
<1>5. [s EXCEPT !.srp[1].session_key = key] = [s EXCEPT !.srp = keyed]
  BY <1>1, <1>3 DEF SessionsOf
<1> HIDE DEF V, first, whole, keyed
<1>6. LET t == [s EXCEPT !.srp = whole]
      IN  /\ t \in SessionsOf(V) /\ t.status = s.status /\ t.username = s.username
          /\ t.srp = whole
  BY <1>2 DEF SessionsOf
<1>7. LET t == [s EXCEPT !.srp = keyed]
      IN  t \in SessionsOf(V) /\ t.status = s.status /\ t.srp = keyed
  BY <1>2 DEF SessionsOf
<1> QED BY <1>4, <1>5, <1>6, <1>7 DEF IsSession, whole, keyed, Salted, Proved

\* A server that starts.
LEMMA PairBegins == Pairing!Init => PairInv
<1> SUFFICES ASSUME Pairing!Init PROVE PairInv
  OBVIOUS
<1>1. ASSUME NEW c \in Conns PROVE ConnInv(c, pairing_session[c], peer[c], refused[c])
  <2>1. /\ pairing_session[c] = Pairing!NewSession /\ peer[c] = Pairing!NewPeer
        /\ refused[c] = "no"
    BY DEF Pairing!Init
  <2> QED BY <2>1, NewPair DEF ConnInv
<1>2. /\ options \in PinOptions /\ raop_pin \in Nat /\ shown \in Nat /\ paired = {}
      /\ pairing_session = [c \in Conns |-> pairing_session[c]]
      /\ peer = [c \in Conns |-> peer[c]]
      /\ refused = [c \in Conns |-> refused[c]]
  BY PairingAssumption DEF Pairing!Init
<1> QED BY <1>1, <1>2 DEF PairInv

\* The invariant says what the two properties do.
LEMMA PairInvImplies == PairInv => RightPinIsAccepted /\ SecretsAgree
<1> SUFFICES ASSUME PairInv PROVE RightPinIsAccepted /\ SecretsAgree
  OBVIOUS
<1>1. RightPinIsAccepted
  BY DEF PairInv, ConnInv, RightPinIsAccepted, Pairing!RightPinIsAccepted
<1>2. ASSUME NEW c \in Conns
      PROVE  /\ peer[c].step = "proved" =>
                  pairing_session[c].srp[1].session_key = peer[c].user[1].session_key
             /\ pairing_session[c].status = "FINISHED" =>
                  /\ peer[c].step \in {"verified", "streaming"}
                  /\ pairing_session[c].ed_theirs = c
                  /\ pairing_session[c].ecdh_secret =
                       Pairing!x25519_derive_secret(peer[c].own, peer[c].theirs)
             /\ peer[c].step = "streaming" => pairing_session[c].aeskey = peer[c].aeskey
  <2>1. ConnInv(c, pairing_session[c], peer[c], refused[c])
    BY DEF PairInv
  <2>2. peer[c].step = "proved" =>
          pairing_session[c].srp[1].session_key = peer[c].user[1].session_key
    BY <2>1 DEF ConnInv
  <2>3. /\ pairing_session[c].status = "FINISHED" =>
             peer[c].step \in {"verified", "streaming"} /\ Shaken(c, pairing_session[c], peer[c])
        /\ peer[c].step = "streaming" => pairing_session[c].aeskey = peer[c].aeskey
    BY <2>1 DEF ConnInv
  <2> QED BY <2>2, <2>3 DEF Shaken
<1>3. SecretsAgree
  BY <1>2, Zenon DEF SecretsAgree, Pairing!SecretsAgree
<1> QED BY <1>1, <1>3

\* What a handler and the client make of one connection; the others stay.
LEMMA PairAnswered ==
  ASSUME PairInv, NEW c \in Conns, NEW s, NEW p, NEW why, Pairing!Answered(c, s, p, why),
         ConnInv(c, s, p, why), options' = options, raop_pin' \in Nat, shown' \in Nat,
         paired' # {} => options.use_pin
  PROVE  PairInv'
<1>1. /\ pairing_session' = [d \in Conns |-> IF d = c THEN s ELSE pairing_session[d]]
      /\ peer' = [d \in Conns |-> IF d = c THEN p ELSE peer[d]]
      /\ refused' = [d \in Conns |-> IF d = c THEN why ELSE refused[d]]
  BY DEF PairInv, Pairing!Answered
<1>2. /\ pairing_session' = [d \in Conns |-> pairing_session'[d]]
      /\ peer' = [d \in Conns |-> peer'[d]]
      /\ refused' = [d \in Conns |-> refused'[d]]
  BY <1>1
<1>3. ASSUME NEW d \in Conns
      PROVE  ConnInv(d, pairing_session'[d], peer'[d], refused'[d])
  <2>1. CASE d = c
    BY <1>1, <2>1
  <2>2. CASE d # c
    <3>1. pairing_session'[d] = pairing_session[d] /\ peer'[d] = peer[d] /\ refused'[d] = refused[d]
      BY <1>1, <2>2
    <3> QED BY <3>1 DEF PairInv
  <2> QED BY <2>1, <2>2
<1>4. ASSUME NEW d \in Conns
      PROVE  ConnInv(d, pairing_session[d], peer[d], refused[d])'
  BY <1>3, ZenonT(60) DEF ConnInv, Challenged, Shaken, IsSession, IsPeer
<1> QED BY <1>2, <1>4 DEF PairInv

\* The pin that is shown has four digits.
LEMMA PinIsNumber ==
  ASSUME NEW n \in Nat
  PROVE  n % Pairing!RANDOM_PINS \in Nat
<1>1. 10000 \in Nat \ {0} /\ n \in Int
  OBVIOUS
<1>2. n % 10000 \in 0 .. 10000 - 1
  BY <1>1, DivMod
<1> QED BY <1>2 DEF Pairing!RANDOM_PINS

\* pair-pin-start: only a server with pins has it.
LEMMA PinStartKeeps ==
  ASSUME PairInv, NEW c \in Conns, Pairing!PinStart(c)
  PROVE  PairInv'
<1> DEFINE s == pairing_session[c]
           p == AtStep(Pairing!NewPeer, "asked")
<1>1. ConnInv(c, s, peer[c], refused[c]) /\ raop_pin \in Nat /\ PinChoices \subseteq Nat
  BY PairingAssumption DEF PairInv
<1>2. options.use_pin /\ peer[c].step = "new" /\ options' = options /\ paired' = paired
  BY DEF Pairing!PinStart
<1>3. raop_pin' \in Nat /\ shown' \in Nat
  <2>1. raop_pin' \in Nat /\ shown' = raop_pin' % Pairing!RANDOM_PINS
    BY <1>1 DEF Pairing!PinStart
  <2> QED BY <2>1, PinIsNumber
<1>4. IsPeer(p) /\ p.step = "asked" /\ p.typed = 0 /\ p.pin = 0
  BY NewPair, PeerStep
<1>5. Pairing!Answered(c, s, p, "no")
  BY DEF Pairing!PinStart, AtStep
<1> HIDE DEF s, p
<1>6. ConnInv(c, s, p, "no")
  BY <1>1, <1>2, <1>4 DEF ConnInv
<1> QED BY <1>2, <1>3, <1>5, <1>6, PairAnswered DEF PairInv

\* The user reads the screen.
LEMMA ReadPinKeeps ==
  ASSUME PairInv, NEW c \in Conns, Pairing!ReadPin(c)
  PROVE  PairInv'
<1> DEFINE s == pairing_session[c]
           p == Typing(peer[c], "typed", shown)
           why == refused[c]
<1>1. ConnInv(c, s, peer[c], why) /\ shown \in Nat /\ raop_pin \in Nat
  BY DEF PairInv
<1>2. /\ peer[c].step = "asked" /\ options' = options /\ paired' = paired
      /\ shown' = shown /\ raop_pin' = raop_pin
  BY DEF Pairing!ReadPin
<1>3. IsPeer(p) /\ p.step = "typed" /\ p.typed = shown /\ p.pin = peer[c].pin
  <2>1. IsPeer(peer[c])
    BY <1>1 DEF ConnInv
  <2> QED BY <2>1, PeerStep
<1>4. Pairing!Answered(c, s, p, why)
  <2>1. peer' = [peer EXCEPT ![c] = p]
    BY DEF Pairing!ReadPin, PairInv, Typing
  <2>2. pairing_session' = [pairing_session EXCEPT ![c] = s] /\ refused' = [refused EXCEPT ![c] = why]
    BY DEF Pairing!ReadPin, PairInv
  <2> QED BY <2>1, <2>2 DEF Pairing!Answered
<1> HIDE DEF s, p, why
<1>5. ConnInv(c, s, p, why)
  BY <1>1, <1>2, <1>3 DEF ConnInv
<1> QED BY <1>1, <1>2, <1>4, <1>5, PairAnswered DEF PairInv

\* pair-setup-pin, the challenge: the server keeps the verifier of its pin.
LEMMA SetupUserKeeps ==
  ASSUME PairInv, NEW c \in Conns, Pairing!SetupUser(c)
  PROVE  PairInv'
<1> DEFINE s == pairing_session[c]
           q == peer[c]
           pin == raop_pin % Pairing!RANDOM_PINS
<1>1. /\ ConnInv(c, s, q, refused[c]) /\ shown \in Nat /\ raop_pin \in Nat /\ q.step = "typed"
      /\ options' = options /\ paired' = paired /\ shown' = shown /\ raop_pin' \in Nat
      /\ paired # {} => options.use_pin
  BY SMTT(40) DEF PairInv, Pairing!SetupUser
<1>2. PICK salt \in Salts, b \in ServerKeys, a \in ClientKeys :
        LET verifier == Verifier(c, pin, salt)
            B == Sent(c, pin, salt, b)
            new == [s EXCEPT !.username = c,
                     !.srp = <<[private_key |-> b, salt |-> 0, verifier |-> 0,
                                session_key |-> Pairing!NoSrp]>>]
            user == Pairing!srp_user_process_challenge(c, q.typed, a, salt, B)
        IN  IF ~Pairing!WellSized(salt, verifier)
            THEN Pairing!Answered(c, new, Pairing!NewPeer, "size")
            ELSE Pairing!Answered(c,
                   [new EXCEPT !.srp[1].salt = salt, !.srp[1].verifier = verifier],
                   IF user = Pairing!Failed THEN Pairing!NewPeer
                   ELSE [q EXCEPT !.step = "challenged", !.user = user, !.pin = pin], "no")
  BY ZenonT(60) DEF Pairing!SetupUser, Verifier, Sent, Pairing!PinString
<1> DEFINE verifier == Verifier(c, pin, salt)
           user == Pairing!srp_user_process_challenge(c, q.typed, a, salt, Sent(c, pin, salt, b))
           first == [private_key |-> b, salt |-> 0, verifier |-> 0, session_key |-> Pairing!NoSrp]
           new == Named(s, c, <<first>>)
           whole == Salted(new, salt, verifier)
           challenged == Asking(q, "challenged", user, pin)
<1>3. pin \in Nat /\ salt \in Nat /\ a \in Nat /\ b \in Nat
  BY <1>1, PinIsNumber, PairingAssumption
<1>4. options.use_pin /\ s.status # "FINISHED" /\ IsSession(s) /\ IsPeer(q) /\ q.typed \in Nat
  BY <1>1 DEF ConnInv
<1> HIDE DEF verifier, user, pin, s, q
<1>5. /\ IsSession(new) /\ new.status = s.status /\ new.username = c /\ new.srp = <<first>>
  <2> HIDE DEF first
  <2> QED BY <1>4, SessionStep
<1>6. /\ IsSession(whole) /\ whole.status = s.status /\ whole.username = c
      /\ whole.srp = <<[private_key |-> b, salt |-> salt, verifier |-> verifier,
                        session_key |-> Pairing!NoSrp]>>
  <2> HIDE DEF new
  <2> USE DEF first
  <2>1. IsSession(new) /\ new.srp = <<[private_key |-> b, salt |-> 0, verifier |-> 0,
                                      session_key |-> Pairing!NoSrp]>>
    BY <1>5
  <2>2. /\ IsSession(whole) /\ whole.status = new.status /\ whole.username = new.username
        /\ whole.srp = <<[private_key |-> b, salt |-> salt, verifier |-> verifier,
                          session_key |-> Pairing!NoSrp]>>
    BY <2>1, SessionSrp
  <2> QED BY <1>5, <2>2
<1>7. /\ IsPeer(challenged) /\ challenged.step = "challenged" /\ challenged.user = user /\ challenged.pin = pin
      /\ challenged.typed = q.typed
  BY <1>4, PeerStep
<1> HIDE DEF new, whole, challenged, first
<1>8. ConnInv(c, new, Pairing!NewPeer, "size")
  BY <1>4, <1>5, NewPair DEF ConnInv
<1>9. ConnInv(c, whole, Pairing!NewPeer, "no")
  BY <1>4, <1>6, NewPair DEF ConnInv
<1>10. ASSUME user # Pairing!Failed PROVE ConnInv(c, whole, challenged, "no")
  <2>1. Challenged(c, whole, challenged)
    BY <1>3, <1>6, <1>7, <1>10, SMTT(40) DEF Challenged, verifier, user
  <2> QED BY <1>3, <1>4, <1>6, <1>7, <2>1 DEF ConnInv
<1>11. \/ Pairing!Answered(c, new, Pairing!NewPeer, "size")
       \/ Pairing!Answered(c, whole, Pairing!NewPeer, "no")
       \/ user # Pairing!Failed /\ Pairing!Answered(c, whole, challenged, "no")
  BY <1>2 DEF new, whole, challenged, first, verifier, user, s, q, pin, Named, Salted, Asking
<1> QED BY <1>1, <1>8, <1>9, <1>10, <1>11, PairAnswered

\* pair-setup-pin, the proof: it fails only for a pin other than the shown one.
LEMMA SetupProofKeeps ==
  ASSUME PairInv, NEW c \in Conns, Pairing!SetupProof(c)
  PROVE  PairInv'
<1> DEFINE s == pairing_session[c]
           p == peer[c]
           again == Pairing!Again(c)
<1>1. /\ ConnInv(c, s, p, refused[c]) /\ p.step = "challenged"
      /\ options' = options /\ paired' = paired /\ shown' = shown /\ raop_pin' = raop_pin
      /\ raop_pin \in Nat /\ shown \in Nat /\ (paired # {} => options.use_pin)
  BY DEF PairInv, Pairing!SetupProof
<1>2. /\ IsSession(s) /\ IsPeer(p) /\ p.typed \in Nat /\ p.pin \in Nat /\ options.use_pin
      /\ s.status # "FINISHED" /\ Challenged(c, s, p)
  BY <1>1 DEF ConnInv
<1>3. PICK salt, a, b \in Nat :
        /\ s.username = c /\ p.user # Pairing!Failed
        /\ s.srp = <<[private_key |-> b, salt |-> salt, verifier |-> Verifier(c, p.pin, salt),
                      session_key |-> Pairing!NoSrp]>>
        /\ p.user = Pairing!srp_user_process_challenge(c, p.typed, a, salt, Sent(c, p.pin, salt, b))
  BY <1>2, SMTT(40) DEF Challenged
<1> DEFINE server == Pairing!srp_verifier_new(c, salt, Verifier(c, p.pin, salt), p.user[1].A, b)
           lost == WithSrp(s, Pairing!NoSrp)
           kept == Proved(s, server[1].session_key)
           done == AtStep(p, "proved")
<1>4. /\ server # Pairing!Failed
      /\ \/ /\ server[1].M # p.user[1].M
            /\ Pairing!Answered(c, lost, again, "proof")
         \/ /\ server[1].M = p.user[1].M
            /\ Pairing!Answered(c, kept, done,
                 IF p.user[1].H_AMK = server[1].H_AMK THEN "no" ELSE "server")
  <2>1. server = Pairing!srp_verifier_new(s.username, s.srp[1].salt, s.srp[1].verifier,
                                          p.user[1].A, s.srp[1].private_key)
    BY <1>3
  <2> HIDE DEF server
  <2> QED BY <2>1, ZenonT(60) DEF Pairing!SetupProof, Pairing!srp_verifier_verify_session,
                      Pairing!srp_user_verify_session, WithSrp, Proved, AtStep
<1>5. /\ p.typed = p.pin => server[1].M = p.user[1].M
      /\ server[1].M = p.user[1].M =>
           /\ server[1].session_key = p.user[1].session_key
           /\ server[1].H_AMK = p.user[1].H_AMK
  <2>1. c \in Nat
    BY PairingAssumption, SMTT(40)
  <2> DEFINE entered == p.typed
             pin == p.pin
             user == p.user
  <2>2. /\ entered \in Nat /\ pin \in Nat /\ user # Pairing!Failed /\ server # Pairing!Failed
        /\ user = Pairing!srp_user_process_challenge(c, entered, a, salt, Sent(c, pin, salt, b))
        /\ server = Pairing!srp_verifier_new(c, salt, Verifier(c, pin, salt), user[1].A, b)
    BY <1>2, <1>3, <1>4
  <2> HIDE DEF entered, pin, user, server
  <2>3. /\ entered = pin => server[1].M = user[1].M
        /\ server[1].M = user[1].M =>
             server[1].session_key = user[1].session_key /\ server[1].H_AMK = user[1].H_AMK
    <3> DEFINE x == Pairing!srp_user_process_challenge(c, entered, a, salt, Sent(c, pin, salt, b))
               y == Pairing!srp_verifier_new(c, salt, Verifier(c, pin, salt), x[1].A, b)
    <3>1. x # Pairing!Failed /\ y # Pairing!Failed =>
            /\ entered = pin => y[1].M = x[1].M
            /\ y[1].M = x[1].M =>
                 y[1].session_key = x[1].session_key /\ y[1].H_AMK = x[1].H_AMK
      <4>1. c \in Nat /\ entered \in Nat /\ pin \in Nat /\ salt \in Nat /\ a \in Nat /\ b \in Nat
        BY <2>1, <2>2
      <4>2. Matching(c, pin, entered, salt, a, b)
        BY <4>1, ProofsAgree
      <4> QED BY <4>2 DEF Matching
    <3>2. user = x
      BY <2>2
    <3>3. server = y
      BY <2>2, <3>2
    <3> HIDE DEF x, y
    <3> QED BY <2>2, <3>1, <3>2, <3>3
  <2> QED BY <2>3 DEF entered, pin, user
<1>6. /\ IsPeer(again) /\ again.step = "new" /\ again.typed = p.typed /\ again.pin = p.pin
  <2> DEFINE entered == p.typed
             pin == p.pin
             U == {"new", 0, <<>>, entered, pin}
  <2>1. again = [Pairing!NewPeer EXCEPT !.typed = entered, !.pin = pin]
    BY DEF Pairing!Again
  <2> HIDE DEF entered, pin, again
  <2>2. again \in PeersOf(U) /\ again.step = "new" /\ again.typed = entered /\ again.pin = pin
    BY <2>1 DEF PeersOf, Pairing!NewPeer, Pairing!NoSrp, Pairing!NoKey
  <2> HIDE DEF U
  <2> QED BY <2>2 DEF IsPeer, entered, pin
<1> HIDE DEF s, p, again, server
<1>7. IsSession(lost) /\ lost.status = s.status
  BY <1>2, SessionStep
<1>8. /\ IsSession(kept) /\ kept.status = s.status
      /\ kept.srp = <<[private_key |-> b, salt |-> salt, verifier |-> Verifier(c, p.pin, salt),
                       session_key |-> server[1].session_key]>>
  BY <1>2, <1>3, SessionSrp
<1>9. /\ IsPeer(done) /\ done.step = "proved" /\ done.typed = p.typed /\ done.pin = p.pin
      /\ done.user = p.user
  BY <1>2, PeerStep
<1> HIDE DEF lost, kept, done
<1>10. CASE server[1].M # p.user[1].M /\ Pairing!Answered(c, lost, again, "proof")
  <2>1. ConnInv(c, lost, again, "proof")
    BY <1>2, <1>5, <1>6, <1>7, <1>10 DEF ConnInv
  <2> QED BY <1>1, <1>10, <2>1, PairAnswered
<1>11. CASE /\ server[1].M = p.user[1].M
            /\ Pairing!Answered(c, kept, done,
                 IF p.user[1].H_AMK = server[1].H_AMK THEN "no" ELSE "server")
  <2>1. Pairing!Answered(c, kept, done, "no") /\ server[1].session_key = p.user[1].session_key
    BY <1>5, <1>11
  <2>2. \E k : kept.srp = <<k>> /\ k.session_key = done.user[1].session_key
    <3> DEFINE k == [private_key |-> b, salt |-> salt, verifier |-> Verifier(c, p.pin, salt),
                     session_key |-> server[1].session_key]
    <3>1. k.session_key = done.user[1].session_key
      BY <1>9, <2>1
    <3>2. kept.srp = <<k>>
      BY <1>8
    <3> HIDE DEF k
    <3> QED BY <3>1, <3>2
  <2>3. ConnInv(c, kept, done, "no")
    BY <1>2, <1>8, <1>9, <2>2 DEF ConnInv
  <2> QED BY <1>1, <2>1, <2>3, PairAnswered
<1> QED BY <1>4, <1>10, <1>11

\* pair-setup-pin, the confirmation: what is encrypted with one side's key is
\* read with the other's.
LEMMA SetupConfirmKeeps ==
  ASSUME PairInv, NEW c \in Conns, Pairing!SetupConfirm(c)
  PROVE  PairInv'
<1> DEFINE s == pairing_session[c]
           p == peer[c]
           lost == WithSrp(s, Pairing!NoSrp)
           done == Confirmed(lost, c, TRUE, "SETUP")
           ready == AtStep(Pairing!NewPeer, "paired")
<1>1. /\ ConnInv(c, s, p, refused[c]) /\ p.step = "proved"
      /\ options' = options /\ shown' = shown /\ raop_pin' = raop_pin
      /\ raop_pin \in Nat /\ shown \in Nat
  BY DEF PairInv, Pairing!SetupConfirm
<1>2. /\ IsSession(s) /\ options.use_pin
      /\ s.srp[1].session_key = p.user[1].session_key
  BY <1>1 DEF ConnInv
<1>3. Pairing!Answered(c, done, ready, "no")
  <2> DEFINE K == p.user[1].session_key
             k == Pairing!SetupKey(K)
             one == Pairing!SetupIv(K, 1)
             two == Pairing!SetupIv(K, 2)
  <2>1. /\ Pairing!gcm_decrypt(Pairing!gcm_encrypt(c, k, one), k, one) = <<c>>
        /\ Pairing!gcm_decrypt(Pairing!gcm_encrypt("server", k, two), k, two) = <<"server">>
    <3> HIDE DEF k, one, two
    <3> QED BY DEF Pairing!gcm_decrypt, Pairing!gcm_encrypt
  <2>2. <<c>> # Pairing!Garbage
    BY DEF Pairing!Garbage
  <2>3. <<c>>[1] = c
    OBVIOUS
  <2> QED BY <1>2, <2>1, <2>2, <2>3, ZenonT(60)
          DEF Pairing!SetupConfirm, Pairing!AnswerIv, Pairing!SERVER, WithSrp, Confirmed, AtStep
<1> HIDE DEF s, p
<1>4. IsSession(lost) /\ lost.status = s.status
  BY <1>2, SessionStep
<1> HIDE DEF lost
<1>5. IsSession(done) /\ done.status = "SETUP"
  <2> DEFINE yes == TRUE
             next == Confirmed(lost, c, yes, "SETUP")
  <2> HIDE DEF yes
  <2>1. IsSession(next) /\ next.status = "SETUP"
    BY <1>4, SessionStep
  <2> QED BY <2>1 DEF yes
<1>6. IsPeer(ready) /\ ready.step = "paired" /\ ready.typed = 0 /\ ready.pin = 0
  BY NewPair, PeerStep
<1> HIDE DEF done, ready
<1>7. ConnInv(c, done, ready, "no")
  BY <1>2, <1>5, <1>6 DEF ConnInv
<1> QED BY <1>1, <1>2, <1>3, <1>7, PairAnswered

\* pair-setup without a pin.
LEMMA PairSetupKeeps ==
  ASSUME PairInv, NEW c \in Conns, Pairing!PairSetup(c)
  PROVE  PairInv'
<1> DEFINE s == pairing_session[c]
           done == InStatus(s, "SETUP")
           ready == AtStep(Pairing!NewPeer, "paired")
<1>1. /\ ConnInv(c, s, peer[c], refused[c])
      /\ options' = options /\ shown' = shown /\ raop_pin' = raop_pin /\ paired' = paired
      /\ raop_pin \in Nat /\ shown \in Nat /\ (paired # {} => options.use_pin)
      /\ Pairing!Answered(c, done, ready, "no")
  BY DEF PairInv, Pairing!PairSetup, InStatus, AtStep
<1>2. IsSession(s)
  BY <1>1 DEF ConnInv
<1> HIDE DEF s
<1>3. IsSession(done) /\ done.status = "SETUP"
  BY <1>2, SessionStep
<1>4. IsPeer(ready) /\ ready.step = "paired" /\ ready.typed = 0 /\ ready.pin = 0
  BY NewPair, PeerStep
<1> HIDE DEF done, ready
<1>5. ConnInv(c, done, ready, "no")
  BY <1>3, <1>4 DEF ConnInv
<1> QED BY <1>1, <1>5, PairAnswered

\* Both ends of a key agreement come to the same secret.
LEMMA SameSecret ==
  ASSUME NEW own \in ClientKeys, NEW ours \in ServerKeys
  PROVE  Pairing!x25519_derive_secret(ours, Pairing!x25519_key_get_raw(own)) =
           Pairing!x25519_derive_secret(own, Pairing!x25519_key_get_raw(ours))
<1>1. GENERATOR \in Int /\ own \in Nat /\ ours \in Nat
  BY PairingAssumption
<1> QED BY <1>1, PowersCommute DEF Pairing!x25519_derive_secret, Pairing!x25519_key_get_raw

\* What is signed and encrypted at one end is decrypted and verified at the
\* other, if the key stream is the same.
LEMMA SignedAndSealed ==
  ASSUME NEW ctx, NEW message, NEW key
  PROVE  LET sent == Pairing!aes_ctr_encrypt(ctx, Pairing!ed25519_sign(message, key))
         IN  Pairing!ed25519_verify(Pairing!aes_ctr_decrypt(ctx, sent), message, key)
<1> DEFINE text == Pairing!ed25519_sign(message, key)
<1> HIDE DEF text
<1>1. Pairing!aes_ctr_decrypt(ctx, Pairing!aes_ctr_encrypt(ctx, text)) = <<text>>
  BY DEF Pairing!aes_ctr_decrypt, Pairing!aes_ctr_encrypt
<1> QED BY <1>1 DEF Pairing!ed25519_verify, text

\* pair-verify, the handshake: a client the server does not know has paired with
\* a pin at an earlier connection.
LEMMA VerifyHandshakeKeeps ==
  ASSUME PairInv, NEW c \in Conns, Pairing!VerifyHandshake(c)
  PROVE  PairInv'
<1> DEFINE s == pairing_session[c]
           p == peer[c]
<1>1. /\ ConnInv(c, s, p, refused[c])
      /\ p.step \in {"paired", "verifying"} \/ (p.step = "new" /\ c \in paired)
      /\ options' = options /\ shown' = shown /\ raop_pin' = raop_pin
      /\ raop_pin \in Nat /\ shown \in Nat /\ (paired # {} => options.use_pin)
      /\ paired' \subseteq paired
  BY DEF PairInv, Pairing!VerifyHandshake
<1>2. PICK own \in ClientKeys, ours \in ServerKeys :
        LET theirs == Pairing!x25519_key_get_raw(own)
            secret == Pairing!x25519_derive_secret(ours, theirs)
            stream_ == Pairing!SignatureStream(secret)
            sent == Pairing!aes_ctr_encrypt(stream_,
                      Pairing!ed25519_sign(<<Pairing!x25519_key_get_raw(ours), theirs>>, "server"))
            shake == Agreed(s, "HANDSHAKE", ours, theirs, c, secret)
            known == Pairing!x25519_derive_secret(own, Pairing!x25519_key_get_raw(ours))
            signature == Pairing!aes_ctr_decrypt(Pairing!SignatureStream(known), sent)
        IN  \/ /\ s.status \notin {"SETUP", "HANDSHAKE"}
               /\ Pairing!Answered(c, shake, Pairing!NewPeer, "unregistered")
            \/ Pairing!Answered(c, shake,
                  [Pairing!NewPeer EXCEPT !.step = "verifying", !.own = own,
                                          !.theirs = Pairing!x25519_key_get_raw(ours)],
                  IF Pairing!ed25519_verify(signature,
                       <<Pairing!x25519_key_get_raw(ours), theirs>>, "server")
                    THEN "no" ELSE "server")
  BY Zenon DEF Pairing!VerifyHandshake, Agreed, Pairing!SERVER
<1> DEFINE theirs == Pairing!x25519_key_get_raw(own)
           mine == Pairing!x25519_key_get_raw(ours)
           secret == Pairing!x25519_derive_secret(ours, theirs)
           known == Pairing!x25519_derive_secret(own, mine)
           shake == Agreed(s, "HANDSHAKE", ours, theirs, c, secret)
           ready == [Pairing!NewPeer EXCEPT !.step = "verifying", !.own = own, !.theirs = mine]
<1>3. secret = known
  BY SameSecret
<1>4. Pairing!ed25519_verify(
        Pairing!aes_ctr_decrypt(Pairing!SignatureStream(known),
          Pairing!aes_ctr_encrypt(Pairing!SignatureStream(secret),
            Pairing!ed25519_sign(<<mine, theirs>>, "server"))), <<mine, theirs>>, "server")
  <2> HIDE DEF secret, known, mine, theirs
  <2> QED BY <1>3, SignedAndSealed
<1>5. \/ /\ s.status \notin {"SETUP", "HANDSHAKE"}
         /\ Pairing!Answered(c, shake, Pairing!NewPeer, "unregistered")
      \/ Pairing!Answered(c, shake, ready, "no")
  <2> DEFINE ok == Pairing!ed25519_verify(
        Pairing!aes_ctr_decrypt(Pairing!SignatureStream(known),
          Pairing!aes_ctr_encrypt(Pairing!SignatureStream(secret),
            Pairing!ed25519_sign(<<mine, theirs>>, "server"))), <<mine, theirs>>, "server")
  <2>1. \/ /\ s.status \notin {"SETUP", "HANDSHAKE"}
           /\ Pairing!Answered(c, shake, Pairing!NewPeer, "unregistered")
        \/ Pairing!Answered(c, shake, ready, IF ok THEN "no" ELSE "server")
    BY <1>2, Zenon
  <2>2. ok
    BY <1>4
  <2> HIDE DEF ok
  <2> QED BY <2>1, <2>2
<1>6. IsSession(s) /\ (p.step = "paired" => s.status = "SETUP")
      /\ (p.step = "verifying" => s.status = "HANDSHAKE")
  BY <1>1 DEF ConnInv
<1>7. /\ IsPeer(ready) /\ ready.step = "verifying" /\ ready.typed = 0 /\ ready.pin = 0
      /\ ready.own = own /\ ready.theirs = mine
  <2> DEFINE U == {"verifying", 0, <<>>, own, mine}
  <2> HIDE DEF mine
  <2>1. /\ ready \in PeersOf(U) /\ ready.step = "verifying" /\ ready.typed = 0 /\ ready.pin = 0
        /\ ready.own = own /\ ready.theirs = mine
    BY DEF PeersOf, Pairing!NewPeer, Pairing!NoSrp, Pairing!NoKey
  <2> HIDE DEF U
  <2> QED BY <2>1 DEF IsPeer
<1> HIDE DEF s, p
<1>8. /\ IsSession(shake) /\ shake.status = "HANDSHAKE" /\ shake.ecdh_ours = ours
      /\ shake.ecdh_theirs = theirs /\ shake.ed_theirs = c /\ shake.ecdh_secret = secret
  <2> HIDE DEF theirs, secret
  <2> QED BY <1>6, SessionStep
<1>9. Shaken(c, shake, ready)
  <2> HIDE DEF shake, ready
  <2> QED BY <1>3, <1>7, <1>8 DEF Shaken
<1> HIDE DEF shake, ready
<1>10. CASE Pairing!Answered(c, shake, ready, "no")
  <2>1. ConnInv(c, shake, ready, "no")
    BY <1>7, <1>8, <1>9 DEF ConnInv
  <2> QED BY <1>1, <1>10, <2>1, PairAnswered
<1>11. CASE /\ s.status \notin {"SETUP", "HANDSHAKE"}
            /\ Pairing!Answered(c, shake, Pairing!NewPeer, "unregistered")
  <2>1. options.use_pin
    BY <1>1, <1>6, <1>11
  <2>2. ConnInv(c, shake, Pairing!NewPeer, "unregistered")
    BY <1>8, <2>1, NewPair DEF ConnInv
  <2> QED BY <1>1, <1>11, <2>2, PairAnswered
<1> QED BY <1>5, <1>10, <1>11

\* pair-verify, the client's signature: it is accepted.
LEMMA VerifyFinishKeeps ==
  ASSUME PairInv, NEW c \in Conns, Pairing!VerifyFinish(c)
  PROVE  PairInv'
<1> DEFINE s == pairing_session[c]
           p == peer[c]
           done == InStatus(s, "FINISHED")
           ready == AtStep(p, "verified")
           secret == Pairing!x25519_derive_secret(p.own, p.theirs)
           ctx == Pairing!aes_ctr_next(Pairing!SignatureStream(secret))
           message == <<Pairing!x25519_key_get_raw(p.own), p.theirs>>
           text == Pairing!ed25519_sign(message, c)
           received == Pairing!aes_ctr_decrypt(ctx, Pairing!aes_ctr_encrypt(ctx, text))
<1>1. /\ ConnInv(c, s, p, refused[c]) /\ p.step = "verifying"
      /\ options' = options /\ shown' = shown /\ raop_pin' = raop_pin /\ paired' = paired
      /\ raop_pin \in Nat /\ shown \in Nat /\ (paired # {} => options.use_pin)
  BY DEF PairInv, Pairing!VerifyFinish
<1>2. IsSession(s) /\ IsPeer(p) /\ Shaken(c, s, p) /\ p.typed \in Nat /\ p.pin \in Nat
  BY <1>1 DEF ConnInv
<1>3. /\ s.ecdh_secret = secret /\ s.ed_theirs = c
      /\ Pairing!SignedByClient(s) = message
  BY <1>2 DEF Shaken, Pairing!SignedByClient
<1>4. Pairing!ed25519_verify(received, message, c)
  <2> HIDE DEF ctx, message
  <2> QED BY SignedAndSealed
<1>5. Pairing!Answered(c, done, ready, "no")
  <2>1. IF Pairing!ed25519_verify(
             Pairing!aes_ctr_decrypt(Pairing!ClientStream(s.ecdh_secret),
               Pairing!aes_ctr_encrypt(ctx, text)), Pairing!SignedByClient(s), s.ed_theirs)
        THEN Pairing!Answered(c, done, ready, "no")
        ELSE Pairing!Answered(c, s, Pairing!NewPeer, "verify")
    BY DEF Pairing!VerifyFinish, InStatus, AtStep
  <2>2. Pairing!ClientStream(s.ecdh_secret) = ctx
    BY <1>3 DEF Pairing!ClientStream
  <2> HIDE DEF ctx, text, message, s, done, ready
  <2> QED BY <2>1, <2>2, <1>3, <1>4
<1> HIDE DEF s, p
<1>6. /\ IsSession(done) /\ done.status = "FINISHED" /\ done.ecdh_ours = s.ecdh_ours
      /\ done.ecdh_theirs = s.ecdh_theirs /\ done.ed_theirs = s.ed_theirs
      /\ done.ecdh_secret = s.ecdh_secret
  BY <1>2, SessionStep
<1>7. /\ IsPeer(ready) /\ ready.step = "verified" /\ ready.typed = p.typed /\ ready.pin = p.pin
      /\ ready.own = p.own /\ ready.theirs = p.theirs
  BY <1>2, PeerStep
<1> HIDE DEF done, ready
<1>8. Shaken(c, done, ready)
  BY <1>2, <1>6, <1>7 DEF Shaken
<1>9. ConnInv(c, done, ready, "no")
  BY <1>2, <1>6, <1>7, <1>8 DEF ConnInv
<1> QED BY <1>1, <1>5, <1>9, PairAnswered

\* The first SETUP: both ends hash the stream's key with the secret, or neither.
LEMMA PairingSetupKeeps ==
  ASSUME PairInv, NEW c \in Conns, Pairing!Setup(c)
  PROVE  PairInv'
<1> DEFINE s == pairing_session[c]
           p == peer[c]
           ours == Pairing!StreamKey(Pairing!SecretShared(s), s.ecdh_secret)
           theirs == Pairing!StreamKey(p.step = "verified", Pairing!x25519_derive_secret(p.own, p.theirs))
           keyed == WithKey(s, ours)
           using == Using(p, "streaming", theirs)
<1>1. /\ ConnInv(c, s, p, refused[c])
      /\ p.step = "verified" \/ (p.step = "new" /\ ~options.use_pin)
      /\ options' = options /\ shown' = shown /\ raop_pin' = raop_pin /\ paired' = paired
      /\ raop_pin \in Nat /\ shown \in Nat /\ (paired # {} => options.use_pin)
  BY DEF PairInv, Pairing!Setup
<1>2. Pairing!Answered(c, keyed, using, "no")
  BY DEF Pairing!Setup, WithKey, Using
<1>3. /\ IsSession(s) /\ IsPeer(p) /\ p.typed \in Nat /\ p.pin \in Nat
      /\ p.step = "verified" => s.status = "FINISHED" /\ Shaken(c, s, p)
      /\ p.step # "verified" => s.status = "INITIAL"
  BY <1>1 DEF ConnInv
<1>4. ours = theirs
  <2>1. CASE p.step = "verified"
    <3>1. s.ecdh_secret = Pairing!x25519_derive_secret(p.own, p.theirs)
      BY <1>3, <2>1 DEF Shaken
    <3>2. Pairing!SecretShared(s)
      BY <1>3, <2>1 DEF Pairing!SecretShared
    <3> QED BY <2>1, <3>1, <3>2 DEF Pairing!StreamKey
  <2>2. CASE p.step # "verified"
    <3>1. ~Pairing!SecretShared(s)
      BY <1>3, <2>2 DEF Pairing!SecretShared
    <3> QED BY <2>2, <3>1 DEF Pairing!StreamKey
  <2> QED BY <2>1, <2>2
<1> HIDE DEF s, p, ours, theirs
<1>5. /\ IsSession(keyed) /\ keyed.status = s.status /\ keyed.ecdh_ours = s.ecdh_ours
      /\ keyed.ecdh_theirs = s.ecdh_theirs /\ keyed.ed_theirs = s.ed_theirs
      /\ keyed.ecdh_secret = s.ecdh_secret /\ keyed.aeskey = ours
  BY <1>3, SessionStep
<1>6. /\ IsPeer(using) /\ using.step = "streaming" /\ using.typed = p.typed /\ using.pin = p.pin
      /\ using.own = p.own /\ using.theirs = p.theirs /\ using.aeskey = theirs
  BY <1>3, PeerStep
<1> HIDE DEF keyed, using
<1>7. keyed.status = "FINISHED" => Shaken(c, keyed, using)
  BY <1>3, <1>5, <1>6 DEF Shaken
<1>8. ConnInv(c, keyed, using, "no")
  BY <1>3, <1>4, <1>5, <1>6, <1>7 DEF ConnInv
<1> QED BY <1>1, <1>2, <1>8, PairAnswered

\* A connection that is closed starts anew.
LEMMA DisconnectKeeps ==
  ASSUME PairInv, NEW c \in Conns, Pairing!Disconnect(c)
  PROVE  PairInv'
<1>1. /\ Pairing!Answered(c, Pairing!NewSession, Pairing!NewPeer, "no")
      /\ options' = options /\ shown' = shown /\ raop_pin' = raop_pin /\ paired' = paired
      /\ raop_pin \in Nat /\ shown \in Nat /\ (paired # {} => options.use_pin)
  BY DEF PairInv, Pairing!Disconnect
<1>2. ConnInv(c, Pairing!NewSession, Pairing!NewPeer, "no")
  BY NewPair DEF ConnInv
<1> QED BY <1>1, <1>2, PairAnswered

\* Every request of a client, with its answer, keeps PairInv.
LEMMA PairStep == PairInv /\ [Pairing!Next]_(Pairing!vars) => PairInv'
<1> SUFFICES ASSUME PairInv, [Pairing!Next]_(Pairing!vars) PROVE PairInv'
  OBVIOUS
<1>1. CASE UNCHANGED Pairing!vars
  <2>1. /\ pairing_session' = pairing_session /\ peer' = peer /\ refused' = refused
        /\ options' = options /\ raop_pin' = raop_pin /\ shown' = shown /\ paired' = paired
    BY <1>1 DEF Pairing!vars
  <2>2. ASSUME NEW c \in Conns
        PROVE  ConnInv(c, pairing_session'[c], peer'[c], refused'[c])
    BY <2>1 DEF PairInv
  <2>3. ASSUME NEW c \in Conns
        PROVE  ConnInv(c, pairing_session[c], peer[c], refused[c])'
    BY <2>1, <2>2, ZenonT(60) DEF ConnInv, Challenged, Shaken, IsSession, IsPeer
  <2> QED BY <2>1, <2>3 DEF PairInv
<1>2. ASSUME NEW c \in Conns,
             \/ Pairing!PinStart(c) \/ Pairing!ReadPin(c) \/ Pairing!SetupUser(c)
             \/ Pairing!SetupProof(c) \/ Pairing!SetupConfirm(c) \/ Pairing!PairSetup(c)
             \/ Pairing!VerifyHandshake(c) \/ Pairing!VerifyFinish(c)
             \/ Pairing!Setup(c) \/ Pairing!Disconnect(c)
      PROVE  PairInv'
  BY <1>2, PinStartKeeps, ReadPinKeeps, SetupUserKeeps, SetupProofKeeps, SetupConfirmKeeps,
     PairSetupKeeps, VerifyHandshakeKeeps, VerifyFinishKeeps, PairingSetupKeeps, DisconnectKeeps
<1> QED BY <1>1, <1>2 DEF Pairing!Next

\* What is said of a session's kind; that of everything the pairing knows.
KindOf(c, s) ==
  /\ s.status \in {"INITIAL", "SETUP", "HANDSHAKE", "FINISHED"}
  /\ s.username \in {0, c} /\ s.client_pk \in {Pairing!NoKey, c}

PairKinds ==
  /\ shown \in 0 .. Pairing!RANDOM_PINS - 1
  /\ registered \subseteq Conns \cup {Pairing!NoKey} /\ paired \subseteq Conns
  /\ \A c \in Conns : KindOf(c, pairing_session[c])

\* With the invariant this is Pairing's TypeOK.
LEMMA PairKindsImply == PairInv /\ PairKinds => Pairing!TypeOK
<1> SUFFICES ASSUME PairInv, PairKinds PROVE Pairing!TypeOK
  OBVIOUS
<1>1. ASSUME NEW c \in Conns, peer[c].step \in {"challenged", "proved"}
      PROVE  pairing_session[c].srp # Pairing!NoSrp
  <2>1. ConnInv(c, pairing_session[c], peer[c], refused[c])
    BY DEF PairInv
  <2>2. \E k : pairing_session[c].srp = <<k>>
    BY <1>1, <2>1, Zenon DEF ConnInv, Challenged
  <2> QED BY <2>2 DEF Pairing!NoSrp
<1> QED BY <1>1 DEF PairInv, PairKinds, KindOf, Pairing!TypeOK

\* The server starts with a pin, and without sessions.
LEMMA PairKindsFirst == Pairing!Init => PairKinds
<1> SUFFICES ASSUME Pairing!Init PROVE PairKinds
  OBVIOUS
<1>1. ASSUME NEW c \in Conns PROVE KindOf(c, pairing_session[c])
  BY DEF Pairing!Init, Pairing!NewSession, KindOf
<1> QED BY <1>1 DEF Pairing!Init, PairKinds, Pairing!RANDOM_PINS

\* The changes of a session leave it of its kind.
LEMMA KindChanged ==
  ASSUME NEW c, NEW s, IsSession(s), KindOf(c, s),
         NEW status \in {"INITIAL", "SETUP", "HANDSHAKE", "FINISHED"},
         NEW srp, NEW pair_setup, NEW ours, NEW theirs, NEW ed, NEW secret, NEW aeskey,
         NEW salt, NEW verifier, NEW key
  PROVE  /\ KindOf(c, WithSrp(s, srp)) /\ KindOf(c, Named(s, c, srp))
         /\ KindOf(c, Confirmed(s, c, pair_setup, status)) /\ KindOf(c, InStatus(s, status))
         /\ KindOf(c, Agreed(s, status, ours, theirs, ed, secret)) /\ KindOf(c, WithKey(s, aeskey))
         /\ KindOf(c, Salted(s, salt, verifier)) /\ KindOf(c, Proved(s, key))
<1>1. PICK U : s \in SessionsOf(U)
  BY DEF IsSession
<1>2. /\ KindOf(c, WithSrp(s, srp)) /\ KindOf(c, Named(s, c, srp))
      /\ KindOf(c, InStatus(s, status)) /\ KindOf(c, WithKey(s, aeskey))
  BY <1>1 DEF SessionsOf, KindOf, WithSrp, Named, InStatus, WithKey
<1>3. KindOf(c, Confirmed(s, c, pair_setup, status))
  BY <1>1 DEF SessionsOf, KindOf, Confirmed
<1>4. KindOf(c, Agreed(s, status, ours, theirs, ed, secret))
  BY <1>1 DEF SessionsOf, KindOf, Agreed
<1>5. KindOf(c, Salted(s, salt, verifier)) /\ KindOf(c, Proved(s, key))
  BY <1>1 DEF SessionsOf, KindOf, Salted, Proved
<1> QED BY <1>2, <1>3, <1>4, <1>5

\* One session that changes, and stays of its kind.
LEMMA PairKindsAnswered ==
  ASSUME PairInv, PairKinds, NEW c \in Conns, NEW s, NEW p, NEW why, Pairing!Answered(c, s, p, why),
         KindOf(c, s), shown' \in 0 .. Pairing!RANDOM_PINS - 1,
         registered' \subseteq Conns \cup {Pairing!NoKey}, paired' \subseteq Conns
  PROVE  PairKinds'
<1>1. pairing_session' = [d \in Conns |-> IF d = c THEN s ELSE pairing_session[d]]
  BY DEF PairInv, Pairing!Answered
<1>2. ASSUME NEW d \in Conns PROVE KindOf(d, pairing_session'[d])
  BY <1>1 DEF PairKinds
<1> QED BY <1>2 DEF PairKinds, KindOf

\* Every request and its answer.
LEMMA PairTyped ==
  ASSUME PairInv, PairKinds, [Pairing!Next]_(Pairing!vars)
  PROVE  PairKinds'
<1>1. /\ shown \in 0 .. Pairing!RANDOM_PINS - 1
      /\ registered \subseteq Conns \cup {Pairing!NoKey} /\ paired \subseteq Conns
      /\ \A c \in Conns : KindOf(c, pairing_session[c]) /\ IsSession(pairing_session[c])
  BY DEF PairKinds, PairInv, ConnInv
<1>2. KindOf(0, Pairing!NewSession) /\ \A c : KindOf(c, Pairing!NewSession)
  BY DEF KindOf, Pairing!NewSession
<1>3. ASSUME NEW c \in Conns, Pairing!PinStart(c) PROVE PairKinds'
  <2>1. PICK p : Pairing!Answered(c, pairing_session[c], p, "no")
    BY <1>3 DEF Pairing!PinStart
  <2>2. shown' \in 0 .. Pairing!RANDOM_PINS - 1
    <3>1. raop_pin' \in Nat /\ shown' = raop_pin' % Pairing!RANDOM_PINS
      BY <1>3, PairingAssumption DEF Pairing!PinStart, PairInv
    <3> DEFINE n == raop_pin'
    <3>2. n \in Int /\ 10000 \in Nat \ {0} /\ shown' = n % 10000
      BY <3>1 DEF Pairing!RANDOM_PINS
    <3> HIDE DEF n
    <3>3. n % 10000 \in 0 .. 10000 - 1
      BY <3>2, DivMod
    <3> QED BY <3>2, <3>3 DEF Pairing!RANDOM_PINS
  <2>3. UNCHANGED <<registered, paired>>
    BY <1>3 DEF Pairing!PinStart
  <2> QED BY <1>1, <2>1, <2>2, <2>3, PairKindsAnswered
<1>4. ASSUME NEW c \in Conns, Pairing!ReadPin(c) PROVE PairKinds'
  BY <1>1, <1>4 DEF Pairing!ReadPin, PairKinds, KindOf
<1>5. ASSUME NEW c \in Conns, Pairing!SetupUser(c) PROVE PairKinds'
  <2> DEFINE s == pairing_session[c]
  <2>1. \E srp, salt, verifier, p, why :
          \/ Pairing!Answered(c, Named(s, c, srp), p, why)
          \/ Pairing!Answered(c, Salted(Named(s, c, srp), salt, verifier), p, why)
    <3>1. PICK salt \in Salts, b \in ServerKeys, a \in ClientKeys :
            LET verifier == Verifier(c, Pairing!PinString, salt)
                B == Sent(c, Pairing!PinString, salt, b)
                new == [s EXCEPT !.username = c,
                         !.srp = <<[private_key |-> b, salt |-> 0, verifier |-> 0,
                                    session_key |-> Pairing!NoSrp]>>]
                user == Pairing!srp_user_process_challenge(c, peer[c].typed, a, salt, B)
            IN  IF ~Pairing!WellSized(salt, verifier)
                THEN Pairing!Answered(c, new, Pairing!NewPeer, "size")
                ELSE Pairing!Answered(c,
                       [new EXCEPT !.srp[1].salt = salt, !.srp[1].verifier = verifier],
                       IF user = Pairing!Failed THEN Pairing!NewPeer
                       ELSE [peer[c] EXCEPT !.step = "challenged", !.user = user,
                                            !.pin = Pairing!PinString], "no")
      BY <1>5, ZenonT(60) DEF Pairing!SetupUser, Verifier, Sent
    <3> DEFINE verifier == Verifier(c, Pairing!PinString, salt)
               srp == <<[private_key |-> b, salt |-> 0, verifier |-> 0,
                         session_key |-> Pairing!NoSrp]>>
    <3> HIDE DEF s
    <3>2. \/ Pairing!Answered(c, Named(s, c, srp), Pairing!NewPeer, "size")
          \/ \E p : Pairing!Answered(c, Salted(Named(s, c, srp), salt, verifier), p, "no")
      BY <3>1, ZenonT(60) DEF Named, Salted
    <3> QED BY <3>2
  <2>2. PICK srp, salt, verifier, p, why :
          \/ Pairing!Answered(c, Named(s, c, srp), p, why)
          \/ Pairing!Answered(c, Salted(Named(s, c, srp), salt, verifier), p, why)
    BY <2>1
  <2>3. UNCHANGED <<shown, registered, paired>>
    BY <1>5 DEF Pairing!SetupUser
  <2>4. IsSession(s) /\ KindOf(c, s)
    BY <1>1
  <2> HIDE DEF s
  <2> DEFINE new == Named(s, c, srp)
  <2>5. IsSession(new) /\ KindOf(c, new)
    BY <2>4, SessionStep, KindChanged
  <2> HIDE DEF new
  <2>6. KindOf(c, Salted(new, salt, verifier))
    BY <2>5, KindChanged
  <2> QED BY <1>1, <2>2, <2>3, <2>5, <2>6, PairKindsAnswered DEF new
<1>6. ASSUME NEW c \in Conns, Pairing!SetupProof(c) PROVE PairKinds'
  <2> DEFINE s == pairing_session[c]
  <2>1. PICK srp, key, p, why :
          \/ Pairing!Answered(c, WithSrp(s, srp), p, why)
          \/ Pairing!Answered(c, Proved(s, key), p, why)
    BY <1>6, ZenonT(60) DEF Pairing!SetupProof, WithSrp, Proved
  <2>2. UNCHANGED <<shown, registered, paired>>
    BY <1>6 DEF Pairing!SetupProof
  <2>3. IsSession(s) /\ KindOf(c, s)
    BY <1>1
  <2> HIDE DEF s
  <2>4. KindOf(c, WithSrp(s, srp)) /\ KindOf(c, Proved(s, key))
    BY <2>3, KindChanged
  <2> QED BY <1>1, <2>1, <2>2, <2>4, PairKindsAnswered
<1>7. ASSUME NEW c \in Conns, Pairing!SetupConfirm(c) PROVE PairKinds'
  <2> DEFINE s == pairing_session[c]
             lost == WithSrp(s, Pairing!NoSrp)
             Decrypted(k) == Pairing!gcm_decrypt(
               Pairing!gcm_encrypt(c, k[1], k[2]), k[3], k[4])
  <2>1. \E k, p, why :
          \/ Pairing!Answered(c, lost, p, why)
          \/ /\ Decrypted(k) # Pairing!Garbage
             /\ Pairing!Answered(c, Confirmed(lost, Decrypted(k)[1], TRUE, "SETUP"), p, why)
    <3> DEFINE ours == s.srp[1].session_key
               K == peer[c].user[1].session_key
               k == <<Pairing!SetupKey(K), Pairing!SetupIv(K, 1),
                      Pairing!SetupKey(ours), Pairing!SetupIv(ours, 1)>>
    <3>1. Decrypted(k) = Pairing!gcm_decrypt(
            Pairing!gcm_encrypt(c, Pairing!SetupKey(K), Pairing!SetupIv(K, 1)),
            Pairing!SetupKey(ours), Pairing!SetupIv(ours, 1))
      OBVIOUS
    <3> HIDE DEF Decrypted, k
    <3> QED BY <1>7, <3>1, ZenonT(60) DEF Pairing!SetupConfirm, WithSrp, Confirmed
  <2>2. PICK k, p, why :
          \/ Pairing!Answered(c, lost, p, why)
          \/ /\ Decrypted(k) # Pairing!Garbage
             /\ Pairing!Answered(c, Confirmed(lost, Decrypted(k)[1], TRUE, "SETUP"), p, why)
    BY <2>1
  <2>3. Decrypted(k) # Pairing!Garbage => Decrypted(k)[1] = c
    BY DEF Pairing!gcm_decrypt, Pairing!gcm_encrypt
  <2>4. UNCHANGED <<shown, registered>> /\ paired' = paired \cup {c}
    BY <1>7 DEF Pairing!SetupConfirm
  <2>5. IsSession(s) /\ KindOf(c, s)
    BY <1>1
  <2> HIDE DEF s, Decrypted
  <2>6. IsSession(lost) /\ KindOf(c, lost)
    BY <2>5, SessionStep, KindChanged
  <2> HIDE DEF lost
  <2> DEFINE yes == TRUE
             done == Confirmed(lost, c, yes, "SETUP")
  <2> HIDE DEF yes
  <2>7. KindOf(c, done)
    BY <2>6, KindChanged
  <2> HIDE DEF done
  <2>8. Pairing!Answered(c, lost, p, why) \/ Pairing!Answered(c, done, p, why)
    BY <2>2, <2>3, Zenon DEF done, yes
  <2> QED BY <1>1, <2>4, <2>6, <2>7, <2>8, PairKindsAnswered
<1>8. ASSUME NEW c \in Conns, Pairing!PairSetup(c) PROVE PairKinds'
  <2> DEFINE s == pairing_session[c]
  <2>1. PICK p : Pairing!Answered(c, InStatus(s, "SETUP"), p, "no")
    BY <1>8, Zenon DEF Pairing!PairSetup, InStatus
  <2>2. UNCHANGED <<shown, registered, paired>>
    BY <1>8 DEF Pairing!PairSetup
  <2>3. IsSession(s) /\ KindOf(c, s)
    BY <1>1
  <2> HIDE DEF s
  <2>4. KindOf(c, InStatus(s, "SETUP"))
    BY <2>3, KindChanged
  <2> QED BY <1>1, <2>1, <2>2, <2>4, PairKindsAnswered
<1>9. ASSUME NEW c \in Conns, Pairing!VerifyHandshake(c) PROVE PairKinds'
  <2> DEFINE s == pairing_session[c]
  <2>1. PICK ours, theirs, secret, p, why :
          Pairing!Answered(c, Agreed(s, "HANDSHAKE", ours, theirs, c, secret), p, why)
    BY <1>9, ZenonT(60) DEF Pairing!VerifyHandshake, Agreed
  <2>2. UNCHANGED <<shown, registered>> /\ paired' \subseteq paired
    BY <1>9 DEF Pairing!VerifyHandshake
  <2>3. IsSession(s) /\ KindOf(c, s)
    BY <1>1
  <2> HIDE DEF s
  <2>4. KindOf(c, Agreed(s, "HANDSHAKE", ours, theirs, c, secret))
    BY <2>3, KindChanged
  <2> QED BY <1>1, <2>1, <2>2, <2>4, PairKindsAnswered
<1>10. ASSUME NEW c \in Conns, Pairing!VerifyFinish(c) PROVE PairKinds'
  <2> DEFINE s == pairing_session[c]
  <2>1. PICK p, why : \/ Pairing!Answered(c, InStatus(s, "FINISHED"), p, why)
                      \/ Pairing!Answered(c, s, p, why)
    BY <1>10, ZenonT(60) DEF Pairing!VerifyFinish, InStatus
  <2>2. UNCHANGED <<shown, registered, paired>>
    BY <1>10 DEF Pairing!VerifyFinish
  <2>3. IsSession(s) /\ KindOf(c, s)
    BY <1>1
  <2> HIDE DEF s
  <2>4. KindOf(c, InStatus(s, "FINISHED"))
    BY <2>3, KindChanged
  <2> QED BY <1>1, <2>1, <2>2, <2>3, <2>4, PairKindsAnswered
<1>11. ASSUME NEW c \in Conns, Pairing!Setup(c) PROVE PairKinds'
  <2> DEFINE s == pairing_session[c]
  <2>1. PICK aeskey, p : Pairing!Answered(c, WithKey(s, aeskey), p, "no")
    BY <1>11, ZenonT(60) DEF Pairing!Setup, WithKey
  <2>2. UNCHANGED <<shown, paired>> /\ registered' \subseteq registered \cup {s.client_pk}
    BY <1>11 DEF Pairing!Setup
  <2>3. IsSession(s) /\ KindOf(c, s)
    BY <1>1
  <2> HIDE DEF s
  <2>4. KindOf(c, WithKey(s, aeskey)) /\ s.client_pk \in Conns \cup {Pairing!NoKey}
    BY <2>3, KindChanged, ZenonT(60) DEF KindOf
  <2> QED BY <1>1, <2>1, <2>2, <2>4, PairKindsAnswered
<1>12. ASSUME NEW c \in Conns, Pairing!Disconnect(c) PROVE PairKinds'
  <2>1. /\ Pairing!Answered(c, Pairing!NewSession, Pairing!NewPeer, "no")
        /\ UNCHANGED <<shown, registered, paired>>
    BY <1>12 DEF Pairing!Disconnect
  <2> QED BY <1>1, <1>2, <2>1, PairKindsAnswered
<1>13. CASE UNCHANGED Pairing!vars
  BY <1>13 DEF Pairing!vars, PairKinds, KindOf
<1> QED BY <1>3, <1>4, <1>5, <1>6, <1>7, <1>8, <1>9, <1>10, <1>11, <1>12, <1>13 DEF Pairing!Next

\* For every group, every choice of keys, salts and pins and any number of
\* connections: a client whose user typed the pin of its verifier gets through
\* every step of the pairing and accepts every answer of the server.
THEOREM PinAlways == Pairing!Spec => []RightPinIsAccepted
<1>1. PairInv /\ [Pairing!Next]_(Pairing!vars) => PairInv'
  BY PairStep
<1>2. PairInv => RightPinIsAccepted
  BY PairInvImplies
<1> QED BY <1>1, <1>2, PairBegins, PTL DEF Pairing!Spec

\* And both ends hold the same session key, secret of the verification and key
\* of the streams, whatever way the client took.
THEOREM SecretsAlways == Pairing!Spec => []SecretsAgree
<1>1. PairInv /\ [Pairing!Next]_(Pairing!vars) => PairInv'
  BY PairStep
<1>2. PairInv => SecretsAgree
  BY PairInvImplies
<1> QED BY <1>1, <1>2, PairBegins, PTL DEF Pairing!Spec

-----------------------------------------------------------------------------
(* Where the audio goes.                                                   *)

\* The formats a pipeline is built for, and what a packet's time must be.
InTime(offset, c) == offset - Skew[c] \in Errors

KindInv ==
  /\ audio \in SoundOptions /\ now \in Int /\ base_time \in Int /\ remote_clock_offset \in Int
  /\ open \subseteq Clients /\ holder \in open \cup {0} /\ destroying \in Clients \cup {0}
  /\ stale \in BOOLEAN /\ render_audio \in BOOLEAN
  /\ renderer = <<>> \/ \E ct \in Renderer!Built : renderer = <<ct>>
  /\ played = <<>> \/ \E ct : played = <<ct>>
  /\ setting \in [step : {"none", "start", "change", "base"}, ct : Formats \cup {0}, at : Int]

\* One pipeline plays.  While a thread receives audio, its connection is served
\* or being destroyed, and if its format has a pipeline one plays, or is gone
\* because the connection goes or the main loop has started over.  While a SETUP
\* is under way a connection is served, and it has seen what renderer is, but
\* for the main loop.
PipelineInv ==
  /\ playing = (IF renderer = <<>> THEN {} ELSE {renderer[1]})
  /\ played # <<>> =>
       /\ destroying # 0 \/ holder # 0
       /\ played[1] \in Renderer!Built /\ renderer = <<>> => destroying # 0 \/ started_over
  /\ setting.step # "none" => destroying = 0 /\ holder # 0 /\ setting.ct \in Renderer!Built
  /\ setting.step = "start" => renderer = <<>>
  /\ setting.step \in {"change", "base"} /\ renderer = <<>> => started_over

\* An offset that is neither stale nor zero is that of the connection served;
\* while one is destroyed there is none.
OffsetInv ==
  /\ destroying # 0 /\ remote_clock_offset # 0 => stale
  /\ destroying = 0 /\ remote_clock_offset # 0 /\ ~stale =>
       holder # 0 /\ InTime(remote_clock_offset, holder)

\* A packet on its way: before it is stamped the offset is there, and after it
\* is, its time is right, as far as it is promised.
PacketInv(p) ==
  /\ p \in [ct : {p.ct}, sent : Int, remote : Int, pts : {<<>>} \cup {<<x>> : x \in Int}, timed : BOOLEAN]
  /\ played = <<p.ct>>
  /\ destroying = 0 => p.remote = p.sent - Skew[holder]
  /\ destroying = 0 /\ ~stale => InTime(remote_clock_offset, holder)
  /\ setting.step = "base" => ~p.timed
  /\ p.pts # <<>> /\ p.timed => p.pts[1] + base_time - p.sent - Renderer!Delay(p.ct) \in Errors

PushedInv ==
  /\ pushed # <<>> =>
       /\ pushed[1].into = pushed[1].ct \/ pushed[1].ct \notin Renderer!Marked
       /\ pushed[1].late # <<>> => pushed[1].late[1] \in Errors
  /\ crashed # "no" => destroying # 0 \/ started_over \/ played[1] \notin Renderer!Built

AirInv == packet = <<>> \/ \E p : packet = <<p>> /\ PacketInv(p)

RendererInv == KindInv /\ PipelineInv /\ OffsetInv /\ AirInv /\ PushedInv

\* At first nobody is connected and nothing plays.
LEMMA RendererBegins == Renderer!Init => RendererInv
<1> SUFFICES ASSUME Renderer!Init PROVE RendererInv
  OBVIOUS
<1> USE DEF Renderer!Init, Renderer!NoClient, Renderer!NoSetup
<1>1. KindInv
  <2>1. stale \in BOOLEAN /\ render_audio \in BOOLEAN
    BY Zenon
  <2>2. audio \in SoundOptions /\ open \subseteq Clients
    OBVIOUS
  <2> QED BY <2>1, <2>2 DEF KindInv
<1>2. PipelineInv /\ OffsetInv
  BY DEF PipelineInv, OffsetInv
<1>3. AirInv /\ PushedInv
  BY DEF AirInv, PushedInv
<1> QED BY <1>1, <1>2, <1>3 DEF RendererInv

\* The promise is part of the invariant.
LEMMA RendererInvImplies == RendererInv => RendererFollowsTheStream
BY DEF RendererInv, PipelineInv, PushedInv, RendererFollowsTheStream,
   Renderer!RendererFollowsTheStream, Renderer!NoClient

\* Delays are numbers.
LEMMA DelayIsNumber ==
  ASSUME KindInv, NEW ct
  PROVE  Renderer!Delay(ct) \in Int
BY RendererAssumption DEF KindInv, Renderer!Delay

\* The connections, the clock and the main loop leave what a packet needs.
LEMMA TickKeeps == RendererInv /\ Renderer!Tick => RendererInv'
<1> SUFFICES ASSUME RendererInv, Renderer!Tick PROVE RendererInv'
  OBVIOUS
<1> USE DEF Renderer!Tick, Renderer!serverVars, Renderer!rendererVars, Renderer!offsetVars
<1>1. KindInv'
  BY DEF RendererInv, KindInv
<1>2. PipelineInv'
  BY DEF RendererInv, PipelineInv
<1>3. OffsetInv'
  BY DEF RendererInv, OffsetInv, InTime
<1>4. AirInv'
  <2>1. ASSUME NEW p, PacketInv(p) PROVE PacketInv(p)'
    BY <2>1 DEF PacketInv, InTime, Renderer!Delay
  <2> QED BY <2>1 DEF RendererInv, AirInv
<1>5. PushedInv'
  BY DEF RendererInv, PushedInv
<1> QED BY <1>1, <1>2, <1>3, <1>4, <1>5 DEF RendererInv

\* A connection comes.
LEMMA ConnectKeeps ==
  ASSUME RendererInv, NEW c \in Clients, Renderer!Connect(c)
  PROVE  RendererInv'
<1> USE DEF Renderer!Connect, Renderer!rendererVars, Renderer!offsetVars
<1>1. KindInv'
  BY DEF RendererInv, KindInv
<1>2. PipelineInv'
  BY DEF RendererInv, PipelineInv
<1>3. OffsetInv'
  BY DEF RendererInv, OffsetInv, InTime
<1>4. AirInv'
  <2>1. ASSUME NEW p, PacketInv(p) PROVE PacketInv(p)'
    BY <2>1 DEF PacketInv, InTime, Renderer!Delay
  <2> QED BY <2>1 DEF RendererInv, AirInv
<1>5. PushedInv'
  BY DEF RendererInv, PushedInv
<1> QED BY <1>1, <1>2, <1>3, <1>4, <1>5 DEF RendererInv

\* It is served, turned away, or takes over: then the offset is gone, and the
\* connection before it is being destroyed.
LEMMA RequestKeeps ==
  ASSUME RendererInv, NEW c \in Clients, Renderer!Request(c)
  PROVE  RendererInv'
<1>0. /\ destroying = 0 /\ c \in open /\ c # holder /\ c # 0
      /\ \/ /\ holder = 0 /\ holder' = c /\ UNCHANGED <<open, destroying, remote_clock_offset, stale>>
         \/ /\ holder # 0 /\ holder' = holder /\ open' = open \ {c}
            /\ UNCHANGED <<destroying, remote_clock_offset, stale>>
         \/ /\ holder # 0 /\ remote_clock_offset' = 0 /\ stale' = FALSE /\ open' = open \ {holder}
            /\ destroying' = holder /\ holder' = c
      /\ setting.step = "none"
      /\ UNCHANGED <<audio, now, played, setting, renderer, playing, render_audio, sync, base_time,
                     packet, started_over, pushed, crashed>>
  BY RendererAssumption
  DEF Renderer!Request, Renderer!Serves, Renderer!NoClient, Renderer!NoSetup, Renderer!rendererVars, Renderer!offsetVars
<1>1. KindInv'
  <2>1. open' \subseteq Clients /\ holder' \in open' \cup {0} /\ destroying' \in Clients \cup {0}
    BY <1>0 DEF RendererInv, KindInv
  <2>2. remote_clock_offset' \in Int
    BY <1>0 DEF RendererInv, KindInv
  <2>3. stale' \in BOOLEAN
    BY <1>0, Zenon DEF RendererInv, KindInv
  <2> QED BY <1>0, <2>1, <2>2, <2>3 DEF RendererInv, KindInv
<1>2. PipelineInv'
  BY <1>0 DEF RendererInv, PipelineInv
<1>3. OffsetInv'
  BY <1>0 DEF RendererInv, OffsetInv, InTime
<1>4. AirInv'
  <2>1. ASSUME NEW p, PacketInv(p) PROVE PacketInv(p)'
    <3>1. holder # 0
      BY <1>0, <2>1 DEF RendererInv, PipelineInv, PacketInv
    <3> QED BY <1>0, <2>1, <3>1 DEF PacketInv, InTime, Renderer!Delay
  <2> QED BY <1>0, <2>1 DEF RendererInv, AirInv
<1>5. PushedInv'
  BY <1>0 DEF RendererInv, PushedInv
<1> QED BY <1>1, <1>2, <1>3, <1>4, <1>5 DEF RendererInv

\* raop_rtp_start_audio starts a thread where none runs.
LEMMA StartedAudio ==
  ASSUME NEW ct, Renderer!raop_rtp_start_audio(ct)
  PROVE  played' = played \/ (played = <<>> /\ played' = <<ct>>)
BY DEF Renderer!raop_rtp_start_audio

\* SETUP sees whether the pipeline has to change, and may start the thread.
LEMMA RendererSetupKeeps ==
  ASSUME RendererInv, NEW c \in Clients, NEW ct \in Formats, Renderer!Setup(c, ct)
  PROVE  RendererInv'
<1>0. /\ destroying = 0 /\ holder # 0 /\ setting = Renderer!NoSetup /\ setting.step = "none"
      /\ render_audio' = Renderer!Plays(ct)
      /\ \/ /\ ct \notin Renderer!Built \/ renderer = <<ct>>
            /\ played' = played \/ (played = <<>> /\ played' = <<ct>>)
            /\ setting' = setting
         \/ /\ ct \in Renderer!Built /\ played' = played
            /\ \/ renderer = <<>> /\ setting' = [ct |-> ct, at |-> 0, step |-> "start"]
               \/ renderer # <<>> /\ setting' = [ct |-> ct, at |-> 0, step |-> "change"]
      /\ UNCHANGED <<audio, now, open, holder, destroying, renderer, playing, base_time,
                     remote_clock_offset, stale, packet, started_over, pushed, crashed>>
      /\ crashed = "no"
  <2>1. c # 0
    BY RendererAssumption
  <2> QED BY <2>1, StartedAudio
      DEF Renderer!Setup, Renderer!Serves, Renderer!Up, Renderer!NoClient, Renderer!NoSetup,
          Renderer!offsetVars
<1>1. KindInv'
  <2>1. render_audio' \in BOOLEAN
    BY <1>0 DEF Renderer!Plays
  <2>2. setting' \in [step : {"none", "start", "change", "base"}, ct : Formats \cup {0}, at : Int]
    BY <1>0 DEF RendererInv, KindInv
  <2>3. played' = <<>> \/ \E x : played' = <<x>>
    BY <1>0 DEF RendererInv, KindInv
  <2> QED BY <1>0, <2>1, <2>2, <2>3 DEF RendererInv, KindInv
<1>2. PipelineInv'
  BY <1>0 DEF RendererInv, PipelineInv
<1>3. OffsetInv'
  BY <1>0 DEF RendererInv, OffsetInv, InTime
<1>4. AirInv'
  <2>1. ASSUME NEW p, PacketInv(p) PROVE PacketInv(p)'
    <3>1. played' = played /\ setting'.step # "base"
      BY <1>0, <2>1 DEF PacketInv
    <3> QED BY <1>0, <2>1, <3>1 DEF PacketInv, InTime, Renderer!Delay
  <2> QED BY <1>0, <2>1 DEF RendererInv, AirInv
<1>5. PushedInv'
  BY <1>0 DEF RendererInv, PushedInv
<1> QED BY <1>1, <1>2, <1>3, <1>4, <1>5 DEF RendererInv

\* The new pipeline plays, and what was stamped for the old one has no time.
LEMMA SetupSwitchKeeps ==
  ASSUME RendererInv, Renderer!SetupSwitch
  PROVE  RendererInv'
<1> DEFINE untimed == Renderer!Untimed
<1>0. /\ setting.step \in {"start", "change"} /\ crashed = "no"
      /\ \/ /\ setting.step = "change" /\ renderer = <<>> /\ crashed' = "setup"
            /\ UNCHANGED <<setting, renderer, playing, packet, started_over>>
         \/ /\ playing' = {setting.ct} \cup
                          (IF renderer = <<>> THEN playing ELSE playing \ {renderer[1]})
            /\ renderer' = <<setting.ct>>
            /\ setting' = [setting EXCEPT !.step = "base", !.at = now]
            /\ packet' = untimed
            /\ started_over' = FALSE /\ crashed' = crashed
      /\ UNCHANGED <<audio, now, open, holder, played, destroying, render_audio, sync, base_time,
                     remote_clock_offset, stale, pushed>>
  BY DEF Renderer!SetupSwitch, Renderer!Up, Renderer!offsetVars
<1> HIDE DEF untimed
<1>1. setting.step # "none" /\ destroying = 0 /\ holder # 0 /\ setting.ct \in Renderer!Built
  BY <1>0 DEF RendererInv, PipelineInv
<1>2. \/ /\ setting' = setting /\ renderer' = renderer /\ playing' = playing
         /\ started_over' = started_over
      \/ /\ setting'.step = "base" /\ setting'.ct = setting.ct /\ renderer' = <<setting.ct>>
         /\ playing' = {setting.ct} \cup (IF renderer = <<>> THEN playing ELSE playing \ {renderer[1]})
  BY <1>0 DEF RendererInv, KindInv
<1>3. KindInv'
  <2>1. setting' \in [step : {"none", "start", "change", "base"}, ct : Formats \cup {0}, at : Int]
    BY <1>0 DEF RendererInv, KindInv
  <2>2. renderer' = <<>> \/ \E ct \in Renderer!Built : renderer' = <<ct>>
    BY <1>0, <1>1 DEF RendererInv, KindInv
  <2>3. stale' \in BOOLEAN /\ render_audio' \in BOOLEAN
    BY <1>0, Zenon DEF RendererInv, KindInv
  <2> QED BY <1>0, <2>1, <2>2, <2>3 DEF RendererInv, KindInv, Renderer!Built
<1>4. PipelineInv'
  <2>1. CASE setting' = setting /\ renderer' = renderer /\ playing' = playing /\ started_over' = started_over
    BY <1>0, <2>1 DEF RendererInv, PipelineInv
  <2>2. CASE setting'.step = "base" /\ setting'.ct = setting.ct /\ renderer' = <<setting.ct>>
             /\ playing' = {setting.ct}
    BY <1>0, <1>1, <2>2 DEF RendererInv, PipelineInv
  <2>3. playing = (IF renderer = <<>> THEN {} ELSE {renderer[1]})
    BY DEF RendererInv, PipelineInv
  <2>4. {setting.ct} \cup (IF renderer = <<>> THEN playing ELSE playing \ {renderer[1]}) = {setting.ct}
    BY <2>3
  <2> QED BY <1>2, <2>1, <2>2, <2>4
<1>5. OffsetInv'
  BY <1>0 DEF RendererInv, OffsetInv, InTime
<1>6. AirInv'
  <2>1. CASE packet' = packet /\ setting' = setting
    <3>1. ASSUME NEW p, PacketInv(p) PROVE PacketInv(p)'
      BY <1>0, <2>1, <3>1 DEF PacketInv, InTime, Renderer!Delay
    <3> QED BY <2>1, <3>1 DEF RendererInv, AirInv
  <2>2. CASE packet = <<>> /\ packet' = untimed
    BY <2>2 DEF AirInv, untimed, Renderer!Untimed
  <2>3. ASSUME NEW p, packet = <<p>>, PacketInv(p), packet' = untimed
        PROVE  AirInv'
    <3>1. PICK q : q = [p EXCEPT !.timed = FALSE]
      OBVIOUS
    <3>2. packet' = <<q>>
      BY <2>3, <3>1 DEF untimed, Renderer!Untimed
    <3>3. /\ q \in [ct : {q.ct}, sent : Int, remote : Int, pts : {<<>>} \cup {<<x>> : x \in Int}, timed : BOOLEAN]
          /\ q.ct = p.ct /\ q.sent = p.sent /\ q.remote = p.remote /\ q.timed = FALSE
      BY <2>3, <3>1 DEF PacketInv
    <3>4. PacketInv(q)'
      BY <1>0, <2>3, <3>3 DEF PacketInv, InTime
    <3> QED BY <3>2, <3>4 DEF AirInv
  <2> QED BY <1>0, <2>1, <2>2, <2>3 DEF RendererInv, AirInv
<1>7. PushedInv'
  BY <1>0 DEF RendererInv, PushedInv, PipelineInv
<1> QED BY <1>3, <1>4, <1>5, <1>6, <1>7 DEF RendererInv

\* Its base time is known, and the thread is started.
LEMMA SetupBaseKeeps ==
  ASSUME RendererInv, Renderer!SetupBase
  PROVE  RendererInv'
<1>0. /\ setting.step = "base" /\ crashed = "no"
      /\ \/ /\ renderer = <<>> /\ crashed' = "setup"
            /\ UNCHANGED <<setting, base_time, played>>
         \/ /\ renderer # <<>> /\ base_time' = setting.at /\ crashed' = crashed
            /\ played' = played \/ (played = <<>> /\ played' = <<setting.ct>>)
            /\ setting' = Renderer!NoSetup
      /\ UNCHANGED <<audio, now, open, holder, destroying, renderer, playing, render_audio, sync,
                     remote_clock_offset, stale, packet, started_over, pushed>>
  BY StartedAudio DEF Renderer!SetupBase, Renderer!Up, Renderer!offsetVars
<1>1. destroying = 0 /\ holder # 0 /\ setting.ct \in Renderer!Built
  BY <1>0 DEF RendererInv, PipelineInv
<1>2. KindInv'
  <2>1. setting' \in [step : {"none", "start", "change", "base"}, ct : Formats \cup {0}, at : Int]
    BY <1>0 DEF RendererInv, KindInv, Renderer!NoSetup
  <2>2. played' = <<>> \/ \E x : played' = <<x>>
    BY <1>0 DEF RendererInv, KindInv
  <2>3. base_time' \in Int
    BY <1>0 DEF RendererInv, KindInv
  <2>4. stale' \in BOOLEAN /\ render_audio' \in BOOLEAN
    BY <1>0, Zenon DEF RendererInv, KindInv
  <2> QED BY <1>0, <2>1, <2>2, <2>3, <2>4 DEF RendererInv, KindInv
<1>3. PipelineInv'
  BY <1>0, <1>1 DEF RendererInv, PipelineInv, Renderer!NoSetup
<1>4. OffsetInv'
  BY <1>0 DEF RendererInv, OffsetInv, InTime
<1>5. AirInv'
  <2>1. ASSUME NEW p, PacketInv(p) PROVE PacketInv(p)'
    <3>1. played' = played /\ ~p.timed
      BY <1>0, <2>1 DEF PacketInv
    <3> QED BY <1>0, <2>1, <3>1 DEF PacketInv, InTime
  <2> QED BY <1>0, <2>1 DEF RendererInv, AirInv
<1>6. PushedInv'
  BY <1>0 DEF RendererInv, PushedInv, PipelineInv
<1> QED BY <1>2, <1>3, <1>4, <1>5, <1>6 DEF RendererInv

\* TEARDOWN of the audio waits for the packet.
LEMMA TeardownKeeps ==
  ASSUME RendererInv, NEW c \in Clients, Renderer!Teardown(c) \/ Renderer!TeardownMirror(c)
  PROVE  RendererInv'
<1>0. /\ \/ played' = <<>> /\ packet = <<>>
         \/ played' = played
      /\ crashed = "no"
      /\ UNCHANGED <<audio, now, open, holder, setting, destroying, renderer, playing, render_audio, sync,
                     base_time, remote_clock_offset, stale, packet, started_over, pushed, crashed>>
  BY DEF Renderer!Teardown, Renderer!TeardownMirror, Renderer!Serves, Renderer!Up, Renderer!serverVars,
     Renderer!rendererVars, Renderer!offsetVars
<1>1. KindInv'
  BY <1>0 DEF RendererInv, KindInv
<1>2. PipelineInv'
  BY <1>0 DEF RendererInv, PipelineInv
<1>3. OffsetInv'
  BY <1>0 DEF RendererInv, OffsetInv, InTime
<1>4. AirInv'
  <2>1. CASE played' = played
    <3>1. ASSUME NEW p, PacketInv(p) PROVE PacketInv(p)'
      BY <1>0, <2>1, <3>1 DEF PacketInv, InTime, Renderer!Delay
    <3> QED BY <1>0, <3>1 DEF RendererInv, AirInv
  <2>2. CASE packet = <<>>
    BY <1>0, <2>2 DEF AirInv
  <2> QED BY <1>0, <2>1, <2>2
<1>5. PushedInv'
  BY <1>0 DEF RendererInv, PushedInv
<1> QED BY <1>1, <1>2, <1>3, <1>4, <1>5 DEF RendererInv

\* A connection goes: the last one takes the offset and the renderer with it,
\* while the audio thread has not been joined.
LEMMA RendererCloseKeeps ==
  ASSUME RendererInv, NEW c \in Clients, Renderer!Close(c)
  PROVE  RendererInv'
<1>0. /\ destroying = 0 /\ crashed = "no" /\ c # 0 /\ c \in open /\ open' = open \ {c}
      /\ remote_clock_offset' = (IF open \ {c} = {} THEN 0 ELSE remote_clock_offset)
      /\ stale' = (open # {c} /\ (stale \/ (c = holder /\ remote_clock_offset # 0)))
      /\ \/ /\ open = {c} /\ renderer' = <<>>
            /\ playing' = (IF renderer = <<>> THEN playing ELSE playing \ {renderer[1]})
         \/ open # {c} /\ renderer' = renderer /\ playing' = playing
      /\ \/ c = holder /\ destroying' = c /\ holder' = 0
         \/ c # holder /\ destroying' = 0 /\ holder' = holder
      /\ setting.step = "none"
      /\ UNCHANGED <<audio, now, played, setting, packet, render_audio, sync, base_time, started_over,
                     pushed, crashed>>
  BY RendererAssumption
  DEF Renderer!Close, Renderer!Serves, Renderer!Up, Renderer!NoClient, Renderer!NoSetup, Renderer!OffsetAfter,
      Renderer!audio_renderer_stop, Renderer!rendererVars
<1>1. KindInv'
  <2>1. open' \subseteq Clients /\ holder' \in open' \cup {0} /\ destroying' \in Clients \cup {0}
    BY <1>0 DEF RendererInv, KindInv
  <2>2. remote_clock_offset' \in Int
    BY <1>0 DEF RendererInv, KindInv
  <2>3. stale' \in BOOLEAN /\ render_audio' \in BOOLEAN
    BY <1>0, Zenon DEF RendererInv, KindInv
  <2>4. renderer' = <<>> \/ renderer' = renderer
    BY <1>0
  <2> QED BY <1>0, <2>1, <2>2, <2>3, <2>4 DEF RendererInv, KindInv
\* Who was served when the last connection goes is the one that goes.
<1>2. open = {c} /\ played # <<>> => holder = c
  BY <1>0 DEF RendererInv, KindInv, PipelineInv
<1>3. PipelineInv'
  <2>1. playing' = (IF renderer' = <<>> THEN {} ELSE {renderer'[1]})
    BY <1>0 DEF RendererInv, PipelineInv
  <2>2. ASSUME played # <<>>
        PROVE  destroying' # 0 \/ holder' # 0
    BY <1>0, <2>2 DEF RendererInv, PipelineInv
  <2>3. ASSUME played # <<>>, played[1] \in Renderer!Built, renderer' = <<>>
        PROVE  destroying' # 0 \/ started_over'
    BY <1>0, <1>2, <2>3 DEF RendererInv, PipelineInv
  <2> QED BY <1>0, <2>1, <2>2, <2>3 DEF PipelineInv
<1>4. OffsetInv'
  <2>1. CASE open = {c}
    <3>1. remote_clock_offset' = 0
      BY <1>0, <2>1
    <3> QED BY <3>1 DEF OffsetInv
  <2>2. CASE open # {c}
    <3>1. remote_clock_offset' = remote_clock_offset
      BY <1>0, <2>2
    <3> QED BY <1>0, <2>2, <3>1 DEF RendererInv, OffsetInv, InTime
  <2> QED BY <2>1, <2>2
<1>5. AirInv'
  <2>1. ASSUME NEW p, PacketInv(p) PROVE PacketInv(p)'
    <3>1. destroying' = 0 => holder' = holder /\ open # {c}
      BY <1>0, <1>2, <2>1 DEF PacketInv
    <3>2. destroying' = 0 /\ ~stale' => ~stale /\ remote_clock_offset' = remote_clock_offset
      BY <1>0, <3>1
    <3> QED BY <1>0, <2>1, <3>1, <3>2 DEF PacketInv, InTime, Renderer!Delay
  <2> QED BY <1>0, <2>1 DEF RendererInv, AirInv
<1>6. PushedInv'
  BY <1>0 DEF RendererInv, PushedInv
<1> QED BY <1>1, <1>3, <1>4, <1>5, <1>6 DEF RendererInv

\* Its audio thread is joined.
LEMMA JoinedKeeps ==
  ASSUME RendererInv, Renderer!Joined
  PROVE  RendererInv'
<1>0. /\ destroying # 0 /\ destroying' = 0 /\ played' = <<>> /\ packet = <<>> /\ crashed = "no"
      /\ UNCHANGED <<audio, now, open, holder, setting, renderer, playing, render_audio, sync, base_time,
                     remote_clock_offset, stale, packet, started_over, pushed, crashed>>
  BY DEF Renderer!Joined, Renderer!Up, Renderer!NoClient, Renderer!rendererVars, Renderer!offsetVars
<1>1. KindInv'
  BY <1>0 DEF RendererInv, KindInv
<1>2. PipelineInv'
  BY <1>0 DEF RendererInv, PipelineInv
<1>3. OffsetInv'
  BY <1>0 DEF RendererInv, OffsetInv
<1>4. AirInv' /\ PushedInv'
  BY <1>0 DEF RendererInv, PushedInv, AirInv
<1> QED BY <1>1, <1>2, <1>3, <1>4 DEF RendererInv

\* The main loop starts over.
LEMMA MainResetKeeps ==
  ASSUME RendererInv, Renderer!MainReset
  PROVE  RendererInv'
<1>0. /\ renderer' = <<>> /\ crashed = "no"
      /\ started_over' = (played # <<>> \/ setting # Renderer!NoSetup)
      /\ setting.step # "none" => setting # Renderer!NoSetup
      /\ playing' = (IF renderer = <<>> THEN playing ELSE playing \ {renderer[1]})
      /\ UNCHANGED <<audio, now, open, holder, played, setting, destroying, render_audio, sync, base_time,
                     remote_clock_offset, stale, packet, pushed, crashed>>
  BY DEF Renderer!MainReset, Renderer!Up, Renderer!audio_renderer_stop, Renderer!serverVars,
     Renderer!offsetVars, Renderer!NoSetup
<1>1. KindInv'
  BY <1>0 DEF RendererInv, KindInv
<1>2. PipelineInv'
  <2>1. playing' = {}
    BY <1>0 DEF RendererInv, PipelineInv
  <2> QED BY <1>0, <2>1 DEF RendererInv, PipelineInv
<1>3. OffsetInv'
  BY <1>0 DEF RendererInv, OffsetInv, InTime
<1>4. AirInv'
  <2>1. ASSUME NEW p, PacketInv(p) PROVE PacketInv(p)'
    BY <1>0, <2>1 DEF PacketInv, InTime, Renderer!Delay
  <2> QED BY <1>0, <2>1 DEF RendererInv, AirInv
<1>5. PushedInv'
  BY <1>0 DEF RendererInv, PushedInv
<1> QED BY <1>1, <1>2, <1>3, <1>4, <1>5 DEF RendererInv

\* The volume changes nothing but may find no renderer.
LEMMA SetVolumeKeeps ==
  ASSUME RendererInv, Renderer!SetVolume
  PROVE  RendererInv'
<1>0. /\ played # <<>> /\ packet = <<>> /\ crashed = "no"
      /\ crashed' = (IF renderer = <<>> THEN "volume" ELSE crashed)
      /\ UNCHANGED <<audio, now, open, holder, played, setting, destroying, renderer, playing, render_audio,
                     sync, base_time, remote_clock_offset, stale, packet, started_over, pushed>>
  BY DEF Renderer!SetVolume, Renderer!Up, Renderer!serverVars, Renderer!rendererVars, Renderer!offsetVars
<1>1. KindInv' /\ AirInv'
  BY <1>0 DEF RendererInv, KindInv, AirInv
<1>2. PipelineInv'
  BY <1>0 DEF RendererInv, PipelineInv
<1>3. OffsetInv'
  BY <1>0 DEF RendererInv, OffsetInv, InTime
<1>4. PushedInv'
  BY <1>0 DEF RendererInv, PushedInv, PipelineInv
<1> QED BY <1>1, <1>2, <1>3, <1>4 DEF RendererInv

\* The first packet that finds the offset zero sets it: for the connection that
\* is served it is then right, for one that is being destroyed it is stale.
LEMMA TakePacketKeeps ==
  ASSUME RendererInv, Renderer!TakePacket
  PROVE  RendererInv'
<1>1. PICK e \in Errors :
        /\ remote_clock_offset' =
             (IF remote_clock_offset = 0 THEN now + e - (now - Skew[Renderer!Streamer])
              ELSE remote_clock_offset)
        /\ stale' = (IF remote_clock_offset = 0 THEN destroying # 0 ELSE stale)
        /\ packet' = <<[ct |-> played[1], sent |-> now, remote |-> now - Skew[Renderer!Streamer],
                        pts |-> <<>>, timed |-> FALSE]>>
  BY DEF Renderer!TakePacket, Renderer!NoClient
<1>2. /\ played # <<>> /\ crashed = "no" /\ pushed' = <<>>
      /\ UNCHANGED <<audio, now, open, holder, played, setting, destroying, renderer, playing, render_audio,
                     sync, base_time, started_over, crashed>>
  BY DEF Renderer!TakePacket, Renderer!Up, Renderer!serverVars, Renderer!rendererVars
<1> DEFINE skew == Skew[Renderer!Streamer]
<1>3. /\ Renderer!Streamer \in Clients /\ skew \in Int /\ now \in Int /\ e \in Int
      /\ destroying = 0 => Renderer!Streamer = holder /\ holder # 0 /\ skew = Skew[holder]
  <2>1. Renderer!Streamer \in Clients /\ (destroying = 0 => Renderer!Streamer = holder /\ holder # 0)
    BY <1>2 DEF RendererInv, KindInv, PipelineInv, Renderer!Streamer, Renderer!NoClient
  <2>2. now \in Int
    BY DEF RendererInv, KindInv
  <2> QED BY <2>1, <2>2, RendererAssumption
<1>4. /\ now + e - (now - skew) = e + skew /\ now - skew \in Int
      /\ (e + skew) - skew = e
  <2> HIDE DEF skew
  <2> QED BY <1>3
<1>5. remote_clock_offset' = (IF remote_clock_offset = 0 THEN e + skew ELSE remote_clock_offset)
  BY <1>1, <1>4
<1>6. destroying = 0 /\ ~stale' => InTime(remote_clock_offset', holder)
  <2> SUFFICES ASSUME destroying = 0, ~stale' PROVE InTime(remote_clock_offset', holder)
    OBVIOUS
  <2>1. CASE remote_clock_offset = 0
    BY <1>3, <1>4, <1>5, <2>1 DEF InTime
  <2>2. CASE remote_clock_offset # 0
    BY <1>1, <1>5, <2>2 DEF RendererInv, OffsetInv
  <2> QED BY <2>1, <2>2
<1>7. KindInv'
  <2>1. remote_clock_offset' \in Int
    <3> HIDE DEF skew
    <3> QED BY <1>3, <1>5 DEF RendererInv, KindInv
  <2>2. stale' \in BOOLEAN /\ render_audio' \in BOOLEAN
    BY <1>1, <1>2, Zenon DEF RendererInv, KindInv
  <2> QED BY <1>2, <2>1, <2>2 DEF RendererInv, KindInv
<1>8. PipelineInv'
  BY <1>2 DEF RendererInv, PipelineInv
<1>9. OffsetInv'
  <2>1. destroying # 0 /\ remote_clock_offset' # 0 => stale'
    BY <1>1 DEF RendererInv, OffsetInv
  <2>2. destroying = 0 /\ ~stale' => holder # 0 /\ InTime(remote_clock_offset', holder)
    BY <1>3, <1>6
  <2> QED BY <1>2, <2>1, <2>2 DEF OffsetInv, InTime
<1>10. AirInv'
  <2>1. PICK p : p = [ct |-> played[1], sent |-> now, remote |-> now - skew, pts |-> <<>>, timed |-> FALSE]
    OBVIOUS
  <2>2. packet' = <<p>> /\ p.pts = <<>> /\ p.ct = played[1] /\ p.sent = now /\ p.remote = now - skew
    BY <1>1, <2>1
  <2>3. p \in [ct : {p.ct}, sent : Int, remote : Int, pts : {<<>>} \cup {<<x>> : x \in Int}, timed : BOOLEAN]
    <3> HIDE DEF skew
    <3> QED BY <1>3, <1>4, <2>1
  <2>4. played = <<p.ct>>
    BY <1>2, <2>2 DEF RendererInv, KindInv
  <2>5. destroying = 0 => p.remote = p.sent - Skew[holder]
    BY <1>3, <2>2
  <2>6. p.timed = FALSE
    BY <2>1
  <2>7. PacketInv(p)'
    BY <1>2, <1>6, <2>2, <2>3, <2>4, <2>5, <2>6 DEF PacketInv, InTime
  <2> QED BY <2>2, <2>7 DEF AirInv
<1>11. PushedInv'
  BY <1>2 DEF RendererInv, PushedInv
<1> QED BY <1>7, <1>8, <1>9, <1>10, <1>11 DEF RendererInv

\* The audio thread stamps it, or drops it.
LEMMA StampKeeps ==
  ASSUME RendererInv, Renderer!Stamp
  PROVE  RendererInv'
<1>1. PICK p : packet = <<p>> /\ PacketInv(p)
  BY DEF RendererInv, AirInv, Renderer!Stamp
<1> DEFINE delay == Renderer!Delay(p.ct)
           time == p.remote + remote_clock_offset + delay
           q == [p EXCEPT !.pts = IF sync THEN <<time - base_time>> ELSE <<0>>,
                          !.timed = sync /\ ~stale /\ destroying = 0 /\ setting.step # "base"]
<1>2. /\ packet[1] = p /\ packet # <<>>
      /\ packet' = <<>> \/ (render_audio /\ packet' = <<q>>)
      /\ crashed = "no"
      /\ UNCHANGED <<audio, now, open, holder, played, setting, destroying, renderer, playing, render_audio,
                     sync, base_time, remote_clock_offset, stale, started_over, pushed, crashed>>
  <2>1. packet[1] = p /\ packet # <<>>
    BY <1>1
  <2>2. packet' = (IF ~render_audio \/ (sync /\ time < base_time) \/ renderer = <<>> THEN <<>> ELSE <<q>>)
    BY <2>1 DEF Renderer!Stamp, Renderer!NoClient
  <2> QED BY <2>1, <2>2
      DEF Renderer!Stamp, Renderer!Up, Renderer!serverVars, Renderer!rendererVars, Renderer!offsetVars
<1>3. /\ delay \in Int /\ base_time \in Int /\ remote_clock_offset \in Int
      /\ p.sent \in Int /\ p.remote \in Int
      /\ p \in [ct : {p.ct}, sent : Int, remote : Int, pts : {<<>>} \cup {<<x>> : x \in Int}, timed : BOOLEAN]
      /\ destroying = 0 => holder \in Clients /\ Skew[holder] \in Int
  <2>1. played # <<>>
    BY <1>1 DEF PacketInv
  <2>2. destroying = 0 => holder \in Clients /\ Skew[holder] \in Int
    BY <2>1, RendererAssumption DEF RendererInv, KindInv, PipelineInv
  <2>3. /\ p \in [ct : {p.ct}, sent : Int, remote : Int, pts : {<<>>} \cup {<<x>> : x \in Int}, timed : BOOLEAN]
        /\ base_time \in Int /\ remote_clock_offset \in Int /\ delay \in Int
    BY <1>1, DelayIsNumber DEF PacketInv, RendererInv, KindInv
  <2> QED BY <2>2, <2>3
<1>4. /\ q.ct = p.ct /\ q.sent = p.sent /\ q.remote = p.remote
      /\ q.pts = (IF sync THEN <<time - base_time>> ELSE <<0>>)
      /\ q.timed => sync /\ ~stale /\ destroying = 0 /\ setting.step # "base"
      /\ q \in [ct : {q.ct}, sent : Int, remote : Int, pts : {<<>>} \cup {<<x>> : x \in Int}, timed : BOOLEAN]
  <2> HIDE DEF delay
  <2>1. time - base_time \in Int
    BY <1>3
  <2> DEFINE pts == IF sync THEN <<time - base_time>> ELSE <<0>>
             timed == sync /\ ~stale /\ destroying = 0 /\ setting.step # "base"
  <2>2. pts \in {<<>>} \cup {<<x>> : x \in Int}
    <3> HIDE DEF time
    <3> QED BY <2>1
  <2>3. timed \in BOOLEAN
    BY Zenon
  <2>4. q = [p EXCEPT !.pts = pts, !.timed = timed]
    OBVIOUS
  <2>5. timed => sync /\ ~stale /\ destroying = 0 /\ setting.step # "base"
    OBVIOUS
  <2> HIDE DEF time, pts, timed, q
  <2>6. /\ q.ct = p.ct /\ q.sent = p.sent /\ q.remote = p.remote /\ q.pts = pts /\ q.timed = timed
        /\ q \in [ct : {q.ct}, sent : Int, remote : Int, pts : {<<>>} \cup {<<x>> : x \in Int}, timed : BOOLEAN]
    BY <1>3, <2>2, <2>3, <2>4
  <2> QED BY <2>5, <2>6 DEF pts
<1>5. q.timed => q.pts[1] + base_time - q.sent - delay \in Errors
  <2> SUFFICES ASSUME q.timed PROVE q.pts[1] + base_time - q.sent - delay \in Errors
    OBVIOUS
  <2>1. /\ destroying = 0 /\ ~stale /\ q.pts = <<time - base_time>> /\ q.sent = p.sent
    BY <1>4
  <2>2. p.remote = p.sent - Skew[holder] /\ remote_clock_offset - Skew[holder] \in Errors
    BY <1>1, <2>1 DEF PacketInv, InTime
  <2>3. time = p.sent - Skew[holder] + remote_clock_offset + delay
    BY <2>2
  <2> HIDE DEF delay, time, q
  <2>4. q.pts[1] = time - base_time
    BY <2>1
  <2>5. (time - base_time) + base_time - p.sent - delay = remote_clock_offset - Skew[holder]
    <3> DEFINE sent == p.sent
               skew == Skew[holder]
    <3>1. time = sent - skew + remote_clock_offset + delay /\ sent \in Int /\ skew \in Int
      BY <1>3, <2>1, <2>3
    <3> HIDE DEF sent, skew
    <3>2. (time - base_time) + base_time - sent - delay = remote_clock_offset - skew
      BY <1>3, <3>1, SMTT(40)
    <3> QED BY <3>2 DEF sent, skew
  <2> QED BY <2>1, <2>2, <2>4, <2>5
<1> HIDE DEF q, delay, time
<1>6. KindInv'
  BY <1>2 DEF RendererInv, KindInv
<1>7. PipelineInv'
  BY <1>2 DEF RendererInv, PipelineInv
<1>8. OffsetInv'
  BY <1>2 DEF RendererInv, OffsetInv, InTime
<1>9. AirInv'
  <2>1. CASE packet' = <<>>
    BY <2>1 DEF AirInv
  <2>2. CASE render_audio /\ packet' = <<q>>
    <3>1. PICK x : x = q
      OBVIOUS
    <3>2. played = <<x.ct>> /\ (setting.step = "base" => ~x.timed)
      BY <1>1, <1>4, <3>1 DEF PacketInv
    <3>3. Renderer!Delay(x.ct)' = delay
      BY <1>2, <1>4, <3>1 DEF Renderer!Delay, delay
    <3>4. /\ destroying = 0 => x.remote = x.sent - Skew[holder]
          /\ destroying = 0 /\ ~stale => InTime(remote_clock_offset, holder)
      BY <1>1, <1>4, <3>1 DEF PacketInv
    <3>5. PacketInv(x)'
      BY <1>2, <1>4, <1>5, <3>1, <3>2, <3>3, <3>4 DEF PacketInv, InTime
    <3> QED BY <2>2, <3>1, <3>5 DEF AirInv
  <2> QED BY <1>2, <2>1, <2>2
<1>10. PushedInv'
  BY <1>2 DEF RendererInv, PushedInv
<1> QED BY <1>6, <1>7, <1>8, <1>9, <1>10 DEF RendererInv

\* It pushes what it stamped into the pipeline that plays, if the frame looks
\* like one of its format, or finds no renderer.
LEMMA PushKeeps ==
  ASSUME RendererInv, Renderer!Push
  PROVE  RendererInv'
<1>1. PICK p : packet = <<p>> /\ PacketInv(p)
  BY DEF RendererInv, AirInv, Renderer!Push
<1>2. /\ packet[1] = p /\ p.pts # <<>> /\ packet' = <<>> /\ crashed = "no"
      /\ UNCHANGED <<audio, now, open, holder, played, setting, destroying, renderer, playing, render_audio,
                     sync, base_time, remote_clock_offset, stale, started_over>>
  BY <1>1 DEF Renderer!Push, Renderer!Up, Renderer!serverVars, Renderer!rendererVars, Renderer!offsetVars
<1>3. played = <<p.ct>>
  BY <1>1 DEF PacketInv
<1>4. renderer = <<>> => destroying # 0 \/ started_over \/ played[1] \notin Renderer!Built
  BY <1>3 DEF RendererInv, PipelineInv
<1>5. KindInv' /\ AirInv'
  BY <1>2 DEF RendererInv, KindInv, AirInv
<1>6. PipelineInv'
  BY <1>2 DEF RendererInv, PipelineInv
<1>7. OffsetInv'
  BY <1>2 DEF RendererInv, OffsetInv, InTime
<1>8. PushedInv'
  <2>1. CASE renderer = <<>>
    BY <1>2, <1>4, <2>1 DEF RendererInv, PushedInv, Renderer!Push
  <2>2. CASE renderer # <<>>
    <3> DEFINE late == Renderer!Late(p)
               b == [ct |-> p.ct, into |-> renderer[1], late |-> late]
    <3>1. PICK valid \in Renderer!Valid(p.ct) :
            crashed' = crashed /\ pushed' = (IF valid THEN <<b>> ELSE <<>>)
      BY <1>2, <2>2 DEF Renderer!Push
    <3>2. /\ b.ct = p.ct /\ b.into = renderer[1] /\ b.late = late
          /\ valid => b.into = b.ct \/ b.ct \notin Renderer!Marked
      BY <3>1 DEF Renderer!Valid
    <3>3. late # <<>> => late[1] \in Errors
      BY <1>1, <1>2 DEF PacketInv, Renderer!Late
    <3> HIDE DEF b, late
    <3> QED BY <1>2, <3>1, <3>2, <3>3 DEF PushedInv
  <2> QED BY <2>1, <2>2
<1> QED BY <1>5, <1>6, <1>7, <1>8 DEF RendererInv

\* Every step of the three threads keeps the invariant.
LEMMA RendererNext == RendererInv /\ [Renderer!Next]_(Renderer!vars) => RendererInv'
<1> SUFFICES ASSUME RendererInv, [Renderer!Next]_(Renderer!vars) PROVE RendererInv'
  OBVIOUS
<1>1. CASE UNCHANGED Renderer!vars
  <2>0. UNCHANGED <<audio, now, open, holder, played, setting, destroying, renderer, playing, render_audio,
                    sync, base_time, remote_clock_offset, stale, packet, started_over, pushed, crashed>>
    BY <1>1 DEF Renderer!vars, Renderer!serverVars, Renderer!rendererVars, Renderer!offsetVars
  <2>1. KindInv' /\ PushedInv'
    BY <2>0 DEF RendererInv, KindInv, PushedInv
  <2>2. PipelineInv'
    BY <2>0 DEF RendererInv, PipelineInv
  <2>3. OffsetInv'
    BY <2>0 DEF RendererInv, OffsetInv, InTime
  <2>4. ASSUME NEW p, PacketInv(p) PROVE PacketInv(p)'
    BY <2>0, <2>4 DEF PacketInv, InTime, Renderer!Delay
  <2>5. AirInv'
    BY <2>0, <2>4 DEF RendererInv, AirInv
  <2> QED BY <2>1, <2>2, <2>3, <2>5 DEF RendererInv
<1>2. CASE Renderer!Tick \/ Renderer!Joined \/ Renderer!TakePacket \/ Renderer!Stamp
           \/ Renderer!Push \/ Renderer!SetVolume \/ Renderer!MainReset
           \/ Renderer!SetupSwitch \/ Renderer!SetupBase
  BY <1>2, TickKeeps, JoinedKeeps, TakePacketKeeps, StampKeeps, PushKeeps, SetVolumeKeeps,
     MainResetKeeps, SetupSwitchKeeps, SetupBaseKeeps
<1>3. ASSUME NEW c \in Clients,
             \/ Renderer!Connect(c) \/ Renderer!Request(c) \/ Renderer!Teardown(c)
             \/ Renderer!TeardownMirror(c) \/ Renderer!Close(c)
             \/ \E ct \in Formats : Renderer!Setup(c, ct)
      PROVE  RendererInv'
  BY <1>3, ConnectKeeps, RequestKeeps, TeardownKeeps, RendererCloseKeeps, RendererSetupKeeps
<1> QED BY <1>1, <1>2, <1>3 DEF Renderer!Next

\* For any clients, clocks, formats and options: one pipeline plays, the one
\* renderer points to; what is pushed of a coded format goes into the pipeline of
\* its format, at its time, even if another SETUP comes under the stream; and no
\* renderer is found only in the three cases.
THEOREM RendererAlways == Renderer!Spec => []RendererFollowsTheStream
<1>1. RendererInv /\ [Renderer!Next]_(Renderer!vars) => RendererInv'
  BY RendererNext
<1> QED BY <1>1, RendererBegins, RendererInvImplies, PTL DEF Renderer!Spec

-----------------------------------------------------------------------------
(* Metrics.                                                                *)

\* The sums of a sequence's first elements.
IsSums(f, s) == f = [i \in 0 .. Len(s) |-> IF i = 0 THEN 0 ELSE f[i - 1] + s[i]]
Sums(s) == CHOOSE f : IsSums(f, s)

\* They exist, each one adding an element to the one before it.
LEMMA SumsAdd ==
  ASSUME NEW s \in Seq(Int)
  PROVE  /\ Sums(s)[0] = 0
         /\ \A i \in 1 .. Len(s) : Sums(s)[i] = Sums(s)[i - 1] + s[i]
         /\ \A i \in 0 .. Len(s) : Sums(s)[i] \in Int
<1> DEFINE n == Len(s)
           F == [w \in (1 .. n) \X Int |-> w[2] + s[w[1]]]
<1>0. n \in Nat /\ \A i \in 1 .. n : s[i] \in Int
  OBVIOUS
<1> HIDE DEF n
<1>1. LoopOf(F, Int, n)
  BY <1>0 DEF LoopOf
<1>2. \A i \in 1 .. n, a \in Int : F[<<i, a>>] = a + s[i]
  OBVIOUS
<1> HIDE DEF F
<1>3. PICK f : TableOf(f, F, Int, 0, n)
  <2>1. 0 \in Int
    OBVIOUS
  <2> QED BY <1>0, <1>1, <2>1, TableOfSteps
<1>4. f \in [0 .. n -> Int] /\ f[0] = 0 /\ \A i \in 1 .. n : f[i] = F[<<i, f[i - 1]>>]
  BY <1>3 DEF TableOf
<1>5. ASSUME NEW i \in 0 .. n
      PROVE  f[i] = IF i = 0 THEN 0 ELSE f[i - 1] + s[i]
  <2>1. CASE i = 0
    BY <1>4, <2>1
  <2>2. CASE i # 0
    <3>1. i \in 1 .. n /\ i - 1 \in 0 .. n
      BY <1>0, <2>2
    <3> QED BY <1>2, <1>4, <2>2, <3>1
  <2> QED BY <2>1, <2>2
<1>6. f = [i \in 0 .. n |-> IF i = 0 THEN 0 ELSE f[i - 1] + s[i]]
  BY <1>4, <1>5
<1>7. IsSums(f, s)
  BY <1>6 DEF IsSums, n
<1>8. IsSums(Sums(s), s)
  BY <1>7 DEF Sums
<1> DEFINE u == Sums(s)
<1>9. u = [i \in 0 .. n |-> IF i = 0 THEN 0 ELSE u[i - 1] + s[i]]
  BY <1>8 DEF IsSums, n
<1> HIDE DEF u
<1>10. u[0] = 0
  BY <1>0, <1>9
<1>11. ASSUME NEW i \in 1 .. n PROVE u[i] = u[i - 1] + s[i]
  BY <1>0, <1>9
<1> DEFINE S == {k \in Nat : k <= n => u[k] \in Int}
<1>12. 0 \in S
  BY <1>10
<1>13. ASSUME NEW k \in Nat, k \in S PROVE k + 1 \in S
  <2> SUFFICES ASSUME k + 1 <= n PROVE u[k + 1] \in Int
    OBVIOUS
  <2>1. k + 1 \in 1 .. n /\ (k + 1) - 1 = k /\ u[k] \in Int
    BY <1>0, <1>13
  <2>2. u[k + 1] = u[k] + s[k + 1]
    BY <1>11, <2>1
  <2> QED BY <1>0, <2>1, <2>2
<1> HIDE DEF S
<1>14. \A k \in Nat : k \in S
  BY <1>12, <1>13, EveryNumber
<1>15. \A i \in 0 .. n : u[i] \in Int
  BY <1>0, <1>14 DEF S
<1> QED BY <1>10, <1>11, <1>15 DEF u, n

\* The model's totals are such sums.
LEMMA SumsInUse ==
  ASSUME NEW s \in Seq(Int)
  PROVE  /\ Metrics!Total(s) = Sums(s)[Len(s)]
         /\ Metrics!Cumulative(s) = [b \in 1 .. Len(s) |-> Sums(s)[b]]
  BY DEF Metrics!Total, Metrics!Cumulative, Sums, IsSums

\* One more element adds itself to the total.
LEMMA TotalNext ==
  ASSUME NEW s \in Seq(Int), NEW v \in Int
  PROVE  Metrics!Total(s) \in Int /\ Metrics!Total(Append(s, v)) = Metrics!Total(s) + v
<1> DEFINE n == Len(s)
           t == Append(s, v)
           f == Sums(s)
           g == Sums(t)
<1>0. /\ n \in Nat /\ t \in Seq(Int) /\ Len(t) = n + 1 /\ t[n + 1] = v
      /\ \A i \in 1 .. n : t[i] = s[i]
  OBVIOUS
<1>1. /\ f[0] = 0 /\ \A i \in 1 .. n : f[i] = f[i - 1] + s[i]
      /\ \A i \in 0 .. n : f[i] \in Int
  BY SumsAdd
<1>2. g[0] = 0 /\ \A i \in 1 .. n + 1 : g[i] = g[i - 1] + t[i]
  <2>1. g[0] = 0 /\ \A i \in 1 .. Len(t) : g[i] = g[i - 1] + t[i]
    BY <1>0, SumsAdd
  <2> QED BY <1>0, <2>1
<1>3. Metrics!Total(s) = f[n] /\ Metrics!Total(t) = g[n + 1]
  BY <1>0, SumsInUse
<1> HIDE DEF n, t, f, g
<1> DEFINE S == {k \in Nat : k <= n => g[k] = f[k]}
<1>4. 0 \in S
  BY <1>1, <1>2
<1>5. ASSUME NEW k \in Nat, k \in S PROVE k + 1 \in S
  <2> SUFFICES ASSUME k + 1 <= n PROVE g[k + 1] = f[k + 1]
    OBVIOUS
  <2>0. g[k] = f[k]
    <3>1. k <= n
      BY <1>0
    <3> QED BY <1>5, <3>1
  <2>1. k + 1 \in 1 .. n /\ k + 1 \in 1 .. n + 1 /\ (k + 1) - 1 = k /\ g[k] = f[k]
    BY <1>0, <2>0
  <2>2. f[k + 1] = f[k] + s[k + 1]
    BY <1>1, <2>1
  <2>3. g[k + 1] = g[k] + t[k + 1]
    BY <1>2, <2>1
  <2> QED BY <1>0, <2>1, <2>2, <2>3
<1> HIDE DEF S
<1>6. n \in S
  BY <1>0, <1>4, <1>5, EveryNumber
<1>7. g[n] = f[n] /\ f[n] \in Int
  BY <1>0, <1>1, <1>6 DEF S
<1>8. g[n + 1] = g[n] + v
  <2>1. n + 1 \in 1 .. n + 1 /\ (n + 1) - 1 = n
    BY <1>0
  <2> QED BY <1>0, <1>2, <2>1
<1> QED BY <1>3, <1>7, <1>8 DEF t

\* Of nothing the total is zero.
LEMMA TotalOfNone == Metrics!Total(<<>>) = 0
<1>1. <<>> \in Seq(Int) /\ Len(<<>>) = 0
  OBVIOUS
<1> QED BY <1>1, SumsAdd, SumsInUse

\* The bucket of a value is the first whose bound it does not pass: the value
\* is in one of the first buckets exactly when it is not above their bound.
LEMMA BucketOfValue ==
  ASSUME NEW v \in Int
  PROVE  /\ Metrics!Bucket(v) \in Metrics!Buckets
         /\ \A b \in DOMAIN bucket_boundaries_ :
              Metrics!Bucket(v) <= b <=> v <= bucket_boundaries_[b]
<1> DEFINE bb == bucket_boundaries_
           n == Len(bb)
           T == {b \in 1 .. n + 1 : b \in 1 .. n => v <= bb[b]}
           First(b) == /\ b \in 1 .. n => v <= bb[b]
                       /\ \A a \in 1 .. b - 1 : bb[a] < v
<1>0. /\ n \in Nat /\ DOMAIN bb = 1 .. n /\ \A b \in 1 .. n : bb[b] \in Int
      /\ \A a, b \in 1 .. n : a < b => bb[a] < bb[b]
  BY MetricsAssumption
<1> HIDE DEF bb, n
<1>1. T \subseteq 0 .. n + 1 /\ n + 1 \in T /\ n + 1 \in Nat
  BY <1>0
<1>2. PICK k \in T : \A j \in T : k <= j
  <2> HIDE DEF T
  <2>1. T # {}
    BY <1>1
  <2> QED BY <1>1, <2>1, LeastNumber
<1>3. k \in 1 .. n + 1 /\ First(k)
  <2>1. ASSUME NEW a \in 1 .. k - 1 PROVE bb[a] < v
    <3>1. a \in 1 .. n /\ a \in 1 .. n + 1 /\ ~ (k <= a)
      BY <1>0
    <3>2. a \notin T
      BY <1>2, <3>1
    <3> QED BY <1>0, <3>1, <3>2
  <2> QED BY <2>1
<1> DEFINE c == CHOOSE b \in 1 .. n + 1 : First(b)
<1>4. c \in 1 .. n + 1 /\ First(c)
  <2> HIDE DEF First
  <2> QED BY <1>3
<1>5. Metrics!Bucket(v) = c /\ Metrics!Buckets = 1 .. n + 1
  BY <1>0 DEF Metrics!Bucket, Metrics!Buckets, bb, n
<1> HIDE DEF c
<1>6. ASSUME NEW b \in 1 .. n PROVE c <= b <=> v <= bb[b]
  <2>1. ASSUME c <= b PROVE v <= bb[b]
    <3>1. c \in 1 .. n
      BY <1>0, <1>4, <2>1
    <3>2. v <= bb[c]
      BY <1>4, <3>1
    <3>3. c = b \/ bb[c] < bb[b]
      BY <1>0, <2>1, <3>1
    <3>4. bb[c] \in Int /\ bb[b] \in Int
      BY <1>0, <3>1
    <3> QED BY <3>2, <3>3, <3>4
  <2>2. ASSUME ~ (c <= b) PROVE ~ (v <= bb[b])
    <3>1. b \in 1 .. c - 1
      BY <1>0, <1>4, <2>2
    <3>2. bb[b] < v /\ bb[b] \in Int
      BY <1>0, <1>4, <3>1
    <3> QED BY <3>2
  <2> QED BY <2>1, <2>2
<1> QED BY <1>0, <1>4, <1>5, <1>6 DEF bb

\* The observations that fell into a bucket, and those that fell into it or into
\* one before it.
Hits(s, b) == {i \in 1 .. Len(s) : Metrics!Bucket(s[i]) = b}
HitsUpTo(s, b) == {i \in 1 .. Len(s) : Metrics!Bucket(s[i]) <= b}

\* One more observation is one more hit of its bucket, and of no other.
LEMMA HitsNext ==
  ASSUME NEW s \in Seq(Int), NEW v \in Int, NEW b
  PROVE  /\ IsFiniteSet(Hits(s, b)) /\ Cardinality(Hits(s, b)) \in Nat
         /\ Cardinality(Hits(Append(s, v), b)) =
              Cardinality(Hits(s, b)) + (IF Metrics!Bucket(v) = b THEN 1 ELSE 0)
<1> DEFINE n == Len(s)
           t == Append(s, v)
<1>0. /\ n \in Nat /\ Len(t) = n + 1 /\ t[n + 1] = v
      /\ \A i \in 1 .. n : t[i] = s[i]
  OBVIOUS
<1>1. IsFiniteSet(Hits(s, b)) /\ Hits(s, b) \subseteq 1 .. n
  <2>1. Hits(s, b) \subseteq 1 .. n
    BY DEF Hits
  <2>2. IsFiniteSet(1 .. n)
    BY <1>0, FS_Interval
  <2> QED BY <2>1, <2>2, FS_Subset
<1>2. Cardinality(Hits(s, b)) \in Nat
  BY <1>1, FS_CardinalityType
<1>3. Hits(t, b) = {i \in 1 .. n + 1 : Metrics!Bucket(t[i]) = b}
  BY <1>0 DEF Hits
<1>4. Hits(s, b) = {i \in 1 .. n : Metrics!Bucket(s[i]) = b}
  BY DEF Hits
<1> HIDE DEF n, t
<1>5. CASE Metrics!Bucket(v) = b
  <2>1. Hits(t, b) = Hits(s, b) \cup {n + 1}
    BY <1>0, <1>3, <1>4, <1>5
  <2>2. n + 1 \notin Hits(s, b)
    BY <1>0, <1>1
  <2> QED BY <1>1, <1>2, <1>5, <2>1, <2>2, FS_AddElement, ZenonT(60) DEF t
<1>6. CASE Metrics!Bucket(v) # b
  <2>1. Hits(t, b) = Hits(s, b)
    BY <1>0, <1>3, <1>4, <1>6
  <2> QED BY <1>1, <1>2, <1>6, <2>1 DEF t
<1> QED BY <1>5, <1>6

\* The sums of the buckets' counts are the numbers of observations in the
\* first buckets: what Collect adds up.
LEMMA SumsCount ==
  ASSUME NEW s \in Seq(Int), NEW c \in Seq(Int),
         Len(c) = Len(bucket_boundaries_) + 1,
         \A b \in 1 .. Len(c) : c[b] = Cardinality(Hits(s, b))
  PROVE  \A b \in 1 .. Len(c) : Sums(c)[b] = Cardinality(HitsUpTo(s, b))
<1> DEFINE m == Len(c)
           u == Sums(c)
           n == Len(s)
<1>0. m \in Nat /\ n \in Nat /\ \A i \in 1 .. n : s[i] \in Int
  OBVIOUS
<1>1. u[0] = 0 /\ \A i \in 1 .. m : u[i] = u[i - 1] + c[i]
  BY SumsAdd
<1>2. \A i \in 1 .. n : Metrics!Bucket(s[i]) \in 1 .. m
  BY <1>0, BucketOfValue DEF Metrics!Buckets
<1>3. \A b : HitsUpTo(s, b) = {i \in 1 .. n : Metrics!Bucket(s[i]) <= b}
             /\ Hits(s, b) = {i \in 1 .. n : Metrics!Bucket(s[i]) = b}
  BY DEF HitsUpTo, Hits
<1>4. \A b \in 1 .. m : c[b] = Cardinality(Hits(s, b))
  OBVIOUS
<1>5. IsFiniteSet(1 .. n)
  BY <1>0, FS_Interval
<1> HIDE DEF m, u, n
<1>6. ASSUME NEW b PROVE IsFiniteSet(HitsUpTo(s, b)) /\ IsFiniteSet(Hits(s, b))
  <2>1. HitsUpTo(s, b) \subseteq 1 .. n /\ Hits(s, b) \subseteq 1 .. n
    BY <1>3
  <2> QED BY <1>5, <2>1, FS_Subset
<1> DEFINE S == {k \in Nat : k <= m => u[k] = Cardinality(HitsUpTo(s, k))}
<1>7. 0 \in S
  <2>1. HitsUpTo(s, 0) = {}
    <3>1. ASSUME NEW i \in HitsUpTo(s, 0) PROVE FALSE
      <4>1. i \in 1 .. n /\ Metrics!Bucket(s[i]) <= 0
        BY <1>3
      <4> QED BY <1>0, <1>2, <4>1
    <3> QED BY <3>1
  <2>2. Cardinality(HitsUpTo(s, 0)) = 0
    BY <2>1, FS_EmptySet
  <2> QED BY <1>1, <2>2
<1>8. ASSUME NEW k \in Nat, k \in S PROVE k + 1 \in S
  <2> SUFFICES ASSUME k + 1 <= m PROVE u[k + 1] = Cardinality(HitsUpTo(s, k + 1))
    OBVIOUS
  <2>1. u[k] = Cardinality(HitsUpTo(s, k))
    <3>1. k <= m
      BY <1>0
    <3> QED BY <1>8, <3>1
  <2>2. k + 1 \in 1 .. m /\ (k + 1) - 1 = k
    BY <1>0
  <2>3. u[k + 1] = u[k] + c[k + 1]
    BY <1>1, <2>2
  <2>4. c[k + 1] = Cardinality(Hits(s, k + 1))
    BY <1>4, <2>2
  <2>5. HitsUpTo(s, k + 1) = HitsUpTo(s, k) \cup Hits(s, k + 1)
    <3>1. \A i \in 1 .. n : /\ Metrics!Bucket(s[i]) \in Int
                            /\ Metrics!Bucket(s[i]) <= k + 1 <=>
                                 Metrics!Bucket(s[i]) <= k \/ Metrics!Bucket(s[i]) = k + 1
      BY <1>0, <1>2
    <3> QED BY <1>3, <3>1
  <2>6. HitsUpTo(s, k) \cap Hits(s, k + 1) = {}
    <3>1. ASSUME NEW i \in HitsUpTo(s, k), i \in Hits(s, k + 1) PROVE FALSE
      <4>1. i \in 1 .. n /\ Metrics!Bucket(s[i]) <= k /\ Metrics!Bucket(s[i]) = k + 1
        BY <1>3, <3>1
      <4> QED BY <1>0, <4>1
    <3> QED BY <3>1
  <2> DEFINE A == HitsUpTo(s, k)
             B == Hits(s, k + 1)
  <2>7. Cardinality(A \cup B) = Cardinality(A) + Cardinality(B) - Cardinality(A \cap B)
    <3>1. IsFiniteSet(A) /\ IsFiniteSet(B)
      BY <1>6
    <3> HIDE DEF A, B
    <3> QED BY <3>1, FS_Union
  <2>8. Cardinality(A \cap B) = 0 /\ Cardinality(A) \in Nat /\ Cardinality(B) \in Nat
    BY <1>6, <2>6, FS_EmptySet, FS_CardinalityType
  <2> HIDE DEF A, B
  <2>9. Cardinality(A \cup B) = Cardinality(A) + Cardinality(B)
    BY <2>7, <2>8
  <2> QED BY <2>1, <2>3, <2>4, <2>5, <2>9 DEF A, B
<1> HIDE DEF S
<1>9. \A k \in Nat : k \in S
  BY <1>7, <1>8, EveryNumber
<1>10. \A b \in 1 .. m : u[b] = Cardinality(HitsUpTo(s, b))
  BY <1>0, <1>9 DEF S
<1> QED BY <1>10 DEF m, u

\* What Collect returns: the counts of the buckets added up, which are the
\* numbers of values that are not above each bound, and of all of them.
LEMMA CollectedAddsUp ==
  ASSUME NEW s \in Seq(Int), NEW c \in Seq(Int),
         Len(c) = Len(bucket_boundaries_) + 1,
         \A b \in 1 .. Len(c) : c[b] = Cardinality(Hits(s, b))
  PROVE  /\ \A b \in DOMAIN bucket_boundaries_ :
              Metrics!Cumulative(c)[b] = Metrics!Below(s, bucket_boundaries_[b])
         /\ Len(Metrics!Cumulative(c)) = Len(c)
         /\ Metrics!Cumulative(c)[Len(c)] = Len(s)
<1> DEFINE m == Len(c)
           n == Len(s)
           bb == bucket_boundaries_
           u == Sums(c)
<1>0. /\ m \in Nat /\ m = Len(bb) + 1 /\ n \in Nat /\ \A i \in 1 .. n : s[i] \in Int
      /\ DOMAIN bb = 1 .. Len(bb) /\ Len(bb) \in Nat /\ DOMAIN s = 1 .. n
  BY MetricsAssumption
<1>1. Metrics!Cumulative(c) = [b \in 1 .. m |-> u[b]]
  BY SumsInUse
<1>2. \A b \in 1 .. m : u[b] = Cardinality(HitsUpTo(s, b))
  BY SumsCount
<1>3. \A b : HitsUpTo(s, b) = {i \in 1 .. n : Metrics!Bucket(s[i]) <= b}
  BY DEF HitsUpTo
<1>4. \A v : Metrics!Below(s, v) = Cardinality({i \in 1 .. n : s[i] <= v})
  <2>1. ASSUME NEW v
        PROVE  Metrics!Below(s, v) = Cardinality({i \in DOMAIN s : s[i] <= v})
    BY DEF Metrics!Below, Metrics!Cardinality, Cardinality
  <2>2. DOMAIN s = 1 .. n
    OBVIOUS
  <2> QED BY <2>1, <2>2, Zenon
<1>5. \A i \in 1 .. n : /\ Metrics!Bucket(s[i]) \in 1 .. m
                        /\ \A b \in DOMAIN bb : Metrics!Bucket(s[i]) <= b <=> s[i] <= bb[b]
  BY <1>0, BucketOfValue DEF Metrics!Buckets
<1> HIDE DEF m, n, bb, u
<1>6. ASSUME NEW b \in DOMAIN bb
      PROVE  Metrics!Cumulative(c)[b] = Metrics!Below(s, bb[b])
  <2>1. HitsUpTo(s, b) = {i \in 1 .. n : s[i] <= bb[b]}
    BY <1>3, <1>5
  <2>2. b \in 1 .. m
    BY <1>0
  <2> QED BY <1>1, <1>2, <1>4, <2>1, <2>2
<1>7. Len(Metrics!Cumulative(c)) = m
  BY <1>0, <1>1
<1>8. Metrics!Cumulative(c)[m] = n
  <2>1. HitsUpTo(s, m) = 1 .. n
    <3>1. ASSUME NEW i \in 1 .. n PROVE Metrics!Bucket(s[i]) <= m
      BY <1>0, <1>5
    <3> QED BY <1>3, <3>1
  <2>2. Cardinality(1 .. n) = n
    BY <1>0, FS_Interval
  <2>3. m \in 1 .. m
    BY <1>0
  <2> QED BY <1>1, <1>2, <2>1, <2>2, <2>3
<1> QED BY <1>6, <1>7, <1>8 DEF m, n, bb

\* What a family and a thread are.
FamilyRecords == [type : Types, name : Names, constant : SUBSET Names, metrics : SUBSET (SUBSET Names)]
Observers == [at : {"idle", "exchange", "observe"}, value : Int, current : Int]

RegistryInv ==
  /\ families \in Seq(FamilyRecords)
  /\ \A i \in 1 .. Len(families) : Metrics!CheckMetricName(families[i].name)
  /\ \A i, j \in 1 .. Len(families) : families[i].name = families[j].name => i = j
  /\ \A i \in 1 .. Len(families) :
       \A m \in families[i].metrics : m \cap families[i].constant = {}

GaugeInv == gauge \in Int /\ incremented = gauge

\* The sum runs ahead of the observations by what the thread with the mutex is
\* observing; the counts are those of the observations that are complete.
ObservedInv ==
  /\ observer \in [Threads -> Observers]
  /\ histogram \in [counts : [Metrics!Buckets -> Int], sum : Int, mutex : Threads \cup {"free"}]
  /\ observed \in Seq(Int)
  /\ \A t \in Threads : observer[t].at = "observe" <=> histogram.mutex = t
  /\ histogram.mutex = "free" => histogram.sum = Metrics!Total(observed)
  /\ \A t \in Threads :
       histogram.mutex = t => histogram.sum = Metrics!Total(observed) + observer[t].value
  /\ \A b \in Metrics!Buckets : histogram.counts[b] = Cardinality(Hits(observed, b))

CollectedInv ==
  /\ \A b \in DOMAIN bucket_boundaries_ :
       collected.bucket[b] = Metrics!Below(collected.of, bucket_boundaries_[b])
  /\ collected.sample_count = Len(collected.of)
  /\ collected.sample_sum = Metrics!Total(collected.of)

MetricsInv ==
  RegistryInv /\ GaugeInv /\ ObservedInv /\ CollectedInv /\ operations \in 0 .. Operations

\* The invariant says what is to be shown, and of what kind the state is.
LEMMA MetricsInvImplies == MetricsInv => MetricsAddUp /\ Metrics!TypeOK
<1> SUFFICES ASSUME MetricsInv PROVE MetricsAddUp /\ Metrics!TypeOK
  OBVIOUS
<1>1. DOMAIN families = 1 .. Len(families)
  BY DEF MetricsInv, RegistryInv
<1>2. MetricsAddUp
  BY <1>1 DEF MetricsInv, RegistryInv, GaugeInv, CollectedInv, MetricsAddUp, Metrics!MetricsAddUp
<1>3. \A i \in 1 .. Len(families) : families[i].type \in Types
  <2> DEFINE f == families
  <2>1. f \in Seq(FamilyRecords)
    BY DEF MetricsInv, RegistryInv
  <2> HIDE DEF f
  <2>2. \A i \in 1 .. Len(f) : f[i] \in FamilyRecords
    BY <2>1
  <2> QED BY <2>2 DEF f, FamilyRecords
<1>4. Metrics!TypeOK
  BY <1>1, <1>3 DEF MetricsInv, RegistryInv, ObservedInv, Metrics!TypeOK
<1> QED BY <1>2, <1>4

\* At first nothing is counted.
LEMMA MetricsBegin == Metrics!Init => MetricsInv
<1> SUFFICES ASSUME Metrics!Init PROVE MetricsInv
  OBVIOUS
<1>0. /\ families = <<>> /\ gauge = 0 /\ incremented = 0 /\ observed = <<>> /\ operations = 0
      /\ histogram = [counts |-> [b \in Metrics!Buckets |-> 0], sum |-> 0, mutex |-> "free"]
      /\ collected = [bucket |-> [b \in Metrics!Buckets |-> 0], sample_count |-> 0,
                      sample_sum |-> 0, of |-> <<>>]
      /\ observer = [t \in Threads |-> [at |-> "idle", value |-> 0, current |-> 0]]
  BY DEF Metrics!Init, Metrics!Idle
<1>1. <<>> \in Seq(FamilyRecords) /\ <<>> \in Seq(Int) /\ Len(<<>>) = 0
  OBVIOUS
<1>2. RegistryInv
  BY <1>0, <1>1 DEF RegistryInv
<1>3. \A b : Hits(<<>>, b) = {} /\ Cardinality(Hits(<<>>, b)) = 0
  <2>1. ASSUME NEW b PROVE Hits(<<>>, b) = {}
    BY <1>1 DEF Hits
  <2> QED BY <2>1, FS_EmptySet
<1>4. Metrics!Total(<<>>) = 0
  BY TotalOfNone
<1>5. ObservedInv
  <2>1. \A t \in Threads : t # "free"
    BY MetricsAssumption
  <2>2. observer \in [Threads -> Observers] /\ \A t \in Threads : observer[t].at # "observe"
    BY <1>0 DEF Observers
  <2>3. histogram.sum = 0 /\ histogram.mutex = "free"
        /\ \A b \in Metrics!Buckets : histogram.counts[b] = 0
    BY <1>0
  <2>4. histogram \in [counts : [Metrics!Buckets -> Int], sum : Int, mutex : Threads \cup {"free"}]
    BY <1>0
  <2> QED BY <1>0, <1>1, <1>3, <1>4, <2>1, <2>2, <2>3, <2>4 DEF ObservedInv
<1>6. CollectedInv
  <2>1. \A b \in DOMAIN bucket_boundaries_ : b \in Metrics!Buckets
    BY MetricsAssumption DEF Metrics!Buckets
  <2>2. /\ \A b \in DOMAIN bucket_boundaries_ : collected.bucket[b] = 0
        /\ collected.sample_count = 0 /\ collected.sample_sum = 0 /\ collected.of = <<>>
    BY <1>0, <2>1
  <2>3. ASSUME NEW v PROVE Metrics!Below(<<>>, v) = 0
    <3>1. {i \in DOMAIN <<>> : <<>>[i] <= v} = {}
      OBVIOUS
    <3>2. Metrics!Below(<<>>, v) = Cardinality({i \in DOMAIN <<>> : <<>>[i] <= v})
      BY DEF Metrics!Below, Metrics!Cardinality, Cardinality
    <3> QED BY <3>1, <3>2, FS_EmptySet
  <2> QED BY <1>1, <1>4, <2>2, <2>3 DEF CollectedInv
<1>7. GaugeInv /\ operations \in 0 .. Operations
  BY <1>0, MetricsAssumption DEF GaugeInv
<1> QED BY <1>2, <1>5, <1>6, <1>7 DEF MetricsInv

\* What the parts of the invariant are about.
LEMMA ObservedSame ==
  ASSUME ObservedInv, UNCHANGED <<observer, histogram, observed>>
  PROVE  ObservedInv'
  BY DEF ObservedInv

\* A thread that neither was nor is observing does not matter to the histogram.
LEMMA ObservedMoves ==
  ASSUME ObservedInv, UNCHANGED <<histogram, observed>>, NEW t \in Threads,
         observer' \in [Threads -> Observers],
         observer[t].at # "observe", observer'[t].at # "observe",
         \A s \in Threads : s # t => observer'[s] = observer[s]
  PROVE  ObservedInv'
<1>1. \A s \in Threads : /\ observer'[s].at = "observe" <=> histogram.mutex = s
                         /\ histogram.mutex = s => observer'[s] = observer[s]
  BY DEF ObservedInv
<1> QED BY <1>1 DEF ObservedInv

\* The same of the registry, the counter and what was collected.
LEMMA OthersSame ==
  /\ RegistryInv /\ UNCHANGED families => RegistryInv'
  /\ GaugeInv /\ UNCHANGED <<gauge, incremented>> => GaugeInv'
  /\ CollectedInv /\ UNCHANGED collected => CollectedInv'
  /\ operations \in 0 .. Operations /\ operations < Operations /\ operations' = operations + 1 =>
       operations' \in 0 .. Operations
<1>1. RegistryInv /\ UNCHANGED families => RegistryInv'
  BY DEF RegistryInv
<1>2. GaugeInv /\ UNCHANGED <<gauge, incremented>> => GaugeInv'
  BY DEF GaugeInv
<1>3. CollectedInv /\ UNCHANGED collected => CollectedInv'
  BY DEF CollectedInv
<1> QED BY <1>1, <1>2, <1>3, MetricsAssumption

\* Registry::Add: a name that is there, with whatever type, is not added again.
LEMMA AddFamilyKeeps ==
  ASSUME MetricsInv, Metrics!AddFamily
  PROVE  MetricsInv'
<1>0. /\ operations < Operations /\ operations' = operations + 1
      /\ UNCHANGED <<gauge, incremented, histogram, observed, collected, observer>>
  BY ZenonT(60) DEF Metrics!AddFamily
<1>1. CASE UNCHANGED families
  BY <1>0, <1>1, ObservedSame, OthersSame DEF MetricsInv
<1>2. CASE ~ UNCHANGED families
  <2>1. PICK type \in Types, name \in Names, labels \in SUBSET Names :
          /\ ~ Metrics!NameExistsInOtherType(type, name)
          /\ Metrics!SameName(type, name) = {}
          /\ Metrics!CheckMetricName(name)
          /\ families' = Append(families,
                [type |-> type, name |-> name, constant |-> labels, metrics |-> {}])
    BY <1>2, Zenon DEF Metrics!AddFamily
  <2> DEFINE f == families
             n == Len(f)
             new == [type |-> type, name |-> name, constant |-> labels, metrics |-> {}]
             g == Append(f, new)
  <2>2. /\ f \in Seq(FamilyRecords) /\ n \in Nat /\ DOMAIN f = 1 .. n
        /\ \A i \in 1 .. n : Metrics!CheckMetricName(f[i].name)
        /\ \A i, j \in 1 .. n : f[i].name = f[j].name => i = j
        /\ \A i \in 1 .. n : \A m \in f[i].metrics : m \cap f[i].constant = {}
    BY DEF MetricsInv, RegistryInv
  <2>3. new \in FamilyRecords /\ new.name = name /\ new.metrics = {} /\ new.constant = labels
    BY DEF FamilyRecords
  <2>4. \A i \in 1 .. n : f[i].name # name
    <3>1. ASSUME NEW i \in 1 .. n, f[i].name = name PROVE FALSE
      <4>1. i \in DOMAIN families
        BY <2>2
      <4>2. families[i].type = type
        BY <2>1, <3>1, <4>1 DEF Metrics!NameExistsInOtherType
      <4>3. i \in Metrics!SameName(type, name)
        BY <3>1, <4>1, <4>2 DEF Metrics!SameName
      <4> QED BY <2>1, <4>3
    <3> QED BY <3>1
  <2> HIDE DEF f, new, n
  <2>5. /\ g \in Seq(FamilyRecords) /\ Len(g) = n + 1 /\ g[n + 1] = new
        /\ \A i \in 1 .. n : g[i] = f[i]
    BY <2>2, <2>3 DEF n
  <2>6. families' = g
    BY <2>1 DEF f, new
  <2> HIDE DEF g
  <2>7. \A i \in 1 .. Len(g) : Metrics!CheckMetricName(g[i].name)
    BY <2>1, <2>2, <2>3, <2>5
  <2>8. \A i, j \in 1 .. Len(g) : g[i].name = g[j].name => i = j
    BY <2>2, <2>3, <2>4, <2>5
  <2>9. \A i \in 1 .. Len(g) : \A m \in g[i].metrics : m \cap g[i].constant = {}
    BY <2>2, <2>3, <2>5
  <2>10. RegistryInv'
    BY <2>5, <2>6, <2>7, <2>8, <2>9, ZenonT(60) DEF RegistryInv, Metrics!CheckMetricName,
       Metrics!nameStartsValid, Metrics!Consists
  <2> QED BY <1>0, <2>10, ObservedSame, OthersSame DEF MetricsInv
<1> QED BY <1>1, <1>2

\* A family whose metrics change, without a label its family has: Family::Add
\* and Family::Remove.
LEMMA MetricsChanged ==
  ASSUME RegistryInv, NEW i \in 1 .. Len(families), NEW ms \in SUBSET (SUBSET Names),
         \A m \in ms : m \cap families[i].constant = {},
         families' = [families EXCEPT ![i].metrics = ms]
  PROVE  RegistryInv'
<1> DEFINE f == families
           n == Len(f)
           g == [f EXCEPT ![i].metrics = ms]
<1>1. /\ f \in Seq(FamilyRecords) /\ n \in Nat
      /\ \A j \in 1 .. n : Metrics!CheckMetricName(f[j].name)
      /\ \A j, k \in 1 .. n : f[j].name = f[k].name => j = k
      /\ \A j \in 1 .. n : \A m \in f[j].metrics : m \cap f[j].constant = {}
  BY DEF RegistryInv
<1>2. i \in 1 .. n /\ \A m \in ms : m \cap f[i].constant = {}
  OBVIOUS
<1> DEFINE e == [f[i] EXCEPT !.metrics = ms]
<1>3. \A j \in 1 .. n : f[j] \in FamilyRecords
  <2> HIDE DEF f
  <2> QED BY <1>1
<1>4. /\ e \in FamilyRecords /\ e.name = f[i].name /\ e.metrics = ms
      /\ e.constant = f[i].constant
  <2>1. f[i] \in FamilyRecords
    BY <1>2, <1>3
  <2> HIDE DEF f
  <2> QED BY <2>1 DEF FamilyRecords
<1>5. g = [f EXCEPT ![i] = e]
  OBVIOUS
<1> HIDE DEF e
<1>6. /\ g \in Seq(FamilyRecords) /\ Len(g) = n
      /\ \A j \in 1 .. n : g[j] = IF j = i THEN e ELSE f[j]
  <2> HIDE DEF g, f
  <2> QED BY <1>1, <1>2, <1>4, <1>5, ExceptSeq
<1>7. families' = g
  OBVIOUS
<1> HIDE DEF f, g, n
<1>8. \A j \in 1 .. n : g[j].name = f[j].name
  BY <1>4, <1>6
<1>9. \A j \in 1 .. Len(g) : Metrics!CheckMetricName(g[j].name)
  BY <1>1, <1>6, <1>8
<1>10. \A j, k \in 1 .. Len(g) : g[j].name = g[k].name => j = k
  BY <1>1, <1>6, <1>8
<1>11. \A j \in 1 .. Len(g) : \A m \in g[j].metrics : m \cap g[j].constant = {}
  BY <1>1, <1>2, <1>4, <1>6
<1> QED BY <1>6, <1>7, <1>9, <1>10, <1>11, ZenonT(60) DEF RegistryInv, Metrics!CheckMetricName,
       Metrics!nameStartsValid, Metrics!Consists

\* Family::Add: the new metric's label is none of the family's.
LEMMA AddMetricKeeps ==
  ASSUME MetricsInv, Metrics!AddMetric
  PROVE  MetricsInv'
<1>0. /\ operations < Operations /\ operations' = operations + 1
      /\ UNCHANGED <<gauge, incremented, histogram, observed, collected, observer>>
  BY ZenonT(60) DEF Metrics!AddMetric
<1>1. CASE UNCHANGED families
  BY <1>0, <1>1, ObservedSame, OthersSame DEF MetricsInv
<1>2. CASE ~ UNCHANGED families
  <2>1. PICK i \in DOMAIN families, label \in Names :
          /\ families' = [families EXCEPT ![i].metrics = @ \cup {{label}}]
          /\ {label} \in families[i].metrics \/ label \notin families[i].constant
    BY <1>2, Zenon DEF Metrics!AddMetric
  <2> DEFINE ms == families[i].metrics \cup {{label}}
  <2>2. /\ i \in 1 .. Len(families) /\ families[i] \in FamilyRecords
        /\ \A m \in families[i].metrics : m \cap families[i].constant = {}
    <3>1. families \in Seq(FamilyRecords)
      BY DEF MetricsInv, RegistryInv
    <3>2. i \in 1 .. Len(families)
      BY <2>1, <3>1
    <3> QED BY <3>1, <3>2, ElementOfSeq DEF MetricsInv, RegistryInv
  <2>3. ms \in SUBSET (SUBSET Names)
    BY <2>2 DEF FamilyRecords
  <2>4. \A m \in ms : m \cap families[i].constant = {}
    BY <2>1, <2>2
  <2>5. families' = [families EXCEPT ![i].metrics = ms]
    BY <2>1
  <2> HIDE DEF ms
  <2>6. RegistryInv'
    BY <2>2, <2>3, <2>4, <2>5, MetricsChanged DEF MetricsInv
  <2> QED BY <1>0, <2>6, ObservedSame, OthersSame DEF MetricsInv
<1> QED BY <1>1, <1>2

\* Family::Remove
LEMMA RemoveMetricKeeps ==
  ASSUME MetricsInv, Metrics!RemoveMetric
  PROVE  MetricsInv'
<1>0. /\ operations < Operations /\ operations' = operations + 1
      /\ UNCHANGED <<gauge, incremented, histogram, observed, collected, observer>>
  BY DEF Metrics!RemoveMetric
<1>1. PICK i \in DOMAIN families : \E m \in families[i].metrics :
        families' = [families EXCEPT ![i].metrics = @ \ {m}]
  BY DEF Metrics!RemoveMetric
<1>2. PICK gone \in families[i].metrics : families' = [families EXCEPT ![i].metrics = @ \ {gone}]
  BY <1>1
<1> DEFINE ms == families[i].metrics \ {gone}
<1>3. /\ i \in 1 .. Len(families) /\ families[i] \in FamilyRecords
      /\ \A m \in families[i].metrics : m \cap families[i].constant = {}
  <2>1. families \in Seq(FamilyRecords)
    BY DEF MetricsInv, RegistryInv
  <2>2. i \in 1 .. Len(families)
    BY <1>1, <2>1
  <2> QED BY <2>1, <2>2, ElementOfSeq DEF MetricsInv, RegistryInv
<1>4. ms \in SUBSET (SUBSET Names) /\ \A m \in ms : m \cap families[i].constant = {}
  BY <1>3 DEF FamilyRecords
<1>5. families' = [families EXCEPT ![i].metrics = ms]
  BY <1>2
<1> HIDE DEF ms
<1>6. RegistryInv'
  BY <1>3, <1>4, <1>5, MetricsChanged DEF MetricsInv
<1> QED BY <1>0, <1>6, ObservedSame, OthersSame DEF MetricsInv

\* Registry::Remove
LEMMA RemoveFamilyKeeps ==
  ASSUME MetricsInv, Metrics!RemoveFamily
  PROVE  MetricsInv'
<1>0. /\ operations < Operations /\ operations' = operations + 1
      /\ UNCHANGED <<gauge, incremented, histogram, observed, collected, observer>>
  BY DEF Metrics!RemoveFamily
<1>1. PICK i \in DOMAIN families :
        families' = SubSeq(families, 1, i - 1) \o SubSeq(families, i + 1, Len(families))
  BY DEF Metrics!RemoveFamily
<1> DEFINE f == families
           n == Len(f)
           a == SubSeq(f, 1, i - 1)
           b == SubSeq(f, i + 1, n)
           g == a \o b
<1>2. /\ f \in Seq(FamilyRecords) /\ n \in Nat /\ i \in 1 .. n
      /\ \A j \in 1 .. n : Metrics!CheckMetricName(f[j].name)
      /\ \A j, k \in 1 .. n : f[j].name = f[k].name => j = k
      /\ \A j \in 1 .. n : \A m \in f[j].metrics : m \cap f[j].constant = {}
  BY <1>1, SMTT(40) DEF MetricsInv, RegistryInv
<1>3. families' = g
  BY <1>1
<1>4. \A j \in 1 .. n : f[j] \in FamilyRecords
  <2> HIDE DEF f
  <2> QED BY <1>2
<1> HIDE DEF f, n
<1>5. /\ a \in Seq(FamilyRecords) /\ Len(a) = i - 1
      /\ \A j \in 1 .. i - 1 : a[j] = f[j]
  <2>1. /\ 1 \in Int /\ i - 1 \in Int /\ (i - 1) - 1 + 1 = i - 1
        /\ \A j \in 1 .. i - 1 : f[j] \in FamilyRecords
    BY <1>2, <1>4
  <2>2. /\ a \in Seq(FamilyRecords) /\ Len(a) = (IF 1 <= i - 1 THEN (i - 1) - 1 + 1 ELSE 0)
        /\ \A j \in 1 .. (i - 1) - 1 + 1 : a[j] = f[1 + j - 1]
    BY <2>1, SubSeqProperties
  <2> HIDE DEF a
  <2>3. \A j \in 1 .. i - 1 : 1 + j - 1 = j
    OBVIOUS
  <2> QED BY <1>2, <2>1, <2>2, <2>3
<1>6. /\ b \in Seq(FamilyRecords) /\ Len(b) = n - i
      /\ \A j \in 1 .. n - i : b[j] = f[i + j]
  <2>1. /\ i + 1 \in Int /\ n \in Int /\ n - (i + 1) + 1 = n - i
        /\ \A j \in i + 1 .. n : f[j] \in FamilyRecords
    BY <1>2, <1>4
  <2>2. /\ b \in Seq(FamilyRecords) /\ Len(b) = (IF i + 1 <= n THEN n - (i + 1) + 1 ELSE 0)
        /\ \A j \in 1 .. n - (i + 1) + 1 : b[j] = f[(i + 1) + j - 1]
    BY <2>1, SubSeqProperties
  <2> HIDE DEF b
  <2>3. \A j \in 1 .. n - i : (i + 1) + j - 1 = i + j
    BY <1>2
  <2> QED BY <1>2, <2>1, <2>2, <2>3, SMTT(40)
<1> HIDE DEF a, b
<1>7. /\ g \in Seq(FamilyRecords) /\ Len(g) = n - 1
      /\ \A j \in 1 .. n - 1 : g[j] = IF j <= i - 1 THEN a[j] ELSE b[j - (i - 1)]
  <2>1. /\ Len(a) \in Nat /\ Len(b) \in Nat
        /\ Len(a) = i - 1 /\ Len(a) + Len(b) = n - 1
    BY <1>2, <1>5, <1>6
  <2>2. /\ g \in Seq(FamilyRecords) /\ Len(g) = Len(a) + Len(b)
        /\ \A j \in 1 .. Len(a) + Len(b) : g[j] = IF j <= Len(a) THEN a[j] ELSE b[j - Len(a)]
    BY <1>5, <1>6, ConcatProperties
  <2> HIDE DEF g
  <2> QED BY <2>1, <2>2
<1> HIDE DEF g
<1> DEFINE Old(j) == IF j < i THEN j ELSE j + 1
<1>8. \A j \in 1 .. n - 1 : Old(j) \in 1 .. n /\ g[j] = f[Old(j)]
  <2>1. ASSUME NEW j \in 1 .. n - 1, j < i PROVE g[j] = f[j]
    BY <1>2, <1>5, <1>7, <2>1
  <2>2. ASSUME NEW j \in 1 .. n - 1, ~ (j < i) PROVE g[j] = f[j + 1]
    <3>1. j - (i - 1) \in 1 .. n - i /\ i + (j - (i - 1)) = j + 1 /\ ~ (j <= i - 1)
      BY <1>2, <2>2
    <3>2. g[j] = b[j - (i - 1)]
      BY <1>7, <3>1
    <3> QED BY <1>6, <3>1, <3>2
  <2> QED BY <1>2, <2>1, <2>2
<1>9. \A j, k \in 1 .. n - 1 : Old(j) = Old(k) => j = k
  BY <1>2
<1> HIDE DEF Old
<1>10. Len(g) = n - 1 /\ g \in Seq(FamilyRecords)
  BY <1>7
<1>11. \A j \in 1 .. Len(g) : Metrics!CheckMetricName(g[j].name)
  BY <1>2, <1>8, <1>10
<1>12. \A j, k \in 1 .. Len(g) : g[j].name = g[k].name => j = k
  <2>1. ASSUME NEW j \in 1 .. n - 1, NEW k \in 1 .. n - 1, g[j].name = g[k].name
        PROVE  j = k
    <3>1. /\ Old(j) \in 1 .. n /\ Old(k) \in 1 .. n
          /\ f[Old(j)].name = f[Old(k)].name
      BY <1>8, <2>1
    <3>2. Old(j) = Old(k)
      BY <1>2, <3>1
    <3> QED BY <1>9, <3>2
  <2> QED BY <1>10, <2>1
<1>13. \A j \in 1 .. Len(g) : \A m \in g[j].metrics : m \cap g[j].constant = {}
  BY <1>2, <1>8, <1>10
<1>14. RegistryInv'
  BY <1>3, <1>10, <1>11, <1>12, <1>13, ZenonT(60) DEF RegistryInv, Metrics!CheckMetricName,
     Metrics!nameStartsValid, Metrics!Consists
<1> QED BY <1>0, <1>14, ObservedSame, OthersSame DEF MetricsInv

\* Increment: the value read is what the exchange will compare with.
LEMMA LoadKeeps ==
  ASSUME MetricsInv, NEW t \in Threads, Metrics!Load(t)
  PROVE  MetricsInv'
<1>0. /\ operations < Operations /\ operations' = operations + 1
      /\ UNCHANGED <<families, gauge, incremented, histogram, observed, collected>>
      /\ observer[t] = Metrics!Idle
  BY DEF Metrics!Load
<1>1. CASE UNCHANGED observer
  BY <1>0, <1>1, ObservedSame, OthersSame DEF MetricsInv
<1>2. CASE ~ UNCHANGED observer
  <2>1. PICK v \in Values :
          observer' = [observer EXCEPT ![t] = [at |-> "exchange", value |-> v, current |-> gauge]]
    BY <1>2, Zenon DEF Metrics!Load, Metrics!Step
  <2>2. [at |-> "exchange", value |-> v, current |-> gauge] \in Observers
    BY MetricsAssumption DEF MetricsInv, GaugeInv, Observers
  <2>3. /\ observer' \in [Threads -> Observers]
        /\ observer[t].at # "observe" /\ observer'[t].at # "observe"
        /\ \A s \in Threads : s # t => observer'[s] = observer[s]
    BY <1>0, <2>1, <2>2 DEF MetricsInv, ObservedInv, Metrics!Idle
  <2>4. ObservedInv'
    BY <1>0, <2>3, ObservedMoves DEF MetricsInv
  <2> QED BY <1>0, <2>4, OthersSame DEF MetricsInv
<1> QED BY <1>1, <1>2

\* The exchange adds the value to what the counter is, or reads it again.
LEMMA CompareExchangeKeeps ==
  ASSUME MetricsInv, NEW t \in Threads, Metrics!CompareExchange(t)
  PROVE  MetricsInv'
<1>0. /\ UNCHANGED <<families, histogram, observed, collected, operations>>
      /\ observer[t].at = "exchange"
  BY DEF Metrics!CompareExchange
<1>1. /\ observer \in [Threads -> Observers] /\ observer[t] \in Observers
      /\ observer[t].value \in Int /\ gauge \in Int /\ incremented = gauge
  BY DEF MetricsInv, ObservedInv, GaugeInv, Observers
<1>2. PICK o \in Observers :
        /\ observer' = [observer EXCEPT ![t] = o] /\ o.at # "observe"
        /\ \/ gauge' = gauge + observer[t].value /\ incremented' = incremented + observer[t].value
           \/ UNCHANGED <<gauge, incremented>>
  <2>1. CASE /\ Metrics!Exchanged(t)
             /\ gauge' = observer[t].current + observer[t].value
             /\ incremented' = incremented + observer[t].value
             /\ observer' = [observer EXCEPT ![t] = Metrics!Idle]
    <3>1. Metrics!Idle \in Observers /\ Metrics!Idle.at # "observe"
      BY DEF Observers, Metrics!Idle
    <3>2. observer[t].current = gauge
      BY <2>1 DEF Metrics!Exchanged
    <3> QED BY <2>1, <3>1, <3>2
  <2>2. CASE /\ observer' = [observer EXCEPT ![t] =
                 [at |-> "exchange", value |-> observer[t].value, current |-> gauge]]
             /\ UNCHANGED <<gauge, incremented>>
    <3>1. [at |-> "exchange", value |-> observer[t].value, current |-> gauge] \in Observers
      BY <1>1 DEF Observers
    <3> QED BY <2>2, <3>1
  <2> QED BY <2>1, <2>2, Zenon DEF Metrics!CompareExchange, Metrics!Step
<1>3. GaugeInv'
  BY <1>1, <1>2 DEF GaugeInv
<1>4. /\ observer' \in [Threads -> Observers]
      /\ observer[t].at # "observe" /\ observer'[t].at # "observe"
      /\ \A s \in Threads : s # t => observer'[s] = observer[s]
  BY <1>0, <1>1, <1>2
<1>5. ObservedInv'
  BY <1>0, <1>4, ObservedMoves DEF MetricsInv
<1> QED BY <1>0, <1>3, <1>5, OthersSame DEF MetricsInv

\* Observe takes the mutex and adds to the sum; the bucket follows.
LEMMA ObserveKeeps ==
  ASSUME MetricsInv, NEW t \in Threads, Metrics!Observe(t)
  PROVE  MetricsInv'
<1>0. /\ operations < Operations /\ operations' = operations + 1
      /\ UNCHANGED <<families, gauge, incremented, observed, collected>>
      /\ observer[t] = Metrics!Idle /\ histogram.mutex = "free"
  BY DEF Metrics!Observe
<1>1. PICK v \in Values :
        /\ observer' = [observer EXCEPT ![t] = [at |-> "observe", value |-> v, current |-> 0]]
        /\ histogram' = [histogram EXCEPT !.mutex = t, !.sum = @ + v]
  BY ZenonT(60) DEF Metrics!Observe, Metrics!Step
<1> DEFINE o == [at |-> "observe", value |-> v, current |-> 0]
           total == Metrics!Total(observed)
<1>2. /\ v \in Int /\ o \in Observers /\ o.at = "observe" /\ o.value = v
      /\ t # "free" /\ "free" \notin Threads
  BY MetricsAssumption DEF Observers
<1>3. /\ observer \in [Threads -> Observers]
      /\ histogram \in [counts : [Metrics!Buckets -> Int], sum : Int, mutex : Threads \cup {"free"}]
      /\ observed \in Seq(Int) /\ histogram.sum = total
      /\ \A s \in Threads : observer[s].at = "observe" <=> histogram.mutex = s
      /\ \A b \in Metrics!Buckets : histogram.counts[b] = Cardinality(Hits(observed, b))
  BY <1>0 DEF MetricsInv, ObservedInv
<1>4. total \in Int
  BY <1>3, TotalNext
<1> HIDE DEF o, total
<1>5. /\ observer' \in [Threads -> Observers] /\ observer'[t] = o
      /\ \A s \in Threads : s # t => observer'[s] = observer[s]
  BY <1>1, <1>2, <1>3 DEF o
<1>6. /\ histogram'.mutex = t /\ histogram'.sum = histogram.sum + v
      /\ histogram'.counts = histogram.counts
      /\ histogram' \in [counts : [Metrics!Buckets -> Int], sum : Int, mutex : Threads \cup {"free"}]
  <2> DEFINE M == Threads \cup {"free"}
  <2>1. t \in M
    OBVIOUS
  <2>2. histogram \in [counts : [Metrics!Buckets -> Int], sum : Int, mutex : M]
    BY <1>3
  <2> HIDE DEF M
  <2>3. \A k \in Int : k + v \in Int
    BY <1>2
  <2>4. histogram' = [counts |-> histogram.counts, sum |-> histogram.sum + v, mutex |-> t]
    BY <1>1, <2>2
  <2>5. histogram.counts \in [Metrics!Buckets -> Int] /\ histogram.sum \in Int
    BY <2>2
  <2>6. histogram' \in [counts : [Metrics!Buckets -> Int], sum : Int, mutex : M]
    BY <2>1, <2>3, <2>4, <2>5
  <2> QED BY <2>4, <2>6 DEF M
<1>7. \A s \in Threads : observer'[s].at = "observe" <=> histogram'.mutex = s
  BY <1>0, <1>2, <1>3, <1>5, <1>6
<1>8. histogram'.sum = total + v
  BY <1>3, <1>6
<1>9. ObservedInv'
  BY <1>0, <1>2, <1>3, <1>5, <1>6, <1>7, <1>8 DEF ObservedInv, total
<1> QED BY <1>0, <1>9, OthersSame DEF MetricsInv

\* The observation is complete: its bucket has one more.
LEMMA ObserveBucketKeeps ==
  ASSUME MetricsInv, NEW t \in Threads, Metrics!ObserveBucket(t)
  PROVE  MetricsInv'
<1> DEFINE v == observer[t].value
           k == Metrics!Bucket(v)
           B == Metrics!Buckets
           M == Threads \cup {"free"}
           s == Append(observed, v)
           c == [histogram.counts EXCEPT ![k] = @ + 1]
<1>0. /\ UNCHANGED <<families, gauge, incremented, collected, operations>>
      /\ observer[t].at = "observe" /\ observed' = s
      /\ histogram' = [histogram EXCEPT !.mutex = "free", !.counts[k] = @ + 1]
      /\ observer' = [observer EXCEPT ![t] = Metrics!Idle]
  BY DEF Metrics!ObserveBucket
<1>1. /\ observer \in [Threads -> Observers]
      /\ histogram \in [counts : [B -> Int], sum : Int, mutex : M]
      /\ observed \in Seq(Int)
      /\ \A q \in Threads : observer[q].at = "observe" <=> histogram.mutex = q
      /\ \A q \in Threads :
           histogram.mutex = q => histogram.sum = Metrics!Total(observed) + observer[q].value
      /\ \A b \in B : histogram.counts[b] = Cardinality(Hits(observed, b))
  BY DEF MetricsInv, ObservedInv
<1>2. /\ histogram.mutex = t /\ v \in Int
      /\ histogram.sum = Metrics!Total(observed) + v
  <2>1. observer[t] \in Observers
    BY <1>1
  <2> QED BY <1>0, <1>1, <2>1 DEF Observers
<1>3. k \in B
  BY <1>2, BucketOfValue
<1>4. s \in Seq(Int) /\ Metrics!Total(s) = Metrics!Total(observed) + v
  BY <1>1, <1>2, TotalNext
<1>5. \A b \in B : /\ Cardinality(Hits(observed, b)) \in Nat
                   /\ Cardinality(Hits(s, b)) =
                        Cardinality(Hits(observed, b)) + (IF k = b THEN 1 ELSE 0)
  BY <1>1, <1>2, HitsNext
<1> HIDE DEF v, k, B, M, s
<1>6. histogram.counts \in [B -> Int] /\ histogram.sum \in Int
  BY <1>1
<1>7. c \in [B -> Int] /\ \A b \in B : c[b] = IF b = k THEN histogram.counts[b] + 1 ELSE histogram.counts[b]
  BY <1>3, <1>6
<1>8. \A b \in B : c[b] = Cardinality(Hits(s, b))
  BY <1>1, <1>5, <1>7
<1>9. histogram' = [counts |-> c, sum |-> histogram.sum, mutex |-> "free"]
  BY <1>0, <1>1
<1> HIDE DEF c
<1>10. "free" \in M /\ histogram' \in [counts : [B -> Int], sum : Int, mutex : M]
  <2>1. "free" \in M
    BY DEF M
  <2> QED BY <1>6, <1>7, <1>9, <2>1
<1>11. histogram'.counts = c /\ histogram'.sum = histogram.sum /\ histogram'.mutex = "free"
  BY <1>9
<1>12. Metrics!Idle \in Observers /\ Metrics!Idle.at # "observe"
  BY DEF Observers, Metrics!Idle
<1>13. /\ observer' \in [Threads -> Observers]
       /\ \A q \in Threads : observer'[q].at # "observe" /\ q # "free"
  <2>1. \A q \in Threads : q # t => observer[q].at # "observe"
    BY <1>1, <1>2
  <2>2. observer' \in [Threads -> Observers]
    BY <1>0, <1>1, <1>12
  <2>3. \A q \in Threads : observer'[q] = IF q = t THEN Metrics!Idle ELSE observer[q]
    BY <1>0, <1>1
  <2> QED BY <1>12, <2>1, <2>2, <2>3, MetricsAssumption
<1>14. ObservedInv'
  BY <1>0, <1>2, <1>4, <1>8, <1>10, <1>11, <1>13 DEF ObservedInv, B, M
<1> QED BY <1>0, <1>14, OthersSame DEF MetricsInv

\* ObserveMultiple counts what is observed one by one.
LEMMA ObserveMultipleKeeps ==
  ASSUME MetricsInv, Metrics!ObserveMultiple
  PROVE  MetricsInv'
<1> DEFINE B == Metrics!Buckets
           M == Threads \cup {"free"}
           One(v, b) == IF Metrics!Bucket(v) = b THEN 1 ELSE 0
<1>0. /\ operations < Operations /\ operations' = operations + 1
      /\ UNCHANGED <<families, gauge, incremented, collected, observer>>
      /\ histogram.mutex = "free"
  BY DEF Metrics!ObserveMultiple
<1>1. PICK v \in Values, w \in Values :
        /\ histogram' = [histogram EXCEPT !.sum = @ + v + w,
             !.counts = [b \in B |-> @[b] + [a \in B |-> One(v, a) + One(w, a)][b]]]
        /\ observed' = observed \o <<v, w>>
  BY ZenonT(60) DEF Metrics!ObserveMultiple
<1> DEFINE r == Append(observed, v)
           s == Append(r, w)
           h == histogram.counts
           c == [b \in B |-> h[b] + [a \in B |-> One(v, a) + One(w, a)][b]]
<1>2. /\ observer \in [Threads -> Observers]
      /\ histogram \in [counts : [B -> Int], sum : Int, mutex : M]
      /\ observed \in Seq(Int)
      /\ \A q \in Threads : observer[q].at = "observe" <=> histogram.mutex = q
      /\ histogram.sum = Metrics!Total(observed)
      /\ \A b \in B : h[b] = Cardinality(Hits(observed, b))
  BY <1>0 DEF MetricsInv, ObservedInv
<1>3. v \in Int /\ w \in Int /\ r \in Seq(Int) /\ s \in Seq(Int)
  BY <1>2, MetricsAssumption
<1>4. observed' = s
  <2> DEFINE o == observed
  <2>0. o \in Seq(Int)
    BY <1>2
  <2> HIDE DEF o
  <2>1. <<v, w>> \in Seq(Int) /\ Append(o, v) \in Seq(Int) /\ Append(Append(o, v), w) \in Seq(Int)
    BY <1>3, <2>0
  <2>2. o \o <<v, w>> = Append(Append(o, v), w)
    BY <2>0, <2>1, SeqEqual
  <2> QED BY <1>1, <2>2 DEF o
<1>5. /\ Metrics!Total(observed) \in Int
      /\ Metrics!Total(s) = Metrics!Total(observed) + v + w
  BY <1>2, <1>3, TotalNext, ZenonT(60)
<1>6. \A b \in B : /\ Cardinality(Hits(observed, b)) \in Nat
                   /\ Cardinality(Hits(s, b)) = Cardinality(Hits(observed, b)) + One(v, b) + One(w, b)
  <2>1. ASSUME NEW b \in B
        PROVE  /\ Cardinality(Hits(observed, b)) \in Nat
               /\ Cardinality(Hits(s, b)) = Cardinality(Hits(observed, b)) + One(v, b) + One(w, b)
    <3>1. /\ Cardinality(Hits(observed, b)) \in Nat
          /\ Cardinality(Hits(r, b)) = Cardinality(Hits(observed, b)) + One(v, b)
      BY <1>2, <1>3, HitsNext
    <3>2. Cardinality(Hits(s, b)) = Cardinality(Hits(r, b)) + One(w, b)
      BY <1>3, HitsNext
    <3> QED BY <3>1, <3>2
  <2> QED BY <2>1
<1> HIDE DEF r, s, h
<1>7. h \in [B -> Int] /\ histogram.sum \in Int
  BY <1>2 DEF h
<1>8. c \in [B -> Int] /\ \A b \in B : c[b] = h[b] + One(v, b) + One(w, b)
  <2>1. \A b \in B : One(v, b) \in Int /\ One(w, b) \in Int
    OBVIOUS
  <2> HIDE DEF One
  <2> QED BY <1>7, <2>1
<1> HIDE DEF One
<1>9. \A b \in B : c[b] = Cardinality(Hits(s, b))
  BY <1>2, <1>6, <1>8 DEF h
<1>10. histogram' = [counts |-> c, sum |-> histogram.sum + v + w, mutex |-> "free"]
  BY <1>0, <1>1, <1>2 DEF h
<1> HIDE DEF c, B
<1>11. "free" \in M /\ histogram.sum + v + w \in Int
  BY <1>3, <1>7
<1> HIDE DEF M
<1>12. histogram' \in [counts : [B -> Int], sum : Int, mutex : M]
  BY <1>8, <1>10, <1>11
<1>13. histogram'.counts = c /\ histogram'.sum = histogram.sum + v + w /\ histogram'.mutex = "free"
  BY <1>10
<1>14. \A q \in Threads : /\ observer[q].at # "observe" /\ q # "free"
  BY <1>0, <1>2, MetricsAssumption
<1>15. histogram'.sum = Metrics!Total(s)
  BY <1>2, <1>5, <1>13
<1>16. ObservedInv'
  BY <1>0, <1>2, <1>3, <1>4, <1>9, <1>12, <1>13, <1>14, <1>15 DEF ObservedInv, B, M
<1> QED BY <1>0, <1>16, OthersSame DEF MetricsInv

\* Reset forgets the observations.
LEMMA ResetKeeps ==
  ASSUME MetricsInv, Metrics!Reset
  PROVE  MetricsInv'
<1> DEFINE c == [b \in Metrics!Buckets |-> 0]
           M == Threads \cup {"free"}
<1>0. /\ operations < Operations /\ operations' = operations + 1
      /\ UNCHANGED <<families, gauge, incremented, collected, observer>>
      /\ histogram.mutex = "free" /\ observed' = <<>>
      /\ histogram' = [histogram EXCEPT !.counts = c, !.sum = 0]
  BY DEF Metrics!Reset
<1>1. /\ observer \in [Threads -> Observers]
      /\ histogram \in [counts : [Metrics!Buckets -> Int], sum : Int, mutex : M]
      /\ \A q \in Threads : observer[q].at # "observe" /\ q # "free"
  BY <1>0, MetricsAssumption DEF MetricsInv, ObservedInv
<1>2. histogram' = [counts |-> c, sum |-> 0, mutex |-> "free"]
  BY <1>0, <1>1
<1>3. c \in [Metrics!Buckets -> Int] /\ \A b \in Metrics!Buckets : c[b] = 0
  OBVIOUS
<1>4. "free" \in M
  OBVIOUS
<1> HIDE DEF c, M
<1>5. /\ histogram' \in [counts : [Metrics!Buckets -> Int], sum : Int, mutex : M]
      /\ histogram'.counts = c /\ histogram'.sum = 0 /\ histogram'.mutex = "free"
  BY <1>2, <1>3, <1>4
<1>6. <<>> \in Seq(Int) /\ \A b : Cardinality(Hits(<<>>, b)) = 0
  <2>1. ASSUME NEW b PROVE Hits(<<>>, b) = {}
    BY DEF Hits
  <2> QED BY <2>1, FS_EmptySet
<1>7. ObservedInv'
  BY <1>0, <1>1, <1>3, <1>5, <1>6, TotalOfNone DEF ObservedInv, M
<1> QED BY <1>0, <1>7, OthersSame DEF MetricsInv

\* Collect adds up the counts of whole observations.
LEMMA CollectKeeps ==
  ASSUME MetricsInv, Metrics!Collect
  PROVE  MetricsInv'
<1> DEFINE B == Metrics!Buckets
           n == Len(bucket_boundaries_)
           c == [b \in B |-> histogram.counts[b]]
           cumulative == Metrics!Cumulative(c)
<1>0. /\ UNCHANGED <<families, gauge, incremented, histogram, observed, observer, operations>>
      /\ histogram.mutex = "free"
      /\ collected' = [bucket |-> cumulative, sample_count |-> cumulative[Len(cumulative)],
                       sample_sum |-> histogram.sum, of |-> observed]
  BY DEF Metrics!Collect, Metrics!Free
<1>1. /\ histogram.counts \in [B -> Int] /\ observed \in Seq(Int)
      /\ histogram.sum = Metrics!Total(observed)
      /\ \A b \in B : histogram.counts[b] = Cardinality(Hits(observed, b))
  BY <1>0 DEF MetricsInv, ObservedInv
<1>2. n \in Nat /\ B = 1 .. n + 1
  BY MetricsAssumption DEF Metrics!Buckets
<1> HIDE DEF B, n
<1>3. c \in Seq(Int) /\ Len(c) = n + 1 /\ \A b \in 1 .. n + 1 : c[b] = Cardinality(Hits(observed, b))
  BY <1>1, <1>2
<1> HIDE DEF c
<1>4. /\ \A b \in DOMAIN bucket_boundaries_ :
           cumulative[b] = Metrics!Below(observed, bucket_boundaries_[b])
      /\ Len(cumulative) = Len(c) /\ cumulative[Len(c)] = Len(observed)
  <2>1. Len(c) = Len(bucket_boundaries_) + 1
    BY <1>3 DEF n
  <2>2. \A b \in 1 .. Len(c) : c[b] = Cardinality(Hits(observed, b))
    BY <1>3
  <2> QED BY <1>1, <1>3, <2>1, <2>2, CollectedAddsUp
<1> HIDE DEF cumulative
<1>5. /\ collected'.bucket = cumulative /\ collected'.of = observed
      /\ collected'.sample_count = Len(observed) /\ collected'.sample_sum = Metrics!Total(observed)
  BY <1>0, <1>1, <1>4
<1>6. CollectedInv'
  <2>1. \A b \in DOMAIN bucket_boundaries_ :
          collected'.bucket[b] = Metrics!Below(collected'.of, bucket_boundaries_[b])
    BY <1>4, <1>5
  <2>2. collected'.sample_count = Len(collected'.of)
    BY <1>5
  <2>3. collected'.sample_sum = Metrics!Total(collected'.of)
    BY <1>5
  <2> QED BY <2>1, <2>2, <2>3 DEF CollectedInv
<1> QED BY <1>0, <1>6, ObservedSame, OthersSame DEF MetricsInv

\* Every step keeps the invariant.
LEMMA MetricsStep == MetricsInv /\ [Metrics!Next]_(Metrics!vars) => MetricsInv'
<1> SUFFICES ASSUME MetricsInv, [Metrics!Next]_(Metrics!vars) PROVE MetricsInv'
  OBVIOUS
<1>1. CASE \E t \in Threads : \/ Metrics!Load(t) \/ Metrics!CompareExchange(t)
                              \/ Metrics!Observe(t) \/ Metrics!ObserveBucket(t)
  BY <1>1, LoadKeeps, CompareExchangeKeeps, ObserveKeeps, ObserveBucketKeeps
<1>2. CASE UNCHANGED Metrics!vars
  <2>1. UNCHANGED <<families, gauge, incremented, histogram, observed, collected, observer, operations>>
    BY <1>2 DEF Metrics!vars
  <2>2. RegistryInv' /\ GaugeInv' /\ CollectedInv'
    BY <2>1, OthersSame DEF MetricsInv
  <2>3. ObservedInv'
    BY <2>1, ObservedSame DEF MetricsInv
  <2> QED BY <2>1, <2>2, <2>3 DEF MetricsInv
<1> QED BY <1>1, <1>2, AddFamilyKeeps, AddMetricKeeps, RemoveMetricKeeps, RemoveFamilyKeeps,
           ObserveMultipleKeeps, ResetKeeps, CollectKeeps DEF Metrics!Next

\* What is exported adds up: no increment of any thread is lost to another's
\* exchange, a collected histogram is the buckets, the count and the sum of the
\* same whole observations, and no name or label is exported twice.
THEOREM MetricsAlways == Metrics!Spec => []MetricsAddUp
<1>1. MetricsInv /\ [Metrics!Next]_(Metrics!vars) => MetricsInv'
  BY MetricsStep
<1>2. MetricsInv => MetricsAddUp
  BY MetricsInvImplies
<1> QED BY <1>1, <1>2, MetricsBegin, PTL DEF Metrics!Spec

-----------------------------------------------------------------------------
(* Types.                                                                  *)

\* The state of every service stays of its kind, whatever the others do: the
\* timing service's, and those of pairing, sounds, tasks and metrics.
THEOREM ServicesTyped ==
  Spec /\ Pairing!Spec /\ Network!Spec /\ Assistant!Spec /\ Metrics!Spec => []ServicesTypeOK
<1>1. Pairing!Spec => []Pairing!TypeOK
  <2>1. Pairing!Init => PairInv /\ PairKinds
    BY PairBegins, PairKindsFirst
  <2>2. PairInv /\ PairKinds /\ [Pairing!Next]_(Pairing!vars) => (PairInv /\ PairKinds)'
    BY PairStep, PairTyped
  <2> QED BY <2>1, <2>2, PairKindsImply, PTL DEF Pairing!Spec
<1>2. Network!Spec => []Network!TypeOK
  <2>1. Network!Init => NetInv /\ Network!TypeOK
    BY NetBegins, NetTypedFirst
  <2>2. NetInv /\ Network!TypeOK /\ [Network!Next]_(Network!vars) => (NetInv /\ Network!TypeOK)'
    <3>1. NetInv /\ [Network!Next]_(Network!vars) => NetInv'
      BY NetStep
    <3>2. NetInv /\ NetInv' /\ Network!TypeOK /\ [Network!Next]_(Network!vars) => Network!TypeOK'
      BY NetTyped
    <3> QED BY <3>1, <3>2
  <2> QED BY <2>1, <2>2, PTL DEF Network!Spec
<1>3. Assistant!Spec => []Assistant!TypeOK
  <2>1. Assistant!Init => ThreadsInv /\ Assistant!TypeOK
    BY TasksTypedFirst
  <2>2. ThreadsInv /\ Assistant!TypeOK /\ [Assistant!Next]_(Assistant!vars) =>
          (ThreadsInv /\ Assistant!TypeOK)'
    BY TasksTyped
  <2> QED BY <2>1, <2>2, PTL DEF Assistant!Spec
<1>4. Metrics!Spec => []Metrics!TypeOK
  <2>1. MetricsInv /\ [Metrics!Next]_(Metrics!vars) => MetricsInv'
    BY MetricsStep
  <2>2. MetricsInv => Metrics!TypeOK
    BY MetricsInvImplies
  <2> QED BY <2>1, <2>2, MetricsBegin, PTL DEF Metrics!Spec
<1>5. /\ TypeOK /\ Pairing!TypeOK /\ Network!TypeOK /\ Assistant!TypeOK /\ Metrics!TypeOK
      => ServicesTypeOK
  BY DEF ServicesTypeOK
<1> QED BY <1>1, <1>2, <1>3, <1>4, <1>5, NtpTypeCorrect, PTL
=============================================================================
