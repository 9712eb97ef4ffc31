----------------------------- MODULE Assistant -----------------------------
(***************************************************************************)
(* From a sentence typed at the server's console to what is done about it: *)
(* terminalInputFunction and the task thread of main.cpp, InputHandler,    *)
(* TaskProcessor, ModelRunner's reading of the models' results, MediaPlayer*)
(* and HomeAssistantAPI.  The two networks are external: for a sentence    *)
(* they give a class and, for each word, an entity, with percentages.      *)
(*                                                                         *)
(* InputHandler is a std::queue without a lock between two threads.  A     *)
(* task is larger than a node of its deque, so every push takes a new node *)
(* and, when the deque's map of nodes is full, moves the map; a pop that   *)
(* comes in between works on the old one.                                  *)
(***************************************************************************)
EXTENDS Integers, Sequences

CONSTANTS
  Sentences,      \* what may be typed: records of class, sure, words and spoken:
                  \*   words: a sequence of records of entity and sure
  max_length_,    \* words the networks look at
  ClassLabels,    \* class -> its label, of the classes the label file has
  EntityLabels,   \* entity -> its label
  Outputs,        \* music outputs of the server's ClientInfo
  Lines,          \* sentences typed before the end of a session
  HomeAssistant   \* homeAssistantAPI_ is there

VARIABLES
  console,        \* terminalInputFunction
  typed,          \* tasks made of what was typed, in order
  taskQueue,      \* InputHandler
  worker,         \* the task thread
  byConsole,      \* tasks the console's thread has processed
  byWorker,       \* tasks the task thread has processed
  did             \* what processing a task had done: tasks with effects

vars == <<console, typed, taskQueue, worker, byConsole, byWorker, did>>

NoTask == [description |-> "", type |-> "none", entities |-> <<>>, spoken |-> 0]

-----------------------------------------------------------------------------
\* ModelRunner

\* A word without a label, or with half a chance at most, is outside.
EntityOf(word) ==
  IF word.sure > 50 /\ word.entity \in DOMAIN EntityLabels
  THEN EntityLabels[word.entity] ELSE "O"

\* Words past the networks' length have no entity.
PredictlabelFromInput(s) ==
  [i \in 1 .. IF Len(s.words) > max_length_ THEN max_length_ ELSE Len(s.words)
     |-> EntityOf(s.words[i])]

ClassifySentence(s) ==
  IF s.sure < 85 THEN "Info"
  ELSE IF s.class \in DOMAIN ClassLabels THEN ClassLabels[s.class] ELSE "Unknown"

-----------------------------------------------------------------------------
\* The tasks

HomeTasks == {"ControlHeating", "ControlLight"}
IdleTasks ==
  {"Book", "Calculate", "Calendar", "Call", "Connect", "Define", "Email", "Find",
   "GetRecipe", "GetShippingInfo", "Locate", "Message", "Navigate", "NewsQuery",
   "OrderItem", "PauseMusic", "PauseVideo", "PlayVideo", "Read", "Recommend",
   "ResumeVideo", "SetAlarm", "SetTimer", "SetVolume", "ShoppingList", "Summarize",
   "Translate", "WeatherQuery"}

stringToTaskType(label) ==
  IF label \in HomeTasks \cup IdleTasks \cup {"PlayMusic"} THEN label ELSE "ERROR"

\* The console makes tasks with a description, a type and entities only:
\* neither service nor newState, so Home Assistant is never called.
NewTask(s) ==
  [description |-> ClassifySentence(s), type |-> stringToTaskType(ClassifySentence(s)),
   entities |-> PredictlabelFromInput(s), spoken |-> s.spoken]

\* MediaPlayer: setoutput takes one of the device's outputs, none for "", and
\* play wants a player that was initialized, which nobody does.
setoutput(output) == IF output \in Outputs THEN output ELSE "none"
play(isInitialized, protocol) == isInitialized /\ protocol \in {"Bluetooth", "WiFi", "AUX"}

processHomeAssistantTask(service, newState) ==
  IF ~HomeAssistant THEN "nothing"
  ELSE IF service # "" THEN "callService"
  ELSE IF newState # "" THEN "sendStateChange" ELSE "nothing"

\* processTask: what it does to the world.
Effect(task) ==
  IF task.description = "" THEN "nothing"
  ELSE IF task.type \in HomeTasks THEN processHomeAssistantTask("", "")
  ELSE IF task.type = "PlayMusic"
       THEN IF play(FALSE, setoutput("")) THEN "music" ELSE "asked for music"
  ELSE "nothing"

Processed(task) ==
  did' = IF Effect(task) = "nothing" THEN did ELSE did \cup {task}

-----------------------------------------------------------------------------
Init ==
  /\ console = [pc |-> "input", task |-> NoTask]
  /\ typed = <<>>
  /\ taskQueue = [tasks |-> <<>>, moving |-> FALSE, broken |-> FALSE]
  /\ worker = [pc |-> "poll", task |-> NoTask]
  /\ byConsole = <<>>
  /\ byWorker = <<>>
  /\ did = {}

\* A line, or the end of the input, which reads as an empty line for ever.
GetLine ==
  /\ console.pc = "input" /\ Len(typed) < Lines
  /\ \E s \in Sentences :
       /\ console' = [pc |-> "push", task |-> NewTask(s)]
       /\ typed' = Append(typed, NewTask(s))
  /\ UNCHANGED <<taskQueue, worker, byConsole, byWorker, did>>

Exit ==
  /\ console.pc = "input"
  /\ console' = [console EXCEPT !.pc = "exit"]
  /\ UNCHANGED <<typed, taskQueue, worker, byConsole, byWorker, did>>

\* addTask, which may have to move the map of nodes first.
MoveMap ==
  /\ console.pc = "push"
  /\ console' = [console EXCEPT !.pc = "moving"]
  /\ taskQueue' = [taskQueue EXCEPT !.moving = TRUE]
  /\ UNCHANGED <<typed, worker, byConsole, byWorker, did>>

addTask ==
  /\ console.pc \in {"push", "moving"}
  /\ console' = [console EXCEPT !.pc = "process"]
  /\ taskQueue' = [taskQueue EXCEPT !.tasks = Append(@, console.task), !.moving = FALSE]
  /\ UNCHANGED <<typed, worker, byConsole, byWorker, did>>

ConsoleProcessed == Append(byConsole, console.task)

ConsoleProcess ==
  /\ console.pc = "process"
  /\ byConsole' = ConsoleProcessed
  /\ Processed(console.task)
  /\ console' = [pc |-> "input", task |-> NoTask]
  /\ UNCHANGED <<typed, taskQueue, worker, byWorker>>

Front(tasks) == tasks[1]

\* hasTasks and getNextTask, of the only thread that takes tasks.  A pop while
\* the map moves leaves the queue with pointers of both.
getNextTask ==
  /\ worker.pc = "poll" /\ taskQueue.tasks # <<>>
  /\ worker' = [pc |-> "process", task |-> Front(taskQueue.tasks)]
  /\ taskQueue' = [taskQueue EXCEPT !.tasks = Tail(@), !.broken = @ \/ taskQueue.moving]
  /\ UNCHANGED <<console, typed, byConsole, byWorker, did>>

WorkerProcess ==
  /\ worker.pc = "process"
  /\ byWorker' = Append(byWorker, worker.task)
  /\ Processed(worker.task)
  /\ worker' = [pc |-> "poll", task |-> NoTask]
  /\ UNCHANGED <<console, typed, taskQueue, byConsole>>

\* Nothing is said of the program once the queue is broken.
Sane == ~taskQueue.broken

Console == MoveMap \/ addTask \/ ConsoleProcess
Worker == getNextTask \/ WorkerProcess

Next == Sane /\ (GetLine \/ Exit \/ Console \/ Worker)

\* The threads are scheduled; nobody has to type.
Spec == Init /\ [][Next]_vars /\ WF_vars(Sane /\ Console) /\ WF_vars(Sane /\ Worker)

-----------------------------------------------------------------------------
\* The console and the task thread hold a task exactly while they work on it.
TypeOK ==
  /\ console.pc \in {"input", "push", "moving", "process", "exit"}
  /\ console.task = NoTask <=> console.pc \in {"input", "exit"}
  /\ worker.task = NoTask <=> worker.pc = "poll"
  /\ taskQueue.moving <=> console.pc = "moving"
  /\ Len(typed) \in 0 .. Lines

\* What is typed is processed twice in the end, by both threads in the order it
\* was typed, and a request for music the network was sure of, nothing else, has
\* had its effect (main.cpp:447-494, 673-690).  Nothing of this is promised once
\* the task thread has taken from the queue while the other moved its map.
TasksAreDone ==
  (Len(byConsole) < Len(typed) \/ Len(byWorker) < Len(typed)) ~>
    \/ ~Sane
    \/ /\ byConsole = typed /\ byWorker = typed
       /\ \A i \in 1 .. Len(typed) : typed[i] \in did <=>
            \E s \in Sentences : /\ s.spoken = typed[i].spoken /\ s.sure >= 85
                                 /\ s.class \in DOMAIN ClassLabels
                                 /\ ClassLabels[s.class] = "PlayMusic"
=============================================================================
