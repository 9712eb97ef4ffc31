------------------------ MODULE AirPlaySessionProofs ------------------------
(***************************************************************************)
(* Theorems about AirPlaySession for every number of connections, streams  *)
(* and sessions.  Of all the threads that can stop the server one at most  *)
(* waits for the httpd thread, and the main loop learns that it is down:   *)
(* these are about the flags, and come first.  The others are about the    *)
(* httpd thread: one client is served at a time, a server that was stopped *)
(* has nothing left of its run, an accepted connection finds a place, and  *)
(* a timing service outlives those that read its clock.                    *)
(*                                                                         *)
(* The first three of these follow from one invariant, ServerInv.  Its     *)
(* part WorkInv says in which order jobs can stand in `work', the stack of *)
(* the thread: a client that captures the receiver waits there behind the  *)
(* removal of the one it captures it from.  The last follows from          *)
(* ClockInv, which says what of a session is still pointed to and what is  *)
(* still to be stopped; where no removal is under way it is CalmInv.       *)
(***************************************************************************)
EXTENDS AirPlaySession, TLAPS, FiniteSetTheorems, WellFoundedInduction

Services ==
  [live : BOOLEAN, running : BOOLEAN, joined : BOOLEAN, lost : BOOLEAN,
   at : {"none", "loop", "clear", "tail", "join", "flag"}]

\* A service is marked as joined only after its thread has returned.
SvcInv ==
  /\ svc \in [Kinds \X Sessions -> Services]
  /\ \A id \in Kinds \X Sessions : svc[id].joined => svc[id].at = "none"

\* The main loop waits for the httpd thread.
MainJoins == main \in {"join", "destroy join"}

\* OneJoiner and what makes it inductive: whoever waits for the httpd thread has
\* stopped the server and not yet marked it as joined, so that nobody can stop or
\* start it meanwhile; and a server is not replaced under a service that waits.
JoinInv ==
  /\ OneJoiner
  /\ Joiners # {} \/ MainJoins => ~running /\ ~joined
  /\ main = "gone" => Joiners = {}

IInv == SvcInv /\ JoinInv

-----------------------------------------------------------------------------
\* Of the services only their `at' matters, and of it only "join".
LEMMA SameJoiners ==
  ASSUME SvcInv, SvcInv',
         \A id \in Kinds \X Sessions : svc'[id].at = "join" <=> svc[id].at = "join"
  PROVE  Joiners' = Joiners
  BY DEF Joiners

\* A service changes without beginning or ending to wait.
LEMMA SetService ==
  ASSUME SvcInv, NEW id \in Kinds \X Sessions, NEW new \in Services,
         new.at = "join" <=> svc[id].at = "join", new.joined => new.at = "none",
         svc' = [svc EXCEPT ![id] = new]
  PROVE  SvcInv' /\ \A i \in Kinds \X Sessions : svc'[i].at = "join" <=> svc[i].at = "join"
  BY DEF SvcInv

\* A step that sets no flag and leaves the main loop and who waits alone.
LEMMA QuietStep ==
  ASSUME JoinInv, running' => running, joined' => joined, main' = main, Joiners' = Joiners
  PROVE  JoinInv'
  BY DEF JoinInv, OneJoiner, MainJoins

\* A step of the main loop that does not wait before or after it, and leaves
\* the services alone.
LEMMA MainStep ==
  ASSUME JoinInv, ~MainJoins, ~MainJoins', main' = "gone" => Joiners = {},
         Joiners' = Joiners,
         Joiners # {} => (running' => running) /\ (joined' => joined)
  PROVE  JoinInv'
<1>1. OneJoiner'
  BY DEF JoinInv, OneJoiner, MainJoins
<1>2. ~(Joiners # {} \/ MainJoins)' \/ (~running /\ ~joined)'
  BY DEF JoinInv
<1> QED BY <1>1, <1>2 DEF JoinInv

\* While a thread waits, httpd_start does nothing.
LEMMA StartKeepsWait ==
  ASSUME JoinInv, HttpdStart, Joiners # {}
  PROVE  running' = running /\ joined' = joined
  BY DEF JoinInv, HttpdStart, server

\* Where everything is gone nobody waits.
LEMMA CrashJoin ==
  ASSUME Crash
  PROVE  SvcInv' /\ JoinInv'
<1>1. SvcInv' /\ Joiners' = {}
  BY DEF Crash, SvcInv, Services, Absent, Joiners
<1>2. main' = "crashed"
  BY DEF Crash
<1> QED BY <1>1, <1>2 DEF JoinInv, OneJoiner, MainJoins

-----------------------------------------------------------------------------
\* The httpd thread never waits for itself, and clears `running' at most.
LEMMA HttpdJoin ==
  ASSUME IInv, Httpd
  PROVE  IInv'
<1> USE DEF IInv
<1>1. ASSUME UNCHANGED <<running, joined, main, svc>>
      PROVE  IInv'
  BY <1>1, QuietStep DEF SvcInv, Joiners
<1>2. CASE Select \/ SelectFails \/ SeeStopped
  BY <1>1, <1>2 DEF Select, SelectFails, SeeStopped, server
<1>3. CASE AcceptSkipped \/ Accept \/ AcceptAbandoned \/ AcceptFails
  BY <1>1, <1>3 DEF AcceptSkipped, Accept, AcceptAbandoned, AcceptFails, server
<1>4. ASSUME NEW c \in Slots,
             RecvNothing(c) \/ RecvEnd(c) \/ RecvRequest(c) \/ RecvRejected(c)
               \/ RecvCapture(c) \/ CaptureRemove(c) \/ CaptureDone(c)
      PROVE  IInv'
  BY <1>1, <1>4 DEF RecvNothing, RecvEnd, RecvRequest, RecvRejected, RecvCapture,
                    CaptureRemove, CaptureDone, Identify, server
<1>5. ASSUME NEW c \in Slots, Request(c)
      PROVE  IInv'
  <2>1. CASE RequestOther(c) \/ RequestDisconnect(c) \/ SetupDone(c) \/ TeardownSession(c)
    BY <1>1, <2>1 DEF RequestOther, RequestDisconnect, SetupDone, TeardownSession, server
  <2>2. CASE SetupKeys(c)
    <3>1. UNCHANGED <<running, joined, main>>
      BY <2>2 DEF SetupKeys, server
    <3>2. PICK s \in Sessions, timing \in {Ready, Started} :
            /\ Unused(s)
            /\ svc' = [id \in Kinds \X Sessions |->
                         IF id[2] # s THEN svc[id]
                         ELSE IF id[1] = "ntp" THEN timing ELSE Ready]
      BY <2>2 DEF SetupKeys
    <3>3. SvcInv'
      <4>1. \A new \in {Ready, Started} : new \in Services /\ (new.joined => new.at = "none")
        BY DEF Services, Ready, Started, Absent
      <4>2. \A id \in Kinds \X Sessions : svc'[id] \in {svc[id], Ready, Started}
        BY <3>2
      <4> QED BY <3>2, <4>1, <4>2 DEF SvcInv
    <3>4. \A id \in Kinds \X Sessions : svc'[id].at = "join" <=> svc[id].at = "join"
      <4>1. SUFFICES ASSUME NEW id \in Kinds \X Sessions
                     PROVE  svc'[id].at = "join" <=> svc[id].at = "join"
        OBVIOUS
      <4>2. CASE id[2] # s
        BY <3>2, <4>2
      <4>3. CASE id[2] = s
        <5>1. svc'[id] \in {Ready, Started}
          BY <3>2, <4>3
        <5>2. svc[id].at = "none"
          <6>1. svc[<<id[1], s>>].at = "none"
            BY <3>2 DEF Unused
          <6> QED BY <6>1, <4>3
        <5> QED BY <5>1, <5>2 DEF Ready, Started, Absent
      <4> QED BY <4>2, <4>3
    <3> QED BY <3>1, <3>3, <3>4, SameJoiners, QuietStep
  <2>3. ASSUME NEW k \in Streams, SetupStream(c, k)
        PROVE  IInv'
    <3>1. UNCHANGED <<running, joined, main>>
      BY <2>3 DEF SetupStream, server
    <3>2. PICK s : /\ ~svc[<<k, s>>].running
                   /\ svc[<<k, s>>].joined
                   /\ svc' = [svc EXCEPT ![<<k, s>>] = Started]
      BY <2>3 DEF SetupStream
    <3>3. SvcInv'
      BY <3>2, ZenonT(60) DEF SvcInv, Services, Started, Ready, Absent
    <3>4. \A id \in Kinds \X Sessions : svc'[id].at = "join" <=> svc[id].at = "join"
      BY <3>2 DEF SvcInv, Services, Started, Ready, Absent
    <3> QED BY <3>1, <3>3, <3>4, SameJoiners, QuietStep
  <2>4. ASSUME NEW k \in Streams, TeardownStream(c, k)
        PROVE  IInv'
    BY <1>1, <2>4 DEF TeardownStream, server
  <2> QED BY <1>5, <2>1, <2>2, <2>3, <2>4 DEF Request
<1>6. CASE StopService \/ JoinService \/ FreeService
  <2>1. running' = running /\ joined' = joined /\ main' = main
    BY <1>6 DEF StopService, JoinService, FreeService, server
  <2>2. CASE Target \notin Kinds \X Sessions
    <3>1. svc' = svc
      BY <1>6, <2>2 DEF StopService, JoinService, FreeService, SvcInv
    <3> QED BY <1>1, <2>1, <3>1
  <2>3. CASE Target \in Kinds \X Sessions
    <3> DEFINE old == svc[Target]
    <3>1. old \in Services /\ (old.joined => old.at = "none")
      BY <2>3 DEF SvcInv
    <3>2. ASSUME NEW new \in Services, new.at = old.at, new.joined => new.at = "none",
                 svc' = [svc EXCEPT ![Target] = new]
          PROVE  IInv'
      BY <2>1, <2>3, <3>2, SetService, SameJoiners, QuietStep
    <3>3. CASE StopService
      <4> DEFINE new == [old EXCEPT !.running = old.running /\ ~(old.running /\ ~old.joined)]
      <4>1. svc' = [svc EXCEPT ![Target] = new]
        BY <2>3, <3>3 DEF StopService, SvcInv
      <4>2. new \in Services /\ new.at = old.at /\ new.joined = old.joined
        BY <3>1 DEF Services
      <4> QED BY <3>1, <3>2, <4>1, <4>2
    <3>4. CASE JoinService
      <4> DEFINE new == [old EXCEPT !.joined = TRUE]
      <4>1. svc' = [svc EXCEPT ![Target] = new] /\ old.at = "none"
        BY <2>3, <3>4 DEF JoinService, SvcInv
      <4>2. new \in Services /\ new.at = old.at
        BY <3>1 DEF Services
      <4> QED BY <3>2, <4>1, <4>2
    <3>5. CASE FreeService
      <4> DEFINE new == [Absent EXCEPT !.at = old.at, !.lost = old.lost]
      <4>1. svc' = [svc EXCEPT ![Target] = new]
        BY <3>5 DEF FreeService
      <4>2. new \in Services /\ new.at = old.at /\ (new.joined => new.at = "none")
        BY <3>1 DEF Services, Absent
      <4> QED BY <3>2, <4>1, <4>2
    <3> QED BY <1>6, <3>3, <3>4, <3>5
  <2> QED BY <2>2, <2>3
<1>7. CASE CloseConnection \/ ExitRemove \/ ExitReturn
  BY <1>1, <1>7 DEF CloseConnection, ExitRemove, ExitReturn, server
<1>8. CASE ExitClear
  <2>1. running' = FALSE /\ UNCHANGED <<joined, main, svc>>
    BY <1>8 DEF ExitClear
  <2> QED BY <2>1, ZenonT(60) DEF SvcInv, JoinInv, OneJoiner, MainJoins, Joiners
<1> QED BY <1>2, <1>3, <1>4, <1>5, <1>6, <1>7, <1>8 DEF Httpd

\* A service that stops the server finds nobody waiting, and what it does after
\* its wait concerns nobody else's.
LEMMA ServiceJoin ==
  ASSUME IInv, NEW k \in Kinds, NEW s \in Sessions, Service(k, s)
  PROVE  IInv'
<1> DEFINE id == <<k, s>>
           old == svc[id]
<1> USE DEF IInv
<1>1. id \in Kinds \X Sessions /\ old \in Services /\ (old.joined => old.at = "none")
  BY DEF SvcInv
<1>2. ASSUME NEW new \in Services, new.at = "join" <=> old.at = "join",
             new.joined => new.at = "none", svc' = [svc EXCEPT ![id] = new],
             running' => running, joined' => joined, main' = main
      PROVE  IInv'
  BY <1>1, <1>2, SetService, SameJoiners, QuietStep
<1>3. CASE ServiceLeave(k, s)
  <2>1. PICK lost \in BOOLEAN : svc' = [svc EXCEPT ![id].at = "clear", ![id].lost = lost]
    BY <1>3 DEF ServiceLeave
  <2> DEFINE new == [old EXCEPT !.at = "clear", !.lost = lost]
  <2>2. svc' = [svc EXCEPT ![id] = new]
    BY <2>1, <1>1 DEF SvcInv
  <2>3. old.at = "loop" /\ running' = running /\ joined' = joined /\ main' = main
    BY <1>3 DEF ServiceLeave, server
  <2>4. new \in Services /\ new.at = "clear" /\ new.joined = old.joined
    BY <1>1 DEF Services
  <2> QED BY <1>1, <1>2, <2>2, <2>3, <2>4
<1>4. CASE ServiceClear(k, s)
  <2> DEFINE new == [old EXCEPT !.running = FALSE, !.at = "tail"]
  <2>1. svc' = [svc EXCEPT ![id] = new]
    BY <1>1, <1>4 DEF ServiceClear, SvcInv
  <2>2. old.at = "clear" /\ running' = running /\ joined' = joined /\ main' = main
    BY <1>4 DEF ServiceClear, server
  <2>3. new \in Services /\ new.at = "tail" /\ new.joined = old.joined
    BY <1>1 DEF Services
  <2> QED BY <1>1, <1>2, <2>1, <2>2, <2>3
<1>5. CASE ServiceReturn(k, s)
  <2> DEFINE new == [old EXCEPT !.at = "none"]
  <2>1. svc' = [svc EXCEPT ![id] = new]
    BY <1>1, <1>5 DEF ServiceReturn, SvcInv
  <2>2. old.at = "tail" /\ running' = running /\ joined' = joined /\ main' = main
    BY <1>5 DEF ServiceReturn, server
  <2>3. new \in Services /\ new.at = "none"
    BY <1>1 DEF Services
  <2> QED BY <1>2, <2>1, <2>2, <2>3
<1>6. CASE ConnReset(k, s)
  <2> DEFINE new == [old EXCEPT !.at = IF Stoppable THEN "join" ELSE "flag"]
  <2>1. svc' = [svc EXCEPT ![id] = new]
    BY <1>1, <1>6 DEF ConnReset, SvcInv
  <2>2. /\ old.at = "tail" /\ ~NoServer /\ joined' = joined /\ main' = main
        /\ running' <=> running /\ ~Stoppable
    BY <1>6 DEF ConnReset
  <2>3. new \in Services /\ new.joined = old.joined
    BY <1>1 DEF Services
  <2>4. CASE ~Stoppable
    <3>1. new.at = "flag"
      BY <1>1, <2>4 DEF Services
    <3> QED BY <1>1, <1>2, <2>1, <2>2, <2>3, <3>1
  <2>5. CASE Stoppable
    <3>1. new.at = "join"
      BY <1>1, <2>5 DEF Services
    <3>2. SvcInv'
      BY <1>1, <2>1, <2>2, <2>3, <3>1 DEF SvcInv
    <3>3. Joiners' = Joiners \cup {id}
      BY <1>1, <2>1, <3>1 DEF SvcInv, Joiners
    <3>4. Joiners = {} /\ ~MainJoins
      BY <2>5 DEF JoinInv, Stoppable
    <3>5. ~running' /\ ~joined'
      BY <2>2, <2>5 DEF Stoppable
    <3>6. main \notin {"gone", "join", "destroy join"}
      BY <2>2, <3>4 DEF NoServer, MainJoins
    <3>7. OneJoiner'
      BY <2>2, <3>3, <3>4, <3>6 DEF OneJoiner
    <3> QED BY <2>2, <3>2, <3>5, <3>6, <3>7 DEF JoinInv
  <2> QED BY <2>4, <2>5
<1>7. CASE ConnResetAsserts(k, s)
  BY <1>7, CrashJoin DEF ConnResetAsserts
<1>8. CASE ConnResetJoin(k, s)
  <2> DEFINE new == [old EXCEPT !.at = "flag"]
  <2>1. svc' = [svc EXCEPT ![id] = new]
    BY <1>1, <1>8 DEF ConnResetJoin, SvcInv
  <2>2. old.at = "join" /\ main' = main
    BY <1>8 DEF ConnResetJoin
  <2>3. new \in Services /\ new.joined = old.joined /\ new.at = "flag"
    BY <1>1 DEF Services
  <2>4. SvcInv'
    BY <1>1, <2>1, <2>2, <2>3 DEF SvcInv
  <2>5. id \in Joiners /\ Joiners' = Joiners \ {id}
    BY <1>1, <2>1, <2>2, <2>3 DEF SvcInv, Joiners
  <2>6. Joiners' = {} /\ ~MainJoins
    BY <2>5 DEF JoinInv, OneJoiner, MainJoins
  <2>7. OneJoiner' /\ ~MainJoins'
    BY <2>2, <2>6 DEF OneJoiner, MainJoins
  <2> QED BY <2>4, <2>6, <2>7 DEF JoinInv
<1>9. CASE ConnResetFlag(k, s)
  <2> DEFINE new == [old EXCEPT !.at = "none", !.lost = FALSE]
  <2>1. svc' = [svc EXCEPT ![id] = new]
    BY <1>1, <1>9 DEF ConnResetFlag, SvcInv
  <2>2. old.at = "flag" /\ running' = running /\ joined' = joined /\ main' = main
    BY <1>9 DEF ConnResetFlag, server
  <2>3. new \in Services /\ new.at = "none"
    BY <1>1 DEF Services
  <2> QED BY <1>2, <2>1, <2>2, <2>3
<1> QED BY <1>3, <1>4, <1>5, <1>6, <1>7, <1>8, <1>9 DEF Service, ServiceProceed

\* The main loop stops the server only while nobody waits, and a new server is
\* made only then.
LEMMA MainJoin ==
  ASSUME IInv, MainProceed \/ Quit
  PROVE  IInv'
<1> USE DEF IInv
<1>1. ASSUME svc' = svc
      PROVE  SvcInv' /\ Joiners' = Joiners
  BY <1>1 DEF SvcInv, Joiners
<1>2. CASE Start \/ Relaunch
  <2>1. svc' = svc /\ HttpdStart /\ main \in {"start", "relaunch"} /\ main' = "enter"
    BY <1>2 DEF Start, Relaunch, GoTo
  <2>2. Joiners # {} => (running' => running) /\ (joined' => joined)
    BY <2>1, StartKeepsWait
  <2> QED BY <1>1, <2>1, <2>2, MainStep DEF MainJoins
<1>3. CASE Enter \/ Quit \/ Reset
  <2>1. /\ svc' = svc /\ running' = running /\ joined' = joined
        /\ main \in {"enter", "loop", "quit"} /\ main' \in {"loop", "quit", "relaunch"}
    BY <1>3 DEF Enter, Quit, Reset, GoTo, server
  <2> QED BY <1>1, <2>1, MainStep DEF MainJoins
<1>4. CASE StopForRelaunch \/ DestroyStop
  <2>1. /\ svc' = svc /\ joined' = joined /\ (running' <=> running /\ ~Stoppable)
        /\ main \in {"quit", "relaunch"}
        /\ main' \in IF Stoppable THEN {"join", "destroy join"} ELSE {"relaunch", "destroy"}
    BY <1>4 DEF StopForRelaunch, DestroyStop, GoTo
  <2>2. CASE Stoppable
    <3>1. Joiners = {}
      BY <2>2 DEF JoinInv, Stoppable
    <3>2. ~running' /\ ~joined'
      BY <2>1, <2>2 DEF Stoppable
    <3>3. main' \in {"join", "destroy join"}
      BY <2>1, <2>2
    <3>4. SvcInv' /\ Joiners' = {}
      BY <1>1, <2>1, <3>1
    <3>5. OneJoiner' /\ main' # "gone"
      BY <3>3, <3>4 DEF OneJoiner
    <3> QED BY <3>2, <3>4, <3>5 DEF JoinInv
  <2>3. CASE ~Stoppable
    <3>1. main' \in {"relaunch", "destroy"}
      BY <2>1, <2>3
    <3>2. (running' => running) /\ (joined' => joined)
      BY <2>1
    <3>3. ~MainJoins /\ ~MainJoins' /\ main' # "gone"
      BY <2>1, <3>1 DEF MainJoins
    <3> QED BY <1>1, <2>1, <3>2, <3>3, MainStep
  <2> QED BY <2>2, <2>3
<1>5. CASE JoinForRelaunch \/ DestroyJoin
  <2>1. svc' = svc /\ MainJoins /\ main' \in {"relaunch", "destroy"}
    BY <1>5 DEF JoinForRelaunch, DestroyJoin, GoTo, MainJoins
  <2>2. Joiners = {}
    BY <2>1 DEF JoinInv, OneJoiner, MainJoins
  <2> QED BY <1>1, <2>1, <2>2 DEF JoinInv, OneJoiner, MainJoins
<1>6. CASE DestroyFree
  <2>1. /\ svc' = svc /\ running' = running /\ joined' = joined /\ Joiners = {}
        /\ main = "destroy" /\ main' \in {"ended", "gone"}
    BY <1>6 DEF DestroyFree, GoTo, server
  <2> QED BY <1>1, <2>1, MainStep DEF MainJoins
<1>7. CASE DestroyUsed
  BY <1>7, CrashJoin DEF DestroyUsed
<1>8. CASE Restart
  <2>1. svc' = svc /\ main = "gone" /\ main' = "start"
    BY <1>8 DEF Restart, GoTo
  <2>2. Joiners = {}
    BY <2>1 DEF JoinInv
  <2> QED BY <1>1, <2>1, <2>2, MainStep DEF MainJoins
<1> QED BY <1>2, <1>3, <1>4, <1>5, <1>6, <1>7, <1>8 DEF MainProceed

-----------------------------------------------------------------------------
LEMMA InitJoin == Init => IInv
<1> SUFFICES ASSUME Init PROVE IInv
  OBVIOUS
<1>1. SvcInv /\ Joiners = {}
  BY DEF Init, SvcInv, Services, Absent, Joiners
<1> QED BY <1>1 DEF Init, IInv, JoinInv, OneJoiner, MainJoins

LEMMA StepJoin == IInv /\ [Next]_vars => IInv'
<1> SUFFICES ASSUME IInv, [Next]_vars PROVE IInv'
  OBVIOUS
<1>1. CASE Next
  BY <1>1, HttpdJoin, MainJoin, ServiceJoin DEF Next
<1>2. CASE UNCHANGED vars
  BY <1>2, ZenonT(60) DEF vars, server, IInv, SvcInv, JoinInv, OneJoiner, MainJoins, Joiners
<1> QED BY <1>1, <1>2

\* The httpd thread is joined by one thread at a time, whether the main loop or a
\* service that lost its client stops the server (httpd_stop).
THEOREM OneJoinerAlways == Spec => []OneJoiner
<1>1. IInv => OneJoiner
  BY DEF IInv, JoinInv
<1> QED BY <1>1, InitJoin, StepJoin, PTL DEF Spec
-----------------------------------------------------------------------------
(* A server that is down is noticed.                                       *)

Waiting == {"join", "flag"}

\* DownIsNoticed and what makes it inductive: the thread leaves its loop when it
\* was stopped or failed; a server that is down and not marked as joined failed,
\* or someone waits for its thread; and it is noticed already while the main loop
\* enters its loop.
DownInv ==
  /\ httpd = "exit" => failed \/ ~running
  /\ ~running /\ ~joined => failed \/ Joiners # {} \/ MainJoins
  /\ main \in {"enter", "loop"} /\ ~running =>
       failed \/ reset_loop \/ \E id \in Kinds \X Sessions : svc[id].at \in Waiting

\* Who waits for the thread, or is about to tell the main loop, still does.
KeepsWaiting ==
  \A id \in Kinds \X Sessions : svc[id].at \in Waiting => svc'[id].at = svc[id].at

\* So whoever waited is not forgotten.
LEMMA KeptJoiners ==
  ASSUME KeepsWaiting
  PROVE  /\ Joiners # {} => Joiners' # {}
         /\ (\E id \in Kinds \X Sessions : svc[id].at \in Waiting) =>
              \E id \in Kinds \X Sessions : svc'[id].at \in Waiting
<1>1. ASSUME NEW id \in Joiners
      PROVE  id \in Joiners'
  BY <1>1 DEF KeepsWaiting, Joiners, Waiting
<1> QED BY <1>1 DEF KeepsWaiting

\* A step that leaves the main loop where it is and does not stop the server.
LEMMA QuietDown ==
  ASSUME DownInv, KeepsWaiting, main' = main, running' = running, joined' = joined,
         failed => failed', reset_loop => reset_loop',
         httpd' = httpd \/ failed' \/ ~running \/ httpd' # "exit"
  PROVE  DownInv'
<1>1. (httpd = "exit")' => failed' \/ ~running'
  BY DEF DownInv
<1>2. ~running' /\ ~joined' => failed' \/ Joiners' # {} \/ MainJoins'
  BY KeptJoiners DEF DownInv, MainJoins
<1>3. main' \in {"enter", "loop"} /\ ~running' =>
        failed' \/ reset_loop' \/ \E id \in Kinds \X Sessions : svc'[id].at \in Waiting
  BY KeptJoiners DEF DownInv
<1> QED BY <1>1, <1>2, <1>3 DEF DownInv

\* A service that does not wait changes.
LEMMA SetKeeps ==
  ASSUME SvcInv, NEW id, NEW new, id \in Kinds \X Sessions => svc[id].at \notin Waiting,
         svc' = [svc EXCEPT ![id] = new]
  PROVE  KeepsWaiting
  BY DEF SvcInv, KeepsWaiting

\* The httpd thread leaves its loop stopped or failed, and no service is stopped
\* that waits.
LEMMA HttpdDown ==
  ASSUME IInv, DownInv, Httpd
  PROVE  DownInv'
<1> USE DEF IInv
<1>1. ASSUME UNCHANGED <<running, joined, main, svc>>, failed => failed',
             reset_loop => reset_loop',
             httpd' = httpd \/ failed' \/ ~running \/ httpd' # "exit"
      PROVE  DownInv'
  BY <1>1, QuietDown DEF KeepsWaiting
<1>2. CASE Select \/ SelectFails \/ SeeStopped
  BY <1>1, <1>2 DEF Select, SelectFails, SeeStopped, server, flags
<1>3. CASE AcceptSkipped \/ Accept \/ AcceptAbandoned \/ AcceptFails
  BY <1>1, <1>3 DEF AcceptSkipped, Accept, AcceptAbandoned, AcceptFails, server, flags
<1>4. ASSUME NEW c \in Slots,
             RecvNothing(c) \/ RecvEnd(c) \/ RecvRequest(c) \/ RecvRejected(c)
               \/ RecvCapture(c) \/ CaptureRemove(c) \/ CaptureDone(c)
      PROVE  DownInv'
  BY <1>1, <1>4 DEF RecvNothing, RecvEnd, RecvRequest, RecvRejected, RecvCapture,
                    CaptureRemove, CaptureDone, Identify, server, flags
<1>5. ASSUME KeepsWaiting, UNCHANGED <<running, joined, failed, main, httpd, reset_loop>>
      PROVE  DownInv'
  BY <1>5, QuietDown
<1>6. ASSUME NEW c \in Slots, Request(c)
      PROVE  DownInv'
  <2>1. CASE RequestOther(c) \/ RequestDisconnect(c) \/ SetupDone(c) \/ TeardownSession(c)
    BY <1>1, <2>1
       DEF RequestOther, RequestDisconnect, SetupDone, TeardownSession, server, flags
  <2>2. CASE SetupKeys(c)
    <3>1. PICK s \in Sessions, timing \in {Ready, Started} :
            /\ Unused(s)
            /\ svc' = [id \in Kinds \X Sessions |->
                         IF id[2] # s THEN svc[id]
                         ELSE IF id[1] = "ntp" THEN timing ELSE Ready]
      BY <2>2, SMTT(40) DEF SetupKeys
    <3>2. KeepsWaiting
      <4> SUFFICES ASSUME NEW id \in Kinds \X Sessions, svc[id].at \in Waiting
                   PROVE  svc'[id].at = svc[id].at
        BY DEF KeepsWaiting
      <4>1. CASE id[2] # s
        BY <3>1, <4>1
      <4>2. CASE id[2] = s
        <5>1. svc[<<id[1], s>>].at = "none"
          BY <3>1 DEF Unused
        <5> QED BY <5>1, <4>2 DEF Waiting
      <4> QED BY <4>1, <4>2
    <3> QED BY <1>5, <2>2, <3>2 DEF SetupKeys, server, flags
  <2>3. ASSUME NEW k \in Streams, SetupStream(c, k)
        PROVE  DownInv'
    <3>1. PICK s : svc[<<k, s>>].joined /\ svc' = [svc EXCEPT ![<<k, s>>] = Started]
      BY <2>3 DEF SetupStream
    <3>2. <<k, s>> \in Kinds \X Sessions => svc[<<k, s>>].at \notin Waiting
      BY <3>1 DEF SvcInv, Waiting
    <3>3. KeepsWaiting
      BY <3>1, <3>2, SetKeeps
    <3> QED BY <1>5, <2>3, <3>3 DEF SetupStream, server, flags
  <2>4. ASSUME NEW k \in Streams, TeardownStream(c, k)
        PROVE  DownInv'
    <3>1. CASE reset_loop' = reset_loop
      BY <1>1, <2>4, <3>1 DEF TeardownStream, server
    <3>2. CASE reset_loop' = TRUE
      BY <1>1, <2>4, <3>2 DEF TeardownStream, server
    <3> QED BY <2>4, <3>1, <3>2 DEF TeardownStream
  <2> QED BY <1>6, <2>1, <2>2, <2>3, <2>4 DEF Request
<1>7. CASE StopService \/ JoinService \/ FreeService
  <2>1. \A id \in Kinds \X Sessions : svc'[id].at = svc[id].at
    <3> SUFFICES ASSUME NEW id \in Kinds \X Sessions PROVE svc'[id].at = svc[id].at
      OBVIOUS
    <3>1. CASE id # Target
      BY <1>7, <3>1 DEF StopService, JoinService, FreeService, SvcInv
    <3>2. CASE id = Target
      <4>1. svc[id] \in Services
        BY DEF SvcInv
      <4>2. CASE StopService \/ JoinService
        BY <3>2, <4>1, <4>2 DEF StopService, JoinService, SvcInv, Services
      <4>3. CASE FreeService
        BY <3>2, <4>1, <4>3 DEF FreeService, SvcInv, Services, Absent
      <4> QED BY <1>7, <4>2, <4>3
    <3> QED BY <3>1, <3>2
  <2>2. KeepsWaiting
    BY <2>1 DEF KeepsWaiting
  <2>3. UNCHANGED <<running, joined, failed, main, httpd, reset_loop>>
    BY <1>7 DEF StopService, JoinService, FreeService, server, flags
  <2> QED BY <1>5, <2>2, <2>3
<1>8. CASE CloseConnection \/ ExitRemove \/ ExitReturn
  BY <1>1, <1>8 DEF CloseConnection, ExitRemove, ExitReturn, server, flags
<1>9. CASE ExitClear
  <2>1. /\ running' = FALSE /\ httpd = "exit" /\ httpd' = "left"
        /\ UNCHANGED <<joined, failed, main, svc, reset_loop>>
    BY <1>9 DEF ExitClear, flags
  <2>2. CASE running
    BY <2>1, <2>2 DEF DownInv
  <2>3. CASE ~running
    BY <2>1, <2>3 DEF DownInv, Joiners, MainJoins
  <2> QED BY <2>2, <2>3
<1> QED BY <1>2, <1>3, <1>4, <1>6, <1>7, <1>8, <1>9 DEF Httpd

\* A service that stops the server waits for the thread, and tells the main loop
\* when it is through with that.
LEMMA ServiceDown ==
  ASSUME IInv, DownInv, NEW k \in Kinds, NEW s \in Sessions, Service(k, s)
  PROVE  DownInv'
<1> DEFINE id == <<k, s>>
<1> USE DEF IInv
<1>1. id \in Kinds \X Sessions /\ svc[id] \in Services /\ svc \in [Kinds \X Sessions -> Services]
  BY DEF SvcInv
<1>2. ASSUME svc[id].at \notin Waiting,
             \A i \in Kinds \X Sessions : i # id => svc'[i] = svc[i],
             UNCHANGED <<running, joined, failed, main, httpd, reset_loop>>
      PROVE  DownInv'
  BY <1>2, QuietDown DEF KeepsWaiting
<1>3. CASE ServiceLeave(k, s) \/ ServiceClear(k, s) \/ ServiceReturn(k, s)
  <2>1. \A i \in Kinds \X Sessions : i # id => svc'[i] = svc[i]
    BY <1>1, <1>3 DEF ServiceLeave, ServiceClear, ServiceReturn
  <2> QED BY <1>2, <1>3, <2>1
          DEF ServiceLeave, ServiceClear, ServiceReturn, server, flags, Waiting
<1>4. CASE ConnReset(k, s)
  <2>1. /\ svc[id].at = "tail" /\ (running' <=> running /\ ~Stoppable)
        /\ UNCHANGED <<joined, failed, httpd, main, reset_loop>>
        /\ \A i \in Kinds \X Sessions : i # id => svc'[i] = svc[i]
        /\ svc'[id].at = IF Stoppable THEN "join" ELSE "flag"
    BY <1>1, <1>4 DEF ConnReset, flags, Services
  <2>2. KeepsWaiting
    BY <2>1 DEF KeepsWaiting, Waiting
  <2>3. CASE Stoppable
    <3>1. id \in Joiners' /\ svc'[id].at \in Waiting
      BY <1>1, <2>1, <2>3 DEF Joiners, Waiting
    <3>2. ~running'
      BY <2>1, <2>3
    <3> QED BY <1>1, <3>1, <3>2 DEF DownInv
  <2>4. CASE ~Stoppable
    <3>1. (running' <=> running)
      BY <2>1, <2>4
    <3>2. (httpd = "exit")' => failed' \/ ~running'
      BY <2>1, <3>1 DEF DownInv
    <3>3. ~running' /\ ~joined' => failed' \/ Joiners' # {} \/ MainJoins'
      BY <2>1, <2>2, <3>1, KeptJoiners DEF DownInv, MainJoins
    <3>4. svc'[id].at \in Waiting
      BY <2>1, <2>4 DEF Waiting
    <3> QED BY <1>1, <3>2, <3>3, <3>4 DEF DownInv
  <2> QED BY <2>3, <2>4
<1>5. CASE ConnResetAsserts(k, s)
  BY <1>5 DEF ConnResetAsserts, Crash, DownInv
<1>6. CASE ConnResetJoin(k, s)
  <2>1. svc'[id].at = "flag" /\ joined' /\ httpd' = "none"
    BY <1>1, <1>6 DEF ConnResetJoin, Services
  <2> QED BY <1>1, <2>1 DEF DownInv, Waiting
<1>7. CASE ConnResetFlag(k, s)
  <2>1. /\ svc[id].at = "flag" /\ reset_loop' /\ UNCHANGED <<running, joined, failed, main, httpd>>
        /\ \A i \in Kinds \X Sessions : i # id => svc'[i] = svc[i]
    BY <1>1, <1>7 DEF ConnResetFlag, server
  <2>2. ASSUME NEW i \in Joiners PROVE i \in Joiners'
    BY <2>1 DEF Joiners
  <2>3. ~running' /\ ~joined' => failed' \/ Joiners' # {} \/ MainJoins'
    BY <2>1, <2>2 DEF DownInv, MainJoins
  <2> QED BY <2>1, <2>3 DEF DownInv
<1> QED BY <1>3, <1>4, <1>5, <1>6, <1>7 DEF Service, ServiceProceed

\* The main loop forgets a reset only on its way to start the server, which fails
\* or finds the server up, or finds somebody who waits.
LEMMA MainDown ==
  ASSUME IInv, DownInv, MainProceed \/ Quit
  PROVE  DownInv'
<1> USE DEF IInv
<1>1. ASSUME svc' = svc
      PROVE  /\ Joiners' = Joiners
             /\ Joiners # {} => \E id \in Kinds \X Sessions : svc'[id].at \in Waiting
  BY <1>1 DEF Joiners, Waiting
<1>2. CASE Start \/ Relaunch
  <2>1. svc' = svc /\ HttpdStart /\ main \in {"start", "relaunch"}
    BY <1>2 DEF Start, Relaunch, GoTo
  <2>2. CASE ~running /\ joined
    <3>1. \/ running' /\ httpd' = "loop"
          \/ failed' /\ UNCHANGED <<running, joined, httpd>>
      BY <2>1, <2>2 DEF HttpdStart
    <3> QED BY <3>1 DEF DownInv
  <2>3. CASE ~(~running /\ joined)
    <3>1. UNCHANGED <<running, joined, failed, httpd>>
      BY <2>1, <2>3 DEF HttpdStart, server
    <3>2. ~running => failed \/ Joiners # {}
      BY <2>1, <2>3 DEF DownInv, MainJoins
    <3> QED BY <1>1, <2>1, <3>1, <3>2 DEF DownInv
  <2> QED BY <2>2, <2>3
<1>3. CASE Enter \/ Quit \/ Reset
  <2>1. /\ svc' = svc /\ UNCHANGED <<running, joined, failed, httpd>>
        /\ main \in {"enter", "loop", "quit"}
        /\ main' \in {"loop", "quit", "relaunch"}
        /\ main' = "loop" => main = "enter" /\ reset_loop' = reset_loop
    BY <1>3 DEF Enter, Quit, Reset, GoTo, server
  <2>2. ~MainJoins
    BY <2>1 DEF MainJoins
  <2> QED BY <1>1, <2>1, <2>2 DEF DownInv
<1>4. CASE StopForRelaunch \/ DestroyStop
  <2>1. /\ svc' = svc /\ UNCHANGED <<joined, failed, httpd>>
        /\ (running' <=> running /\ ~Stoppable) /\ main \in {"quit", "relaunch"}
        /\ main' \in IF Stoppable THEN {"join", "destroy join"} ELSE {"relaunch", "destroy"}
    BY <1>4 DEF StopForRelaunch, DestroyStop, GoTo
  <2>2. CASE Stoppable
    <3>1. MainJoins' /\ ~running' /\ main' \notin {"enter", "loop"}
      BY <2>1, <2>2 DEF MainJoins
    <3> QED BY <3>1 DEF DownInv
  <2>3. CASE ~Stoppable
    <3>1. (running' <=> running) /\ main' \notin {"enter", "loop"} /\ ~MainJoins
      BY <2>1, <2>3 DEF MainJoins
    <3> QED BY <1>1, <2>1, <3>1 DEF DownInv
  <2> QED BY <2>2, <2>3
<1>5. CASE JoinForRelaunch \/ DestroyJoin
  <2>1. joined' /\ httpd' = "none" /\ main' \in {"relaunch", "destroy"}
    BY <1>5 DEF JoinForRelaunch, DestroyJoin, GoTo
  <2> QED BY <2>1 DEF DownInv
<1>6. CASE DestroyFree
  <2>1. /\ httpd' = "none" /\ svc' = svc /\ UNCHANGED <<running, joined, failed>>
        /\ main = "destroy" /\ main' \in {"ended", "gone"}
    BY <1>6 DEF DestroyFree, GoTo, server
  <2>2. ~MainJoins
    BY <2>1 DEF MainJoins
  <2> QED BY <1>1, <2>1, <2>2 DEF DownInv
<1>7. CASE DestroyUsed
  BY <1>7 DEF DestroyUsed, Crash, DownInv
<1>8. CASE Restart
  <2>1. ~running' /\ joined' /\ main' = "start"
    BY <1>8 DEF Restart, GoTo
  <2> QED BY <2>1 DEF DownInv
<1> QED BY <1>2, <1>3, <1>4, <1>5, <1>6, <1>7, <1>8 DEF MainProceed

\* The main loop is not yet in its loop.
LEMMA InitDown == Init => DownInv
  BY DEF Init, DownInv

\* Every step keeps it noticed.
LEMMA StepDown == IInv /\ DownInv /\ [Next]_vars => DownInv'
<1> SUFFICES ASSUME IInv, DownInv, [Next]_vars PROVE DownInv'
  OBVIOUS
<1>1. CASE Next
  BY <1>1, HttpdDown, MainDown, ServiceDown DEF Next
<1>2. CASE UNCHANGED vars
  BY <1>2 DEF vars, server, flags, DownInv, MainJoins, Joiners
<1> QED BY <1>1, <1>2

\* A server whose thread is gone while the main loop waits ended by an error of
\* its own, or the main loop was told, or is about to be by the service that
\* stopped it (conn_reset).
THEOREM DownNoticedAlways == Spec => []DownIsNoticed
<1>1. DownInv => DownIsNoticed
  BY DEF DownInv, DownIsNoticed, Waiting
<1>2. Spec => []IInv
  BY InitJoin, StepJoin, PTL DEF Spec
<1>3. Spec => []DownInv
  BY <1>2, InitDown, StepDown, PTL DEF Spec
<1> QED BY <1>1, <1>3, PTL

-----------------------------------------------------------------------------
(* The table of connections and the work on it.                            *)

Removal == {"stop", "join", "free", "close"}

Single == {"capture", "request", "setup"}

Connections == [connected : BOOLEAN, raop : BOOLEAN,
                timing : {None} \cup Sessions, streams : {None} \cup Sessions]

\* The table holds connections, closed ones of no type, and is counted right.
TableInv ==
  /\ connections \in [Slots -> Connections]
  /\ \A c \in Slots : connections[c].raop => connections[c].connected
  /\ OneClient
  /\ open_connections = Cardinality(Connected)

\* A list of jobs.
Jobs(w) ==
  /\ w \in Seq({w[i] : i \in DOMAIN w})
  /\ \A i \in 1 .. Len(w) : w[i] = Job(w[i].do, w[i].what, w[i].id)

\* Removing a connection is done before anything else, a capture before all but
\* that, a request at once; closing is the end of a removal.  What is to be
\* closed or served is open.
WorkInv ==
  /\ Jobs(work)
  /\ \A i, j \in 1 .. Len(work) : i < j =>
       /\ work[j].do \in Removal \cup {"capture"} => work[i].do \in Removal
       /\ work[j].do \in Removal => work[i].do # "close"
       /\ work[j].do = "capture" /\ work[i].do = "close" => work[i].id \in Known
       /\ work[j].do \notin {"request", "setup"}
  /\ \A i \in 1 .. Len(work) :
       /\ work[i].do \in {"request", "setup"} => work[i].id \in Connected
       /\ work[i].do = "close" => work[i].id \in Connected
       /\ work[i].do = "capture" => work[i].id \in Connected \ Known

\* Where the httpd thread has ended nothing is left of what it did, and it has
\* ended when it was joined, or its server is gone.
ThreadInv ==
  /\ httpd \in {"none", "left"} => work = <<>> /\ Connected = {}
  /\ joined \/ main = "gone" => httpd = "none"

ServerInv == TableInv /\ WorkInv /\ ThreadInv

\* A list of jobs none of which is a removal, and at most the first a capture or
\* a request.
Tame(w) ==
  /\ Jobs(w)
  /\ \A i \in 1 .. Len(w) : w[i].do \notin Removal /\ (i > 1 => w[i].do \notin Single)

\* A list of nothing but removals, none to the end.
Stops(w) == Jobs(w) /\ \A i \in 1 .. Len(w) : w[i].do \in {"stop", "free"}

\* A job is what it was made of.
LEMMA JobFields ==
  \A do, what, id : /\ Job(do, what, id).do = do /\ Job(do, what, id).what = what
                    /\ Job(do, what, id).id = id
  BY DEF Job

\* A list of jobs has a length, and a first job and others behind it.
LEMMA JobsLen ==
  ASSUME NEW w, Jobs(w)
  PROVE  /\ Len(w) \in Nat /\ (w = <<>> <=> Len(w) = 0)
         /\ w # <<>> => Head(w) = w[1] /\ Len(Tail(w)) = Len(w) - 1
         /\ w # <<>> => \A i \in 1 .. Len(w) - 1 : Tail(w)[i] = w[i + 1]
<1> DEFINE S == {w[i] : i \in DOMAIN w}
<1>1. w \in Seq(S)
  BY DEF Jobs
<1> HIDE DEF S
<1> QED BY <1>1

\* Any sequence whose elements are jobs is a list of jobs.
LEMMA JobsFrom ==
  ASSUME NEW S, NEW w \in Seq(S), \A i \in 1 .. Len(w) : w[i] = Job(w[i].do, w[i].what, w[i].id)
  PROVE  Jobs(w)
<1>1. DOMAIN w = 1 .. Len(w) /\ Len(w) \in Nat /\ w = [i \in 1 .. Len(w) |-> w[i]]
  OBVIOUS
<1>2. w \in [1 .. Len(w) -> {w[i] : i \in DOMAIN w}]
  BY <1>1
<1>3. w \in Seq({w[i] : i \in DOMAIN w})
  BY <1>1, <1>2
<1> QED BY <1>3 DEF Jobs

\* What is behind the first job is a list of jobs.
LEMMA JobsTail ==
  ASSUME NEW w, Jobs(w), w # <<>>
  PROVE  Jobs(Tail(w))
<1> DEFINE S == {w[i] : i \in DOMAIN w}
<1>1. w \in Seq(S)
  BY DEF Jobs
<1> HIDE DEF S
<1>2. Tail(w) \in Seq(S)
  BY <1>1
<1>3. \A i \in 1 .. Len(Tail(w)) : Tail(w)[i] = Job(Tail(w)[i].do, Tail(w)[i].what, Tail(w)[i].id)
  <2> SUFFICES ASSUME NEW i \in 1 .. Len(w) - 1
               PROVE  w[i + 1] = Job(w[i + 1].do, w[i + 1].what, w[i + 1].id)
    BY JobsLen
  <2>1. i + 1 \in 1 .. Len(w)
    BY JobsLen
  <2> QED BY <2>1 DEF Jobs
<1> QED BY <1>2, <1>3, JobsFrom

\* Jobs in front of jobs are a list of jobs, at the places one expects.
LEMMA JobsConcat ==
  ASSUME NEW v, NEW w, Jobs(v), Jobs(w)
  PROVE  /\ Jobs(v \o w) /\ Len(v \o w) = Len(v) + Len(w)
         /\ \A i \in 1 .. Len(v) : (v \o w)[i] = v[i]
         /\ \A i \in Len(v) + 1 .. Len(v) + Len(w) :
              i - Len(v) \in 1 .. Len(w) /\ (v \o w)[i] = w[i - Len(v)]
<1> DEFINE S == {v[i] : i \in DOMAIN v} \cup {w[i] : i \in DOMAIN w}
<1>1. v \in Seq(S) /\ w \in Seq(S)
  <2>1. v \in Seq({v[i] : i \in DOMAIN v}) /\ w \in Seq({w[i] : i \in DOMAIN w})
    BY DEF Jobs
  <2> QED BY <2>1
<1> HIDE DEF S
<1>2. /\ v \o w \in Seq(S) /\ Len(v \o w) = Len(v) + Len(w)
      /\ \A i \in 1 .. Len(v) : (v \o w)[i] = v[i]
      /\ \A i \in Len(v) + 1 .. Len(v) + Len(w) :
           i - Len(v) \in 1 .. Len(w) /\ (v \o w)[i] = w[i - Len(v)]
  <2>1. Len(v) \in Nat /\ Len(w) \in Nat
    BY <1>1
  <2>2. v \o w \in Seq(S) /\ Len(v \o w) = Len(v) + Len(w)
    BY <1>1
  <2>3. \A i \in 1 .. Len(v) : (v \o w)[i] = v[i]
    BY <1>1, <2>1
  <2>4. ASSUME NEW i \in Len(v) + 1 .. Len(v) + Len(w)
        PROVE  i - Len(v) \in 1 .. Len(w) /\ (v \o w)[i] = w[i - Len(v)]
    <3>1. i \in 1 .. Len(v) + Len(w) /\ i > Len(v) /\ i - Len(v) \in 1 .. Len(w)
      BY <2>1
    <3> QED BY <1>1, <2>1, <3>1
  <2> QED BY <2>2, <2>3, <2>4
<1>3. ASSUME NEW i \in 1 .. Len(v \o w)
      PROVE  (v \o w)[i] = Job((v \o w)[i].do, (v \o w)[i].what, (v \o w)[i].id)
  <2>1. i \in 1 .. Len(v) \/ i \in Len(v) + 1 .. Len(v) + Len(w)
    <3>1. Len(v) \in Nat /\ Len(w) \in Nat
      BY <1>1
    <3> QED BY <1>2, <3>1
  <2> QED BY <1>2, <2>1 DEF Jobs
<1> QED BY <1>2, <1>3, JobsFrom

\* One job is a list of jobs.
LEMMA JobsOne ==
  ASSUME NEW do, NEW what, NEW id
  PROVE  Jobs(<<Job(do, what, id)>>)
<1> DEFINE j == Job(do, what, id)
<1>1. j = Job(j.do, j.what, j.id)
  BY JobFields
<1> HIDE DEF j
<1>2. <<j>> \in Seq({j}) /\ Len(<<j>>) = 1 /\ \A i \in 1 .. Len(<<j>>) : <<j>>[i] = j
  OBVIOUS
<1>3. Jobs(<<j>>)
  BY <1>1, <1>2, JobsFrom
<1> QED BY <1>3 DEF j

\* No job is a list of jobs.
LEMMA JobsNone == Jobs(<<>>) /\ Len(<<>>) = 0
<1>1. <<>> \in Seq({}) /\ Len(<<>>) = 0
  OBVIOUS
<1>2. \A i \in 1 .. Len(<<>>) : <<>>[i] = Job(<<>>[i].do, <<>>[i].what, <<>>[i].id)
  BY <1>1
<1> QED BY <1>1, <1>2, JobsFrom

\* Stops in front of stops are stops.
LEMMA StopsConcat ==
  ASSUME NEW v, NEW w, Stops(v), Stops(w)
  PROVE  Stops(v \o w)
<1>1. \A i \in 1 .. Len(v) + Len(w) : i \in 1 .. Len(v) \/ i \in Len(v) + 1 .. Len(v) + Len(w)
  BY JobsLen DEF Stops
<1> QED BY <1>1, JobsConcat DEF Stops

\* To stop or to free one service is a list of stops.
LEMMA StopsOne ==
  ASSUME NEW do \in {"stop", "free"}, NEW what, NEW id
  PROVE  Stops(<<Job(do, what, id)>>)
<1>1. Len(<<Job(do, what, id)>>) = 1 /\ <<Job(do, what, id)>>[1].do = do
  BY JobFields
<1>2. \A i \in 1 .. 1 : i = 1
  OBVIOUS
<1> QED BY <1>1, <1>2, JobsOne DEF Stops

\* What Destroy and Stop leave to be done.
LEMMA DestroyStops ==
  ASSUME NEW k, NEW s
  PROVE  Stops(Destroy(k, s)) /\ Stops(Stop(k, s))
<1>1. Stops(<<>>)
  BY JobsNone DEF Stops
<1>2. <<Job("stop", k, s), Job("free", k, s)>> = <<Job("stop", k, s)>> \o <<Job("free", k, s)>>
  OBVIOUS
<1>3. Stops(<<Job("stop", k, s), Job("free", k, s)>>)
  BY <1>2, StopsOne, StopsConcat
<1> QED BY <1>1, <1>3, StopsOne DEF Destroy, Stop

\* Services are stopped and freed, then the connection is closed.
LEMMA RemoveJobs ==
  ASSUME NEW c
  PROVE  \E v : Stops(v) /\ Remove(c) = v \o <<Job("close", "connection", c)>>
<1> DEFINE conn == connections[c]
           v == Destroy("rtp", conn.streams) \o Destroy("mirror", conn.streams)
                  \o Destroy("ntp", conn.timing)
<1>1. Stops(v)
  BY DestroyStops, StopsConcat
<1>2. Remove(c) = v \o <<Job("close", "connection", c)>>
  BY DEF Remove
<1> QED BY <1>1, <1>2

\* A removal may be all there is to do.
LEMMA RemoveAlone ==
  ASSUME NEW c
  PROVE  Remove(c) = Remove(c) \o <<>>
<1> DEFINE r == Remove(c)
           S == {r[i] : i \in DOMAIN r}
<1>1. PICK v : Stops(v) /\ Remove(c) = v \o <<Job("close", "connection", c)>>
  BY RemoveJobs
<1>2. Jobs(v \o <<Job("close", "connection", c)>>)
  BY <1>1, JobsOne, JobsConcat DEF Stops
<1>3. r \in Seq(S)
  BY <1>1, <1>2 DEF Jobs
<1> HIDE DEF S, r
<1>4. r = r \o <<>>
  BY <1>3
<1> QED BY <1>4 DEF r

-----------------------------------------------------------------------------
\* What is left of the work when its first job is done.
LEMMA Popped ==
  ASSUME WorkInv, work # <<>>
  PROVE  /\ Jobs(Rest) /\ Len(Rest) \in Nat /\ Len(Rest) = Len(work) - 1
         /\ 1 \in 1 .. Len(work) /\ Head(work) = work[1]
         /\ \A i \in 1 .. Len(Rest) : i + 1 \in 1 .. Len(work) /\ Rest[i] = work[i + 1]
         /\ Head(work).do \notin Removal => Tame(Rest) /\ Tame(work)
         /\ Head(work).do \notin Removal =>
              \A i \in 1 .. Len(Rest) : Rest[i].do \notin Removal \cup Single
<1> DEFINE n == Len(work)
<1>1. Jobs(work)
  BY DEF WorkInv
<1>2. /\ Jobs(Rest) /\ n \in Nat \ {0} /\ Len(Rest) = n - 1 /\ Head(work) = work[1]
      /\ \A i \in 1 .. n - 1 : Rest[i] = work[i + 1]
  BY <1>1, JobsLen, JobsTail DEF Rest
<1>3. \A i \in 1 .. n - 1 : i + 1 \in 1 .. n /\ 1 < i + 1
  BY <1>2
<1>4. 1 \in 1 .. n /\ n - 1 \in Nat
  BY <1>2
<1>5. ASSUME Head(work).do \notin Removal, NEW i \in 1 .. Len(Rest)
      PROVE  Rest[i].do \notin Removal \cup Single
  <2>1. /\ work[i + 1].do \in Removal \cup {"capture"} => work[1].do \in Removal
        /\ work[i + 1].do \notin {"request", "setup"}
    BY <1>2, <1>3, <1>4 DEF WorkInv
  <2> QED BY <1>2, <1>5, <2>1 DEF Single
<1>6. ASSUME Head(work).do \notin Removal PROVE Tame(Rest)
  BY <1>2, <1>5, <1>6 DEF Tame
<1>7. ASSUME Head(work).do \notin Removal PROVE Tame(work)
  <2> SUFFICES ASSUME NEW i \in 1 .. n
               PROVE  work[i].do \notin Removal /\ (i > 1 => work[i].do \notin Single)
    BY <1>1 DEF Tame
  <2>1. CASE i = 1
    BY <1>2, <1>7, <2>1
  <2>2. CASE i # 1
    <3>1. 1 < i
      BY <1>2, <2>2
    <3>2. /\ work[i].do \in Removal \cup {"capture"} => work[1].do \in Removal
          /\ work[i].do \notin {"request", "setup"}
      BY <1>4, <3>1 DEF WorkInv
    <3> QED BY <1>2, <1>7, <3>2 DEF Single
  <2> QED BY <2>1, <2>2
<1> QED BY <1>2, <1>3, <1>4, <1>5, <1>6, <1>7

\* The first job is done, or abandoned, and no connection concerned.
LEMMA PopWork ==
  ASSUME WorkInv, work # <<>>, work' = Rest, Connected' = Connected, Known' = Known
  PROVE  WorkInv'
<1>1. /\ Jobs(work') /\ Len(work') \in Nat
      /\ \A i \in 1 .. Len(work') : i + 1 \in 1 .. Len(work) /\ work'[i] = work[i + 1]
  BY Popped
<1>2. ASSUME NEW i \in 1 .. Len(work'), NEW j \in 1 .. Len(work'), i < j
      PROVE  /\ work'[j].do \in Removal \cup {"capture"} => work'[i].do \in Removal
             /\ work'[j].do \in Removal => work'[i].do # "close"
             /\ work'[j].do = "capture" /\ work'[i].do = "close" => work'[i].id \in Known'
             /\ work'[j].do \notin {"request", "setup"}
  <2>1. i + 1 \in 1 .. Len(work) /\ j + 1 \in 1 .. Len(work) /\ i + 1 < j + 1
    BY <1>1, <1>2
  <2>2. work'[i] = work[i + 1] /\ work'[j] = work[j + 1]
    BY <1>1
  <2> QED BY <2>1, <2>2 DEF WorkInv
<1>3. ASSUME NEW i \in 1 .. Len(work')
      PROVE  /\ work'[i].do \in {"request", "setup"} => work'[i].id \in Connected'
             /\ work'[i].do = "close" => work'[i].id \in Connected'
             /\ work'[i].do = "capture" => work'[i].id \in (Connected \ Known)'
  BY <1>1 DEF WorkInv
<1> QED BY <1>1, <1>2, <1>3 DEF WorkInv

\* Nothing is left to be done.
LEMMA NoWork ==
  ASSUME work' = <<>>
  PROVE  WorkInv'
<1>1. \A i \in 1 .. Len(work') : FALSE
  BY JobsNone
<1> QED BY <1>1, JobsNone DEF WorkInv

\* New work without removals, a capture or request at most its first.
LEMMA TameWork ==
  ASSUME Tame(work'),
         \A i \in 1 .. Len(work') :
           /\ work'[i].do = "capture" => work'[i].id \in (Connected \ Known)'
           /\ work'[i].do \in {"request", "setup"} => work'[i].id \in Connected'
  PROVE  WorkInv'
<1>1. Len(work') \in Nat
  BY JobsLen DEF Tame
<1>2. ASSUME NEW i \in 1 .. Len(work'), NEW j \in 1 .. Len(work'), i < j
      PROVE  work'[j].do \notin Removal \cup Single
  <2>1. j > 1
    BY <1>1, <1>2
  <2> QED BY <2>1 DEF Tame
<1>3. "close" \in Removal
  BY DEF Removal
<1> QED BY <1>2, <1>3 DEF WorkInv, Tame, Single

\* One job in front of work without removals and captures.
LEMMA PushOne ==
  ASSUME NEW w, Tame(w), \A i \in 1 .. Len(w) : w[i].do \notin Single,
         NEW do, do \notin Removal, NEW what, NEW id,
         do = "capture" => id \in (Connected \ Known)',
         do \in {"request", "setup"} => id \in Connected',
         work' = <<Job(do, what, id)>> \o w
  PROVE  WorkInv'
<1> DEFINE v == <<Job(do, what, id)>>
<1>1. Jobs(v) /\ Len(v) = 1 /\ v[1] = Job(do, what, id)
  BY JobsOne
<1> HIDE DEF v
<1>2. /\ Jobs(work') /\ Len(work') = 1 + Len(w) /\ work'[1] = Job(do, what, id) /\ Len(w) \in Nat
      /\ \A i \in 2 .. 1 + Len(w) : i - 1 \in 1 .. Len(w) /\ work'[i] = w[i - 1]
  <2>1. work' = v \o w /\ Jobs(w)
    BY DEF v, Tame
  <2>2. \A i \in 1 + 1 .. 1 + Len(w) : i - 1 \in 1 .. Len(w) /\ work'[i] = w[i - 1]
    BY <1>1, <2>1, JobsConcat
  <2>3. Jobs(work') /\ Len(work') = 1 + Len(w) /\ work'[1] = v[1]
    <3>1. 1 \in 1 .. Len(v)
      BY <1>1
    <3>2. /\ Jobs(v \o w) /\ Len(v \o w) = Len(v) + Len(w)
          /\ \A i \in 1 .. Len(v) : (v \o w)[i] = v[i]
      BY <1>1, <2>1, JobsConcat
    <3> QED BY <1>1, <2>1, <3>1, <3>2
  <2> QED BY <1>1, <2>1, <2>2, <2>3, JobsLen
<1>3. \A i \in 1 .. Len(work') : i = 1 \/ i \in 2 .. 1 + Len(w)
  BY <1>2
<1>4. \A i \in 2 .. 1 + Len(w) : work'[i].do \notin Removal \cup Single
  BY <1>2 DEF Tame
<1>5. Tame(work')
  BY <1>2, <1>3, <1>4, JobFields DEF Tame
<1>6. \A i \in 1 .. Len(work') :
        /\ work'[i].do = "capture" => work'[i].id \in (Connected \ Known)'
        /\ work'[i].do \in {"request", "setup"} => work'[i].id \in Connected'
  BY <1>2, <1>3, <1>4, JobFields DEF Single
<1> QED BY <1>5, <1>6, TameWork

\* Stops in front of work without removals and captures.
LEMMA PushStops ==
  ASSUME NEW v, Stops(v), NEW w, Tame(w), \A i \in 1 .. Len(w) : w[i].do \notin Single,
         work' = v \o w
  PROVE  WorkInv'
<1>1. /\ Jobs(work') /\ Len(work') = Len(v) + Len(w) /\ Len(v) \in Nat /\ Len(w) \in Nat
      /\ \A i \in 1 .. Len(v) : work'[i] = v[i]
      /\ \A i \in Len(v) + 1 .. Len(v) + Len(w) :
           i - Len(v) \in 1 .. Len(w) /\ work'[i] = w[i - Len(v)]
  BY JobsConcat, JobsLen DEF Stops, Tame
<1>2. \A i \in 1 .. Len(work') : i \in 1 .. Len(v) \/ i \in Len(v) + 1 .. Len(v) + Len(w)
  BY <1>1
<1>3. \A i \in 1 .. Len(v) : work'[i].do \in {"stop", "free"}
  BY <1>1 DEF Stops
<1>4. \A i \in Len(v) + 1 .. Len(v) + Len(w) : work'[i].do \notin Removal \cup Single
  BY <1>1 DEF Tame
<1>5. \A i, j \in 1 .. Len(work') : i < j /\ j \in 1 .. Len(v) => i \in 1 .. Len(v)
  BY <1>1
<1> QED BY <1>1, <1>2, <1>3, <1>4, <1>5, SMTT(40) DEF WorkInv, Removal, Single

\* The removal of a connection in front of work without removals.
LEMMA PushRemove ==
  ASSUME NEW c, c \in Connected', NEW w, Tame(w), work' = Remove(c) \o w,
         \A i \in 1 .. Len(w) : w[i].do = "capture" =>
            w[i].id \in (Connected \ Known)' /\ c \in Known',
         \A i \in 1 .. Len(w) : w[i].do \notin {"request", "setup"}
  PROVE  WorkInv'
<1>1. PICK v : Stops(v) /\ Remove(c) = v \o <<Job("close", "connection", c)>>
  BY RemoveJobs
<1> DEFINE z == <<Job("close", "connection", c)>>
           r == v \o z
           n == Len(v)
<1>2. Jobs(v) /\ Jobs(z) /\ Jobs(w) /\ n \in Nat /\ Len(w) \in Nat /\ Len(z) = 1
      /\ z[1] = Job("close", "connection", c)
  BY <1>1, JobsOne, JobsLen DEF Stops, Tame
<1> HIDE DEF z
<1>3. /\ Jobs(r) /\ Len(r) = n + 1 /\ \A i \in 1 .. n : r[i] = v[i]
      /\ r[n + 1] = Job("close", "connection", c)
  <2>0. /\ Jobs(v \o z) /\ Len(v \o z) = Len(v) + Len(z)
        /\ \A i \in 1 .. Len(v) : (v \o z)[i] = v[i]
        /\ \A i \in Len(v) + 1 .. Len(v) + Len(z) :
             i - Len(v) \in 1 .. Len(z) /\ (v \o z)[i] = z[i - Len(v)]
    BY <1>2, JobsConcat
  <2>1. /\ Jobs(r) /\ Len(r) = n + 1 /\ \A i \in 1 .. n : r[i] = v[i]
        /\ \A i \in n + 1 .. n + 1 : r[i] = z[i - n]
    BY <1>2, <2>0
  <2> HIDE DEF r, n
  <2>2. n + 1 \in n + 1 .. n + 1 /\ (n + 1) - n = 1
    BY <1>2
  <2> QED BY <1>2, <2>1, <2>2
<1>4. Remove(c) = r
  BY <1>1 DEF z
<1> HIDE DEF r, n
<1>5. /\ Jobs(work') /\ Len(work') = n + 1 + Len(w)
      /\ \A i \in 1 .. n + 1 : work'[i] = r[i]
      /\ \A i \in n + 1 + 1 .. n + 1 + Len(w) :
           i - (n + 1) \in 1 .. Len(w) /\ work'[i] = w[i - (n + 1)]
  <2>1. /\ Jobs(r \o w) /\ Len(r \o w) = Len(r) + Len(w)
        /\ \A i \in 1 .. Len(r) : (r \o w)[i] = r[i]
        /\ \A i \in Len(r) + 1 .. Len(r) + Len(w) :
             i - Len(r) \in 1 .. Len(w) /\ (r \o w)[i] = w[i - Len(r)]
    BY <1>2, <1>3, JobsConcat, ZenonT(60)
  <2> QED BY <1>3, <1>4, <2>1
<1>6. \A i \in 1 .. Len(work') : i \in 1 .. n \/ i = n + 1 \/ i \in n + 2 .. n + 1 + Len(w)
  BY <1>2, <1>5
<1>7. \A i \in 1 .. n : work'[i].do \in {"stop", "free"}
  <2>1. \A i \in 1 .. n : i \in 1 .. n + 1 /\ i \in 1 .. Len(v)
    BY <1>2 DEF n
  <2> QED BY <1>1, <1>3, <1>5, <2>1 DEF Stops
<1>8. work'[n + 1].do = "close" /\ work'[n + 1].id = c
  <2>1. n + 1 \in 1 .. n + 1
    BY <1>2
  <2> QED BY <1>3, <1>5, <2>1, JobFields
<1>9. \A i \in n + 2 .. n + 1 + Len(w) :
        /\ work'[i].do \notin Removal
        /\ work'[i].do = "capture" => /\ work'[i].id \in (Connected \ Known)' /\ c \in Known'
                                      /\ i = n + 2
        /\ work'[i].do \notin {"request", "setup"}
  <2> SUFFICES ASSUME NEW i \in n + 2 .. n + 1 + Len(w)
               PROVE  /\ work'[i].do \notin Removal
                      /\ work'[i].do = "capture" =>
                           /\ work'[i].id \in (Connected \ Known)' /\ c \in Known'
                           /\ i = n + 2
                      /\ work'[i].do \notin {"request", "setup"}
    OBVIOUS
  <2> DEFINE k == i - (n + 1)
  <2>1. i \in n + 1 + 1 .. n + 1 + Len(w)
    BY <1>2
  <2>2. k \in 1 .. Len(w) /\ work'[i] = w[k]
    BY <1>5, <2>1
  <2>3. k > 1 \/ i = n + 2
    BY <1>2, <2>1
  <2> HIDE DEF k
  <2> QED BY <2>2, <2>3 DEF Tame, Single
<1>10. ASSUME NEW i \in 1 .. Len(work'), NEW j \in 1 .. Len(work'), i < j
       PROVE  /\ work'[j].do \in Removal \cup {"capture"} => work'[i].do \in Removal
              /\ work'[j].do \in Removal => work'[i].do # "close"
              /\ work'[j].do = "capture" /\ work'[i].do = "close" => work'[i].id \in Known'
              /\ work'[j].do \notin {"request", "setup"}
  <2>1. CASE j \in 1 .. n \/ j = n + 1
    <3>1. i \in 1 .. n
      BY <1>2, <1>10, <2>1
    <3> QED BY <1>7, <1>8, <2>1, <3>1 DEF Removal
  <2>2. CASE j \in n + 2 .. n + 1 + Len(w)
    <3>1. i \in 1 .. n \/ i = n + 1 \/ (i \in n + 2 .. n + 1 + Len(w) /\ j # n + 2)
      BY <1>2, <1>6, <1>10, <2>2
    <3> QED BY <1>7, <1>8, <1>9, <2>2, <3>1 DEF Removal
  <2> QED BY <1>6, <2>1, <2>2
<1>11. ASSUME NEW i \in 1 .. Len(work')
       PROVE  /\ work'[i].do \notin {"request", "setup"}
              /\ work'[i].do = "close" => work'[i].id \in Connected'
              /\ work'[i].do = "capture" => work'[i].id \in (Connected \ Known)'
  BY <1>6, <1>7, <1>8, <1>9 DEF Removal
<1> QED BY <1>5, <1>10, <1>11 DEF WorkInv

-----------------------------------------------------------------------------
\* The sets of connections are finite sets of slots.
LEMMA TableSets ==
  ASSUME TableInv
  PROVE  /\ Slots \subseteq Nat /\ IsFiniteSet(Slots) /\ Cardinality(Slots) = MAX_CONNECTIONS
         /\ Connected \subseteq Slots /\ Known \subseteq Connected /\ IsFiniteSet(Connected)
         /\ Cardinality(Connected) \in Nat /\ MAX_CONNECTIONS \in Nat
         /\ \A c \in Slots \ Connected : ~connections[c].raop
<1>1. MAX_CONNECTIONS \in Nat \ {0}
  BY SessionAssumption
<1>2. IsFiniteSet(Slots) /\ Cardinality(Slots) = MAX_CONNECTIONS /\ Slots \subseteq Nat
  BY <1>1, FS_Interval DEF Slots
<1>3. Connected \subseteq Slots /\ Known \subseteq Connected
  BY DEF Connected, Known
<1>4. IsFiniteSet(Connected) /\ Cardinality(Connected) \in Nat
  BY <1>2, <1>3, FS_Subset, FS_CardinalityType
<1>5. \A c \in Slots \ Connected : ~connections[c].raop
  BY DEF TableInv, Connected
<1> QED BY <1>1, <1>2, <1>3, <1>4, <1>5

\* Lowest finds a slot of any set but the empty one: of the intervals from 0 to a
\* slot one holds no other.
LEMMA LowestExists ==
  ASSUME NEW S, S \subseteq Nat, S # {}
  PROVE  Lowest(S) \in S
<1> DEFINE R == StrictSubsetOrdering(Nat)
           T == {0 .. c : c \in S}
<1>1. IsWellFoundedOn(R, FiniteSubsetsOf(Nat))
  BY FS_StrictSubsetOrderingWellFounded
<1>2. T \subseteq FiniteSubsetsOf(Nat) /\ T # {}
  <2>1. ASSUME NEW c \in S
        PROVE  0 .. c \in FiniteSubsetsOf(Nat)
    <3>1. 0 \in Int /\ c \in Int
      OBVIOUS
    <3>2. IsFiniteSet(0 .. c)
      BY <3>1, FS_Interval
    <3> QED BY <3>2 DEF FiniteSubsetsOf
  <2> QED BY <2>1
<1>3. PICK I \in T : \A J \in T : ~(<<J, I>> \in R)
  <2> HIDE DEF R, T
  <2> QED BY <1>1, <1>2, WFMin
<1>4. PICK c \in S : I = 0 .. c
  BY <1>3
<1>5. ASSUME NEW d \in S, d < c
      PROVE  FALSE
  <2>1. c \in Nat /\ d \in Nat
    OBVIOUS
  <2>2. 0 .. d \subseteq 0 .. c /\ 0 .. d # 0 .. c
    <3>1. c \in 0 .. c /\ c \notin 0 .. d
      BY <1>5, <2>1
    <3>2. 0 .. d \subseteq 0 .. c
      BY <1>5, <2>1
    <3> QED BY <3>1, <3>2
  <2>3. 0 .. d \in SUBSET Nat /\ 0 .. c \in SUBSET Nat
    OBVIOUS
  <2>4. <<0 .. d, I>> \in R
    BY <1>4, <2>2, <2>3 DEF StrictSubsetOrdering
  <2> QED BY <1>3, <2>4
<1>6. \A d \in S : c <= d
  BY <1>5
<1> QED BY <1>6 DEF Lowest

\* A step that opens, closes and identifies no connection.
LEMMA SameTable ==
  ASSUME TableInv, connections' \in [Slots -> Connections],
         \A c \in Slots : /\ connections'[c].connected = connections[c].connected
                          /\ connections'[c].raop = connections[c].raop,
         open_connections' = open_connections
  PROVE  TableInv' /\ Connected' = Connected /\ Known' = Known
<1>1. Connected' = Connected /\ Known' = Known
  BY DEF Connected, Known
<1> QED BY <1>1 DEF TableInv, OneClient

\* A step that leaves the table alone.
LEMMA UnchangedTable ==
  ASSUME TableInv, UNCHANGED table
  PROVE  TableInv' /\ Connected' = Connected /\ Known' = Known
<1>1. connections' = connections /\ open_connections' = open_connections
  BY DEF table
<1> QED BY <1>1, SameTable DEF TableInv

\* A slot that was free is taken.
LEMMA OpenTable ==
  ASSUME TableInv, NEW c \in Slots \ Connected,
         connections' = [connections EXCEPT ![c].connected = TRUE],
         open_connections' = open_connections + 1
  PROVE  TableInv' /\ Connected' = Connected \cup {c} /\ Known' = Known
<1>1. /\ connections \in [Slots -> Connections] /\ ~connections[c].raop
      /\ \A d \in Slots : connections[d].raop => connections[d].connected
  BY TableSets DEF TableInv
<1>2. /\ connections' \in [Slots -> Connections] /\ connections'[c].connected
      /\ ~connections'[c].raop
      /\ \A d \in Slots \ {c} : connections'[d] = connections[d]
  BY <1>1, ZenonT(60) DEF Connections
<1>3. Connected' = Connected \cup {c} /\ Known' = Known
  BY <1>1, <1>2 DEF Connected, Known
<1>4. \A d \in Slots : connections'[d].raop => connections'[d].connected
  BY <1>1, <1>2
<1>5. open_connections' = Cardinality(Connected')
  BY <1>3, TableSets, FS_AddElement DEF TableInv
<1> QED BY <1>2, <1>3, <1>4, <1>5 DEF TableInv, OneClient

\* A connection is closed.
LEMMA CloseTable ==
  ASSUME TableInv, NEW c \in Connected,
         connections' = [connections EXCEPT ![c] = Closed],
         open_connections' = open_connections - 1
  PROVE  TableInv' /\ Connected' = Connected \ {c} /\ Known' = Known \ {c}
<1>1. /\ connections \in [Slots -> Connections] /\ c \in Slots
      /\ \A d \in Slots : connections[d].raop => connections[d].connected
  BY TableSets DEF TableInv
<1>2. /\ connections' \in [Slots -> Connections] /\ ~connections'[c].connected
      /\ ~connections'[c].raop
      /\ \A d \in Slots \ {c} : connections'[d] = connections[d]
  BY <1>1 DEF Connections, Closed
<1>3. Connected' = Connected \ {c} /\ Known' = Known \ {c}
  BY <1>1, <1>2 DEF Connected, Known
<1>4. \A d \in Slots : connections'[d].raop => connections'[d].connected
  BY <1>1, <1>2
<1>5. open_connections' = Cardinality(Connected')
  BY <1>3, TableSets, FS_RemoveElement DEF TableInv
<1> QED BY <1>2, <1>3, <1>4, <1>5 DEF TableInv, OneClient

\* The type of an open connection becomes known, while no other's is.
LEMMA IdentifyTable ==
  ASSUME TableInv, NEW c \in Connected, Known \subseteq {c},
         connections' = [connections EXCEPT ![c].raop = TRUE],
         open_connections' = open_connections
  PROVE  TableInv' /\ Connected' = Connected
<1>1. /\ connections \in [Slots -> Connections] /\ c \in Slots
      /\ \A d \in Slots : connections[d].raop => connections[d].connected
  BY TableSets DEF TableInv
<1>2. connections[c].connected
  BY DEF Connected
<1>3. /\ connections' \in [Slots -> Connections] /\ connections'[c].connected
      /\ \A d \in Slots \ {c} : connections'[d] = connections[d]
  BY <1>1, <1>2 DEF Connections
<1>4. Connected' = Connected /\ Known' = {c}
  BY <1>1, <1>2, <1>3 DEF Connected, Known, Connections
<1>5. \A d \in Slots : connections'[d].raop => connections'[d].connected
  BY <1>1, <1>3
<1> QED BY <1>3, <1>4, <1>5 DEF TableInv, OneClient

\* No connection is left.
LEMMA EmptyTable ==
  ASSUME connections' = [c \in Slots |-> Closed], open_connections' = 0
  PROVE  TableInv' /\ Connected' = {} /\ Known' = {}
<1>1. /\ connections' \in [Slots -> Connections]
      /\ \A c \in Slots : ~connections'[c].connected /\ ~connections'[c].raop
  BY DEF Connections, Closed
<1>2. Connected' = {} /\ Known' = {}
  BY <1>1 DEF Connected, Known
<1> QED BY <1>1, <1>2, FS_EmptySet DEF TableInv, OneClient

-----------------------------------------------------------------------------
\* While httpd_thread is at work nobody has joined it.
Up == httpd \notin {"none", "left"} \/ work # <<>>

\* A step in the middle of the thread's work leaves it up.
LEMMA StaysUp ==
  ASSUME ThreadInv, Up, joined' = joined, main' = main, httpd' \notin {"none", "left"}
  PROVE  ThreadInv'
  BY DEF ThreadInv, Up

\* A thread that has work to do has not returned.
LEMMA UpWhere ==
  ASSUME ThreadInv, Up
  PROVE  httpd \notin {"none", "left"}
  BY DEF ThreadInv, Up

\* A step that does nothing to the table and goes on with the work behind the
\* first job, or abandons it.
LEMMA Continues ==
  ASSUME ServerInv, work # <<>>, UNCHANGED <<table, joined, main>>,
         work' = Rest \/ work' = <<>>, httpd' = httpd \/ httpd' = "exit"
  PROVE  ServerInv'
<1>1. TableInv' /\ Connected' = Connected /\ Known' = Known
  BY UnchangedTable DEF ServerInv
<1>2. WorkInv'
  BY <1>1, PopWork, NoWork DEF ServerInv
<1>3. ThreadInv'
  BY UpWhere, StaysUp DEF ServerInv, Up
<1> QED BY <1>1, <1>2, <1>3 DEF ServerInv

\* A pass over the sockets holds nothing but what is to be accepted or read.
LEMMA PassTame ==
  ASSUME TableInv, NEW fds, NEW conns \in SUBSET Connected
  PROVE  Tame(Pass(fds, conns)) /\ \A i \in 1 .. Len(Pass(fds, conns)) :
                                      Pass(fds, conns)[i].do \notin Single
<1> DEFINE accept(fd) == IF fd \in fds THEN <<Job("accept", "socket", fd)>> ELSE <<>>
           pick(i) == CHOOSE c \in conns : Cardinality({d \in conns : d <= c}) = i
           recv == [i \in 1 .. Cardinality(conns) |-> Job("recv", "connection", pick(i))]
           Plain(w) == Jobs(w) /\ \A i \in 1 .. Len(w) : w[i].do \in {"accept", "recv"}
<1>1. ASSUME NEW fd PROVE Plain(accept(fd))
  <2>1. CASE fd \in fds
    <3>1. Jobs(<<Job("accept", "socket", fd)>>)
      BY JobsOne
    <3>2. /\ Len(<<Job("accept", "socket", fd)>>) = 1
          /\ <<Job("accept", "socket", fd)>>[1].do = "accept"
      BY JobFields
    <3> QED BY <2>1, <3>1, <3>2
  <2>2. CASE fd \notin fds
    BY <2>2, JobsNone
  <2> QED BY <2>1, <2>2
<1>2. Plain(recv)
  <2> HIDE DEF pick
  <2> DEFINE S == {Job("recv", "connection", pick(i)) : i \in 1 .. Cardinality(conns)}
  <2>1. Cardinality(conns) \in Nat
    BY TableSets, FS_Subset, FS_CardinalityType
  <2>2. recv \in Seq(S) /\ Len(recv) = Cardinality(conns)
    BY <2>1
  <2>3. \A i \in 1 .. Len(recv) : recv[i] = Job("recv", "connection", pick(i))
    BY <2>2
  <2> HIDE DEF recv, S
  <2>4. \A i \in 1 .. Len(recv) :
          recv[i].do = "recv" /\ recv[i] = Job(recv[i].do, recv[i].what, recv[i].id)
    BY <2>3, JobFields
  <2> QED BY <2>2, <2>4, JobsFrom
<1>3. ASSUME NEW v, NEW w, Plain(v), Plain(w) PROVE Plain(v \o w)
  <2>1. \A i \in 1 .. Len(v) + Len(w) : i \in 1 .. Len(v) \/ i \in Len(v) + 1 .. Len(v) + Len(w)
    BY <1>3, JobsLen
  <2> QED BY <1>3, <2>1, JobsConcat
<1>4. Pass(fds, conns) = accept(4) \o accept(6) \o recv
  BY DEF Pass
<1> HIDE DEF accept, recv, Plain
<1>5. Plain(Pass(fds, conns))
  BY <1>1, <1>2, <1>3, <1>4
<1> QED BY <1>5 DEF Plain, Tame, Removal, Single

\* The httpd thread at the top of its loop.
LEMMA SelectServer ==
  ASSUME ServerInv, Select \/ SelectFails \/ SeeStopped
  PROVE  ServerInv'
<1>1. /\ UNCHANGED table /\ joined' = joined /\ main' = main
      /\ httpd = "loop" /\ work = <<>> /\ httpd' \in {"loop", "exit"}
  BY DEF Select, SelectFails, SeeStopped, AtLoopTop, server
<1>2. TableInv' /\ Connected' = Connected /\ Known' = Known
  BY <1>1, UnchangedTable DEF ServerInv
<1>3. WorkInv'
  <2>1. CASE work' = work
    BY <1>1, <2>1, NoWork
  <2>2. CASE Select
    <3>1. PICK fds \in SUBSET {4, 6}, conns \in SUBSET Connected : work' = Pass(fds, conns)
      BY <2>2 DEF Select
    <3>2. /\ Tame(Pass(fds, conns))
          /\ \A i \in 1 .. Len(Pass(fds, conns)) : Pass(fds, conns)[i].do \notin Single
      BY PassTame DEF ServerInv
    <3> QED BY <3>1, <3>2, TameWork DEF Single
  <2> QED BY <2>1, <2>2 DEF SelectFails, SeeStopped
<1>4. ThreadInv'
  BY <1>1, StaysUp DEF ServerInv, Up
<1> QED BY <1>2, <1>3, <1>4 DEF ServerInv

\* A connection is accepted, or is not.
LEMMA AcceptServer ==
  ASSUME ServerInv, AcceptSkipped \/ Accept \/ AcceptAbandoned \/ AcceptFails
  PROVE  ServerInv'
<1>1. CASE AcceptSkipped \/ AcceptAbandoned \/ AcceptFails
  BY <1>1, Continues DEF AcceptSkipped, AcceptAbandoned, AcceptFails, Doing, server
<1>2. CASE Accept
  <2> DEFINE c == Lowest(Slots \ Connected)
  <2>1. /\ work # <<>> /\ Head(work).do = "accept" /\ Connected # Slots
        /\ connections' = [connections EXCEPT ![c].connected = TRUE]
        /\ open_connections' = open_connections + 1
        /\ work' = Rest /\ joined' = joined /\ main' = main /\ httpd' = httpd
    BY <1>2 DEF Accept, Doing, server
  <2>2. c \in Slots \ Connected
    <3>1. Slots \ Connected # {} /\ Slots \ Connected \subseteq Nat
      BY <2>1, TableSets DEF ServerInv
    <3> QED BY <3>1, LowestExists
  <2> HIDE DEF c
  <2>3. TableInv' /\ Connected' = Connected \cup {c} /\ Known' = Known
    BY <2>1, <2>2, OpenTable DEF ServerInv
  <2>4. WorkInv'
    <3>1. Head(work).do \notin Removal
      BY <2>1 DEF Removal
    <3>2. Tame(Rest) /\ \A i \in 1 .. Len(Rest) : Rest[i].do \notin Single
      BY <2>1, <3>1, Popped DEF ServerInv
    <3> QED BY <2>1, <3>2, TameWork DEF Single
  <2>5. ThreadInv'
    BY <2>1, UpWhere, StaysUp DEF ServerInv, Up
  <2> QED BY <2>3, <2>4, <2>5 DEF ServerInv
<1> QED BY <1>1, <1>2

\* A connection is to be removed, after a request or instead of one.
LEMMA BeginsRemoval ==
  ASSUME ServerInv, NEW c \in Connected, work # <<>>, UNCHANGED <<table, joined, main, httpd>>,
         Head(work).do \notin Removal, work' = Remove(c) \o Rest
  PROVE  ServerInv'
<1>1. TableInv' /\ Connected' = Connected /\ Known' = Known
  BY UnchangedTable DEF ServerInv
<1>2. Tame(Rest) /\ \A i \in 1 .. Len(Rest) : Rest[i].do \notin Single
  BY Popped DEF ServerInv
<1>3. WorkInv'
  BY <1>1, <1>2, PushRemove DEF Single
<1>4. ThreadInv'
  BY UpWhere, StaysUp DEF ServerInv, Up
<1> QED BY <1>1, <1>3, <1>4 DEF ServerInv

\* A connection's type becomes known, and its request is served.
LEMMA IdentifyServer ==
  ASSUME ServerInv, NEW c \in Connected, Known \subseteq {c}, work # <<>>,
         Head(work).do \notin Removal, Identify(c)
  PROVE  ServerInv'
<1>1. /\ connections' = [connections EXCEPT ![c].raop = TRUE]
      /\ work' = <<Job("request", "connection", c)>> \o Rest
      /\ open_connections' = open_connections /\ UNCHANGED <<joined, main, httpd>>
  BY DEF Identify, server
<1>2. TableInv' /\ Connected' = Connected
  BY <1>1, IdentifyTable DEF ServerInv
<1>3. Tame(Rest) /\ \A i \in 1 .. Len(Rest) : Rest[i].do \notin Single
  BY Popped DEF ServerInv
<1>4. WorkInv'
  <2>1. "request" \notin Removal /\ c \in Connected'
    BY <1>2 DEF Removal
  <2> QED BY <1>1, <1>3, <2>1, PushOne
<1>5. ThreadInv'
  BY <1>1, UpWhere, StaysUp DEF ServerInv, Up
<1> QED BY <1>2, <1>4, <1>5 DEF ServerInv

\* A connection is read from, up to the begin of a request or of its end.
LEMMA RecvServer ==
  ASSUME ServerInv, NEW c \in Slots,
         \/ RecvNothing(c) \/ RecvEnd(c) \/ RecvRequest(c) \/ RecvRejected(c)
         \/ RecvCapture(c) \/ CaptureRemove(c) \/ CaptureDone(c)
  PROVE  ServerInv'
<1>1. work # <<>> /\ Head(work).do \in {"recv", "capture"} /\ Head(work).do \notin Removal
  BY DEF RecvNothing, RecvEnd, RecvRequest, RecvRejected, RecvCapture, CaptureRemove,
         CaptureDone, Doing, Removal
<1>2. CASE RecvNothing(c) \/ RecvRejected(c)
  BY <1>1, <1>2, Continues DEF RecvNothing, RecvRejected, server
<1>3. CASE RecvEnd(c)
  <2>1. c \in Connected
    BY <1>3 DEF RecvEnd, Readable, Connected
  <2> QED BY <1>1, <1>3, <2>1, BeginsRemoval DEF RecvEnd, server
<1>4. CASE RecvRequest(c)
  <2>1. c \in Connected
    BY <1>4 DEF RecvRequest, Readable, Connected
  <2>2. Known \subseteq {c}
    <3>1. CASE Known = {}
      BY <3>1
    <3>2. CASE connections[c].raop
      <4>1. c \in Known
        BY <2>1, <3>2 DEF Known
      <4> QED BY <4>1 DEF ServerInv, TableInv, OneClient
    <3> QED BY <1>4, <3>1, <3>2 DEF RecvRequest
  <2> QED BY <1>1, <1>4, <2>1, <2>2, IdentifyServer DEF RecvRequest
<1>5. CASE RecvCapture(c)
  <2>1. /\ c \in Connected \ Known /\ work' = <<Job("capture", "connection", c)>> \o Rest
        /\ UNCHANGED <<table, joined, main, httpd>>
    BY <1>5 DEF RecvCapture, Readable, Connected, Known, server
  <2>2. TableInv' /\ Connected' = Connected /\ Known' = Known
    BY <2>1, UnchangedTable DEF ServerInv
  <2>3. Tame(Rest) /\ \A i \in 1 .. Len(Rest) : Rest[i].do \notin Single
    BY <1>1, Popped DEF ServerInv
  <2>4. WorkInv'
    BY <2>1, <2>2, <2>3, PushOne DEF Removal
  <2>5. ThreadInv'
    BY <1>1, <2>1, UpWhere, StaysUp DEF ServerInv, Up
  <2> QED BY <2>2, <2>4, <2>5 DEF ServerInv
<1>6. ASSUME Head(work).do = "capture", Head(work).id = c
      PROVE  c \in Connected \ Known
  BY <1>1, <1>6, Popped DEF ServerInv, WorkInv
<1>7. CASE CaptureRemove(c)
  <2> DEFINE d == Lowest(Known)
  <2>1. /\ Head(work).do = "capture" /\ Head(work).id = c /\ Known # {}
        /\ work' = Remove(d) \o work /\ UNCHANGED <<table, joined, main, httpd>>
    BY <1>7 DEF CaptureRemove, Captured, Doing, server
  <2>2. d \in Known
    <3>1. Known \subseteq Nat
      BY TableSets DEF ServerInv
    <3> QED BY <2>1, <3>1, LowestExists
  <2> HIDE DEF d
  <2>3. TableInv' /\ Connected' = Connected /\ Known' = Known
    BY <2>1, UnchangedTable DEF ServerInv
  <2>4. d \in Connected
    BY <2>2, TableSets DEF ServerInv
  <2>5. Tame(work)
    BY <1>1, Popped DEF ServerInv
  <2>6. \A i \in 1 .. Len(work) : /\ work[i].do = "capture" => work[i].id \in Connected \ Known
                                  /\ work[i].do \notin {"request", "setup"}
    <3>1. Jobs(work)
      BY DEF ServerInv, WorkInv
    <3>2. work[1].do = "capture"
      BY <1>1, <2>1, <3>1, JobsLen
    <3>3. \A i \in 1 .. Len(work) : i = 1 \/ work[i].do \notin Single
      BY <1>1, <2>5, <3>1, JobsLen DEF Tame
    <3> QED BY <3>2, <3>3 DEF ServerInv, WorkInv, Single
  <2>7. WorkInv'
    BY <2>1, <2>2, <2>3, <2>4, <2>5, <2>6, PushRemove
  <2>8. ThreadInv'
    BY <1>1, <2>1, UpWhere, StaysUp DEF ServerInv, Up
  <2> QED BY <2>3, <2>7, <2>8 DEF ServerInv
<1>8. CASE CaptureDone(c)
  <2>1. Head(work).do = "capture" /\ Head(work).id = c /\ Known = {} /\ Identify(c)
    BY <1>8 DEF CaptureDone, Captured, Doing
  <2>2. c \in Connected /\ Known \subseteq {c}
    BY <1>6, <2>1
  <2> QED BY <1>1, <2>1, <2>2, IdentifyServer
<1> QED BY <1>2, <1>3, <1>4, <1>5, <1>7, <1>8

-----------------------------------------------------------------------------
\* The httpd thread goes on in the middle of its work.
LEMMA WorksOn ==
  ASSUME ServerInv, work # <<>>, UNCHANGED <<joined, main, httpd>>, TableInv', WorkInv'
  PROVE  ServerInv'
<1>1. ThreadInv'
  BY UpWhere, StaysUp DEF ServerInv, Up
<1> QED BY <1>1 DEF ServerInv

\* A request that is served is that of an open connection.
LEMMA ServedIsOpen ==
  ASSUME ServerInv, work # <<>>, Head(work).do \in {"request", "setup"}
  PROVE  /\ Head(work).id \in Connected /\ Head(work).do \notin Removal
         /\ Tame(Rest) /\ \A i \in 1 .. Len(Rest) : Rest[i].do \notin Single
<1>1. Head(work).do \notin Removal
  BY DEF Removal
<1>2. 1 \in 1 .. Len(work) /\ Head(work) = work[1]
  BY Popped DEF ServerInv
<1>3. Head(work).id \in Connected
  BY <1>2 DEF ServerInv, WorkInv
<1> QED BY <1>1, <1>3, Popped DEF ServerInv

\* The handlers change of a connection what it points to, and stop services or
\* begin to remove it.
LEMMA RequestServer ==
  ASSUME ServerInv, NEW c \in Slots, Request(c)
  PROVE  ServerInv'
<1>1. work # <<>> /\ Head(work).do \in {"request", "setup"} /\ Head(work).id = c
  BY DEF Request, RequestOther, RequestDisconnect, SetupKeys, SetupDone, TeardownSession,
         SetupStream, TeardownStream, Serving, Doing
<1>2. /\ c \in Connected /\ Head(work).do \notin Removal
      /\ Tame(Rest) /\ \A i \in 1 .. Len(Rest) : Rest[i].do \notin Single
  BY <1>1, ServedIsOpen
<1>3. CASE RequestOther(c) \/ RequestDisconnect(c) \/ SetupDone(c)
  <2>1. /\ UNCHANGED <<table, joined, main, httpd>>
        /\ work' = Rest \/ work' = Remove(c) \o Rest
    BY <1>3 DEF RequestOther, RequestDisconnect, SetupDone, server
  <2> QED BY <1>1, <1>2, <2>1, Continues, BeginsRemoval
<1>4. ASSUME TableInv', Connected' = Connected, UNCHANGED <<joined, main, httpd>>,
             work' = <<Job("setup", "connection", c)>> \o Rest
      PROVE  ServerInv'
  <2>1. "setup" \notin Removal /\ c \in Connected'
    BY <1>2, <1>4 DEF Removal
  <2>2. WorkInv'
    BY <1>2, <1>4, <2>1, PushOne
  <2> QED BY <1>1, <1>4, <2>2, WorksOn
<1>5. ASSUME TableInv', UNCHANGED <<joined, main, httpd>>,
             NEW v, Stops(v), work' = v \o Rest
      PROVE  ServerInv'
  <2>1. WorkInv'
    BY <1>2, <1>5, PushStops
  <2> QED BY <1>1, <1>5, <2>1, WorksOn
<1>6. CASE SetupKeys(c)
  <2>1. PICK s \in Sessions :
          connections' = [connections EXCEPT ![c].timing = s, ![c].streams = s]
    BY <1>6 DEF SetupKeys
  <2>2. /\ open_connections' = open_connections /\ UNCHANGED <<joined, main, httpd>>
        /\ work' = <<Job("setup", "connection", c)>> \o Rest
    BY <1>6 DEF SetupKeys, server
  <2>3. TableInv' /\ Connected' = Connected
    <3>1. connections \in [Slots -> Connections]
      BY DEF ServerInv, TableInv
    <3>2. connections' \in [Slots -> Connections]
      BY <2>1, <3>1, ZenonT(60) DEF Connections
    <3>3. \A d \in Slots : /\ connections'[d].connected = connections[d].connected
                           /\ connections'[d].raop = connections[d].raop
      BY <2>1, <3>1 DEF Connections
    <3> QED BY <2>2, <3>2, <3>3, SameTable DEF ServerInv
  <2> QED BY <1>4, <2>2, <2>3
<1>7. ASSUME NEW k \in Streams, SetupStream(c, k)
      PROVE  ServerInv'
  <2>1. /\ UNCHANGED table /\ UNCHANGED <<joined, main, httpd>>
        /\ work' = <<Job("setup", "connection", c)>> \o Rest
    BY <1>7 DEF SetupStream, server
  <2>2. TableInv' /\ Connected' = Connected
    BY <2>1, UnchangedTable DEF ServerInv
  <2> QED BY <1>4, <2>1, <2>2
<1>8. ASSUME NEW k \in Streams, TeardownStream(c, k)
      PROVE  ServerInv'
  <2>1. /\ UNCHANGED table /\ UNCHANGED <<joined, main, httpd>>
        /\ work' = Stop(k, connections[c].streams) \o Rest
    BY <1>8 DEF TeardownStream, server
  <2>2. TableInv'
    BY <2>1, UnchangedTable DEF ServerInv
  <2> QED BY <1>5, <2>1, <2>2, DestroyStops
<1>9. CASE TeardownSession(c)
  <2> DEFINE s == connections[c].streams
  <2>1. /\ connections' = [connections EXCEPT ![c].streams = None]
        /\ open_connections' = open_connections /\ UNCHANGED <<joined, main, httpd>>
        /\ work' = (Destroy("rtp", s) \o Destroy("mirror", s)) \o Rest
    BY <1>9 DEF TeardownSession, server
  <2>2. TableInv'
    <3>1. connections \in [Slots -> Connections]
      BY DEF ServerInv, TableInv
    <3>2. connections' \in [Slots -> Connections]
      BY <2>1, <3>1 DEF Connections
    <3>3. \A d \in Slots : /\ connections'[d].connected = connections[d].connected
                           /\ connections'[d].raop = connections[d].raop
      BY <2>1, <3>1 DEF Connections
    <3> QED BY <2>1, <3>2, <3>3, SameTable DEF ServerInv
  <2>3. Stops(Destroy("rtp", s) \o Destroy("mirror", s))
    BY DestroyStops, StopsConcat
  <2> QED BY <1>5, <2>1, <2>2, <2>3
<1> QED BY <1>3, <1>6, <1>7, <1>8, <1>9, SMTT(40) DEF Request

-----------------------------------------------------------------------------
\* Instead of the service being stopped its thread is to be joined.
LEMMA JoinInFront ==
  ASSUME WorkInv, Doing("stop"), work' = <<[Head(work) EXCEPT !.do = "join"]>> \o Rest
  PROVE  /\ Jobs(work') /\ Len(work) \in Nat /\ Len(work') = Len(work)
         /\ 1 \in 1 .. Len(work) /\ Head(work) = work[1]
         /\ work'[1] = Job("join", Head(work).what, Head(work).id) /\ Head(work') = work'[1]
         /\ \A i \in 1 .. Len(work) : i # 1 => work'[i] = work[i]
<1> DEFINE h == Job("join", Head(work).what, Head(work).id)
           v == <<h>>
<1>1. work # <<>> /\ Head(work).do = "stop" /\ Jobs(work)
  BY DEF Doing, WorkInv
<1>2. /\ Jobs(Rest) /\ Len(Rest) \in Nat /\ Len(Rest) = Len(work) - 1
      /\ 1 \in 1 .. Len(work) /\ Head(work) = work[1]
      /\ \A i \in 1 .. Len(Rest) : Rest[i] = work[i + 1]
  BY <1>1, Popped
<1>3. [Head(work) EXCEPT !.do = "join"] = h
  <2>1. Head(work) = Job(Head(work).do, Head(work).what, Head(work).id)
    BY <1>1, <1>2 DEF Jobs
  <2> QED BY <2>1 DEF Job
<1>4. Jobs(v) /\ Len(v) = 1 /\ v[1] = h
  BY JobsOne
<1> HIDE DEF h
<1>5. work' = v \o Rest
  BY <1>3
<1> HIDE DEF v
<1>6. /\ Jobs(v \o Rest) /\ Len(v \o Rest) = Len(v) + Len(Rest)
      /\ \A i \in 1 .. Len(v) : (v \o Rest)[i] = v[i]
      /\ \A i \in Len(v) + 1 .. Len(v) + Len(Rest) :
           i - Len(v) \in 1 .. Len(Rest) /\ (v \o Rest)[i] = Rest[i - Len(v)]
  BY <1>2, <1>4, JobsConcat
<1>7. Len(work) \in Nat /\ Len(work') = Len(work)
  <2>1. Len(work) \in Nat
    BY <1>1, JobsLen
  <2> QED BY <1>2, <1>4, <1>5, <1>6, <2>1
<1>8. work'[1] = h
  <2>1. 1 \in 1 .. Len(v)
    BY <1>4
  <2> QED BY <1>4, <1>5, <1>6, <2>1
<1>9. ASSUME NEW i \in 1 .. Len(work), i # 1
       PROVE  work'[i] = work[i]
  <2>1. /\ i \in Len(v) + 1 .. Len(v) + Len(Rest) /\ i - Len(v) = i - 1
        /\ (i - 1) + 1 = i
    BY <1>2, <1>4, <1>7, <1>9
  <2>2. i - Len(v) \in 1 .. Len(Rest) /\ work'[i] = Rest[i - Len(v)]
    BY <1>5, <1>6, <2>1
  <2> QED BY <1>2, <2>1, <2>2
<1>10. \A i \in 1 .. Len(work) : i # 1 => work'[i] = work[i]
  BY <1>9
<1>11. Jobs(work') /\ work' # <<>>
  <2>1. Jobs(work') /\ Len(work') \in Nat /\ (work' = <<>> <=> Len(work') = 0)
    BY <1>5, <1>6, JobsLen
  <2>2. Len(work') # 0
    BY <1>2, <1>7
  <2> QED BY <2>1, <2>2
<1>12. Head(work') = work'[1]
  BY <1>11, JobsLen
<1> QED BY <1>2, <1>7, <1>8, <1>10, <1>11, <1>12 DEF h

\* It still is before anything else.
LEMMA StopBecomesJoin ==
  ASSUME WorkInv, Doing("stop"), Connected' = Connected, Known' = Known,
         work' = <<[Head(work) EXCEPT !.do = "join"]>> \o Rest
  PROVE  WorkInv'
<1> DEFINE h == Job("join", Head(work).what, Head(work).id)
<1>1. /\ Jobs(work') /\ Len(work) \in Nat /\ Len(work') = Len(work)
      /\ 1 \in 1 .. Len(work) /\ Head(work) = work[1] /\ work'[1] = h
      /\ \A i \in 1 .. Len(work) : i # 1 => work'[i] = work[i]
  BY JoinInFront
<1>2. h.do = "join" /\ work[1].do = "stop"
  BY <1>1, JobFields DEF Doing
<1> HIDE DEF h
<1>3. "stop" \in Removal /\ "join" \in Removal /\ "stop" # "close" /\ "join" # "close"
       /\ "join" \notin {"request", "setup", "capture"}
  BY DEF Removal
<1>4. ASSUME NEW i \in 1 .. Len(work), NEW j \in 1 .. Len(work), i < j
       PROVE  /\ work'[j].do \in Removal \cup {"capture"} => work'[i].do \in Removal
              /\ work'[j].do \in Removal => work'[i].do # "close"
              /\ work'[j].do = "capture" /\ work'[i].do = "close" => work'[i].id \in Known'
              /\ work'[j].do \notin {"request", "setup"}
  <2>1. j # 1
    BY <1>1, <1>4
  <2>2. work'[j] = work[j]
    BY <1>1, <2>1
  <2>3. CASE i = 1
    BY <1>1, <1>2, <1>3, <1>4, <2>2, <2>3 DEF WorkInv
  <2>4. CASE i # 1
    <3>1. work'[i] = work[i]
      BY <1>1, <2>4
    <3> QED BY <1>4, <2>2, <3>1 DEF WorkInv
  <2> QED BY <2>3, <2>4
<1>5. ASSUME NEW i \in 1 .. Len(work)
       PROVE  /\ work'[i].do \in {"request", "setup"} => work'[i].id \in Connected'
              /\ work'[i].do = "close" => work'[i].id \in Connected'
              /\ work'[i].do = "capture" => work'[i].id \in (Connected \ Known)'
  <2>1. CASE i = 1
    BY <1>1, <1>2, <1>3, <2>1
  <2>2. CASE i # 1
    <3>1. work'[i] = work[i]
      BY <1>1, <2>2
    <3> QED BY <3>1 DEF WorkInv
  <2> QED BY <2>1, <2>2
<1> QED BY <1>1, <1>4, <1>5 DEF WorkInv

\* A service is stopped, joined and freed while the table stays as it is.
LEMMA ReleaseServer ==
  ASSUME ServerInv, StopService \/ JoinService \/ FreeService
  PROVE  ServerInv'
<1>1. /\ UNCHANGED table /\ UNCHANGED <<joined, main, httpd>> /\ work # <<>>
      /\ \/ work' = Rest
         \/ Doing("stop") /\ work' = <<[Head(work) EXCEPT !.do = "join"]>> \o Rest
  BY DEF StopService, JoinService, FreeService, Doing, server
<1>2. TableInv' /\ Connected' = Connected /\ Known' = Known
  BY <1>1, UnchangedTable DEF ServerInv
<1>3. WorkInv'
  BY <1>1, <1>2, PopWork, StopBecomesJoin DEF ServerInv
<1> QED BY <1>1, <1>2, <1>3, WorksOn

\* A connection is closed, which is the end of its removal.
LEMMA CloseServer ==
  ASSUME ServerInv, CloseConnection
  PROVE  ServerInv'
<1> DEFINE c == Head(work).id
<1>1. /\ work # <<>> /\ Head(work).do = "close" /\ work' = Rest
      /\ connections' = [connections EXCEPT ![c] = Closed]
      /\ open_connections' = open_connections - 1 /\ UNCHANGED <<joined, main, httpd>>
  BY DEF CloseConnection, Doing, server
<1>2. /\ Jobs(Rest) /\ Len(Rest) \in Nat /\ Len(Rest) = Len(work) - 1
      /\ 1 \in 1 .. Len(work) /\ Head(work) = work[1]
      /\ \A i \in 1 .. Len(Rest) : i + 1 \in 1 .. Len(work) /\ Rest[i] = work[i + 1]
  BY <1>1, Popped DEF ServerInv
<1>3. c \in Connected
  BY <1>1, <1>2 DEF ServerInv, WorkInv
<1>4. \A i \in 1 .. Len(Rest) :
        /\ Rest[i].do \notin Removal
        /\ Rest[i].do = "capture" => Rest[i].id \in Connected \ Known /\ c \in Known
        /\ Rest[i].do \notin {"request", "setup"}
  <2> SUFFICES ASSUME NEW i \in 1 .. Len(Rest)
               PROVE  /\ work[i + 1].do \notin Removal
                      /\ work[i + 1].do = "capture" =>
                           work[i + 1].id \in Connected \ Known /\ c \in Known
                      /\ work[i + 1].do \notin {"request", "setup"}
    BY <1>2
  <2>1. i + 1 \in 1 .. Len(work) /\ 1 < i + 1
    BY <1>2
  <2> QED BY <1>1, <1>2, <2>1 DEF ServerInv, WorkInv
<1> HIDE DEF c
<1>5. TableInv' /\ Connected' = Connected \ {c} /\ Known' = Known \ {c}
  BY <1>1, <1>3, CloseTable DEF ServerInv
<1>6. ASSUME NEW i \in 1 .. Len(Rest)
      PROVE  Rest[i].do = "capture" => Rest[i].id \in (Connected \ Known)'
  BY <1>4, <1>5
<1>7. \A i \in 1 .. Len(Rest) : i > 1 => Rest[i].do # "capture"
  <2> SUFFICES ASSUME NEW i \in 1 .. Len(Rest), i > 1, Rest[i].do = "capture"
               PROVE  FALSE
    OBVIOUS
  <2>1. /\ i + 1 \in 1 .. Len(work) /\ 2 \in 1 .. Len(work) /\ 2 < i + 1
        /\ 1 \in 1 .. Len(Rest) /\ 1 + 1 = 2
    BY <1>2
  <2>2. work[2].do \in Removal
    BY <1>2, <2>1 DEF ServerInv, WorkInv
  <2>3. Rest[1] = work[2]
    BY <1>2, <2>1
  <2> QED BY <1>4, <2>1, <2>2, <2>3
<1>8. Tame(work')
  BY <1>1, <1>2, <1>4, <1>7 DEF Tame, Single
<1>9. WorkInv'
  BY <1>1, <1>4, <1>6, <1>8, TameWork
<1> QED BY <1>1, <1>5, <1>9, WorksOn

\* The httpd thread leaves.
LEMMA ExitServer ==
  ASSUME ServerInv, ExitRemove \/ ExitClear \/ ExitReturn
  PROVE  ServerInv'
<1>1. UNCHANGED table /\ joined' = joined /\ main' = main
  BY DEF ExitRemove, ExitClear, ExitReturn, server
<1>2. TableInv' /\ Connected' = Connected /\ Known' = Known
  BY <1>1, UnchangedTable DEF ServerInv
<1>3. CASE ExitRemove
  <2> DEFINE c == Lowest(Connected)
  <2>1. /\ httpd = "exit" /\ httpd' = httpd /\ work = <<>> /\ Connected # {}
        /\ work' = Remove(c)
    BY <1>3 DEF ExitRemove
  <2>2. c \in Connected
    <3>1. Connected \subseteq Nat
      BY TableSets DEF ServerInv
    <3> QED BY <2>1, <3>1, LowestExists
  <2>3. Remove(c) = Remove(c) \o <<>>
    BY RemoveAlone
  <2> HIDE DEF c
  <2>4. Tame(<<>>) /\ \A i \in 1 .. Len(<<>>) : FALSE
    BY JobsNone DEF Tame
  <2>5. WorkInv'
    BY <1>2, <2>1, <2>2, <2>3, <2>4, PushRemove
  <2>6. ThreadInv'
    BY <1>1, <2>1, StaysUp DEF ServerInv, Up
  <2> QED BY <1>2, <2>5, <2>6 DEF ServerInv
<1>4. CASE ExitClear \/ ExitReturn
  <2>1. work = <<>> /\ work' = <<>> /\ Connected = {} /\ httpd \in {"exit", "left"}
    BY <1>4 DEF ExitClear, ExitReturn, ServerInv, ThreadInv
  <2>2. WorkInv'
    BY <2>1, NoWork
  <2>3. ThreadInv'
    BY <1>1, <1>2, <2>1 DEF ServerInv, ThreadInv
  <2> QED BY <1>2, <2>2, <2>3 DEF ServerInv
<1> QED BY <1>3, <1>4

\* All steps of the httpd thread.
LEMMA HttpdServer ==
  ASSUME ServerInv, Httpd
  PROVE  ServerInv'
<1>1. ASSUME NEW c \in Slots,
             \/ RecvNothing(c) \/ RecvEnd(c) \/ RecvRequest(c)
             \/ RecvRejected(c) \/ RecvCapture(c)
             \/ CaptureRemove(c) \/ CaptureDone(c)
             \/ Request(c)
      PROVE  ServerInv'
  BY <1>1, RecvServer, RequestServer
<1> QED BY <1>1, SelectServer, AcceptServer, ReleaseServer, CloseServer, ExitServer DEF Httpd

-----------------------------------------------------------------------------
\* The other threads leave the table and the work alone, and join the httpd thread
\* only when it has returned.
LEMMA ElseServer ==
  ASSUME ServerInv, UNCHANGED <<table, work>>, httpd' \in {httpd, "loop"},
         joined' \/ main' = "gone" => httpd' = "none"
  PROVE  ServerInv'
<1>1. TableInv' /\ Connected' = Connected /\ Known' = Known
  BY UnchangedTable DEF ServerInv
<1>2. WorkInv'
  BY <1>1 DEF ServerInv, WorkInv, Jobs
<1>3. ThreadInv'
  BY <1>1 DEF ServerInv, ThreadInv
<1> QED BY <1>1, <1>2, <1>3 DEF ServerInv

\* Where everything is gone no work is left.
LEMMA CrashServer ==
  ASSUME Crash
  PROVE  ServerInv'
<1>1. TableInv' /\ Connected' = {} /\ WorkInv'
  BY EmptyTable, NoWork DEF Crash
<1>2. ThreadInv'
  BY <1>1 DEF Crash, ThreadInv
<1> QED BY <1>1, <1>2 DEF ServerInv

\* A service joins the httpd thread when that has returned.
LEMMA ServiceServer ==
  ASSUME ServerInv, NEW k \in Kinds, NEW s \in Sessions, Service(k, s)
  PROVE  ServerInv'
<1>1. joined \/ main = "gone" => httpd = "none"
  BY DEF ServerInv, ThreadInv
<1>2. CASE ServiceLeave(k, s) \/ ServiceClear(k, s) \/ ServiceReturn(k, s) \/ ConnResetFlag(k, s)
  BY <1>1, <1>2, ElseServer
     DEF ServiceLeave, ServiceClear, ServiceReturn, ConnResetFlag, server, table
<1>3. CASE ConnReset(k, s)
  BY <1>1, <1>3, ElseServer DEF ConnReset
<1>4. CASE ConnResetAsserts(k, s)
  BY <1>4, CrashServer DEF ConnResetAsserts
<1>5. CASE ConnResetJoin(k, s)
  BY <1>5, ElseServer DEF ConnResetJoin
<1> QED BY <1>2, <1>3, <1>4, <1>5 DEF Service, ServiceProceed

\* So does the main loop, which starts it again only then.
LEMMA MainServer ==
  ASSUME ServerInv, MainProceed \/ Quit
  PROVE  ServerInv'
<1>1. joined \/ main = "gone" => httpd = "none"
  BY DEF ServerInv, ThreadInv
<1>2. CASE Start \/ Relaunch
  <2>1. UNCHANGED <<table, work>> /\ HttpdStart /\ main' = "enter"
    BY <1>2 DEF Start, Relaunch, GoTo
  <2>2. httpd' \in {httpd, "loop"} /\ (joined' => httpd' = "none")
    <3>1. CASE ~running /\ joined
      BY <1>1, <2>1, <3>1 DEF HttpdStart
    <3>2. CASE ~(~running /\ joined)
      BY <1>1, <2>1, <3>2 DEF HttpdStart, server
    <3> QED BY <3>1, <3>2
  <2> QED BY <2>1, <2>2, ElseServer
<1>3. CASE Enter \/ Quit \/ Reset \/ StopForRelaunch \/ DestroyStop
  <2>1. /\ UNCHANGED <<table, work>> /\ httpd' = httpd /\ joined' = joined
        /\ main' \in {"loop", "quit", "relaunch", "join", "destroy join", "destroy"}
    BY <1>3 DEF Enter, Quit, Reset, StopForRelaunch, DestroyStop, GoTo, server
  <2> QED BY <1>1, <2>1, ElseServer
<1>4. CASE JoinForRelaunch \/ DestroyJoin \/ DestroyFree
  <2>1. UNCHANGED <<table, work>> /\ httpd' = httpd /\ httpd = "none"
    BY <1>4 DEF JoinForRelaunch, DestroyJoin, DestroyFree
  <2> QED BY <2>1, ElseServer
<1>5. CASE Restart
  <2>1. UNCHANGED <<table, work>> /\ httpd' = httpd /\ main = "gone"
    BY <1>5 DEF Restart, GoTo
  <2> QED BY <1>1, <2>1, ElseServer
<1>6. CASE DestroyUsed
  BY <1>6, CrashServer DEF DestroyUsed
<1> QED BY <1>2, <1>3, <1>4, <1>5, <1>6 DEF MainProceed

\* No thread, no connection, no work at the start.
LEMMA InitServer == Init => ServerInv
<1> SUFFICES ASSUME Init PROVE ServerInv
  OBVIOUS
<1>1. /\ connections \in [Slots -> Connections]
      /\ \A c \in Slots : ~connections[c].connected /\ ~connections[c].raop
  BY DEF Init, Connections, Closed
<1>2. Connected = {} /\ Known = {}
  BY <1>1 DEF Connected, Known
<1>3. TableInv
  BY <1>1, <1>2, FS_EmptySet DEF Init, TableInv, OneClient
<1>4. work = <<>> /\ httpd = "none"
  BY DEF Init
<1>5. \A i \in 1 .. Len(work) : FALSE
  BY <1>4, JobsNone
<1>6. WorkInv
  BY <1>4, <1>5, JobsNone DEF WorkInv
<1> QED BY <1>2, <1>3, <1>4, <1>6 DEF ServerInv, ThreadInv

\* Every step keeps the invariant.
LEMMA StepServer == ServerInv /\ [Next]_vars => ServerInv'
<1> SUFFICES ASSUME ServerInv, [Next]_vars PROVE ServerInv'
  OBVIOUS
<1>1. CASE Next
  BY <1>1, HttpdServer, MainServer, ServiceServer DEF Next
<1>2. CASE UNCHANGED vars
  BY <1>2, ElseServer DEF vars, server, ServerInv, ThreadInv
<1> QED BY <1>1, <1>2

\* The invariant holds of every behaviour.
LEMMA ServerAlways == Spec => []ServerInv
  BY InitServer, StepServer, PTL DEF Spec

\* The receiver serves one client, also when a new one captures it while the
\* removal of the old one's connection still waits for its services
\* (httpd_remove_known_connections).
THEOREM OneClientAlways == Spec => []OneClient
<1>1. ServerInv => OneClient
  BY DEF ServerInv, TableInv
<1> QED BY <1>1, ServerAlways, PTL

\* Whoever stops the server, when it is marked as joined its thread has returned,
\* and has closed every connection and ended every request before (httpd_stop and
\* the end of httpd_thread).
THEOREM StoppedAlways == Spec => []StoppedMeansStopped
<1>1. ServerInv => StoppedMeansStopped
  <2> SUFFICES ASSUME ServerInv, joined
               PROVE  httpd = "none" /\ Connected = {} /\ open_connections = 0 /\ work = <<>>
    BY DEF StoppedMeansStopped
  <2>1. httpd = "none" /\ work = <<>> /\ Connected = {}
    BY DEF ServerInv, ThreadInv
  <2>2. open_connections = 0
    BY <2>1, FS_EmptySet DEF ServerInv, TableInv
  <2> QED BY <2>1, <2>2
<1> QED BY <1>1, ServerAlways, PTL

\* The count of open connections by which httpd_thread watches its listening
\* sockets and the flags by which httpd_add_connection seeks a place agree.
THEOREM RoomAlways == Spec => []RoomWhenAccepting
<1>1. ServerInv => RoomWhenAccepting
  <2> SUFFICES ASSUME ServerInv, open_connections < MAX_CONNECTIONS, Connected = Slots
               PROVE  FALSE
    BY DEF RoomWhenAccepting
  <2>1. MAX_CONNECTIONS \in Nat
    BY SessionAssumption
  <2>2. Cardinality(Slots) = MAX_CONNECTIONS
    BY <2>1, FS_Interval DEF Slots
  <2>3. open_connections = Cardinality(Slots)
    BY DEF ServerInv, TableInv
  <2> QED BY <2>1, <2>2, <2>3
<1> QED BY <1>1, ServerAlways, PTL
-----------------------------------------------------------------------------
(* The clock outlives those who read it.                                   *)

Loops(k, s) == svc[<<k, s>>].at = "loop"

\* Before the i-th of the jobs the thread stops the service, or waits for it to end.
StopAhead(w, k, s, i) ==
  \E j \in 1 .. i - 1 : w[j].do \in {"stop", "join"} /\ w[j].what = k /\ w[j].id = s

\* The connection is closed by the i-th job or behind it.
Closing(w, c, i) ==
  \E j \in i .. Len(w) : w[j].do = "close" /\ w[j].id = c

\* A connection points to one session, and no other points to it.
PointerInv ==
  /\ \A c \in Slots : connections[c].streams \in {None, connections[c].timing}
  /\ \A c, d \in Slots : connections[c].timing # None /\ c # d =>
       connections[c].timing # connections[d].timing

\* What a connection points to is there, unless the connection is being closed.
\* A stream it has let go is on its way to be stopped.
OwnedInv ==
  \A c \in Slots : LET t == connections[c].timing
                   IN  t # None =>
                         /\ svc[<<"ntp", t>>].live \/ Closing(work, c, 1)
                         /\ \A k \in Streams : Loops(k, t) =>
                              connections[c].streams = t \/ StopAhead(work, k, t, Len(work) + 1)

\* Only the thread that is being joined runs on after it was told to stop.
ToldInv ==
  \A k \in Streams, s \in Sessions :
    Loops(k, s) /\ ~svc[<<k, s>>].running => Doing("join") /\ Target = <<k, s>>

\* A stream is stopped before it is freed and before its clock is; a clock is
\* freed to close the connection that points to it.
FreeInv ==
  \A i \in 1 .. Len(work) : work[i].do = "free" =>
    /\ \A k \in Streams, s \in Sessions :
         work[i].what \in {k, "ntp"} /\ work[i].id = s /\ Loops(k, s) => StopAhead(work, k, s, i)
    /\ work[i].what = "ntp" =>
         \E c \in Slots : connections[c].timing = work[i].id /\ Closing(work, c, i + 1)

ClockInv == PointerInv /\ ClockOutlivesUsers /\ OwnedInv /\ ToldInv /\ FreeInv

\* Without removals ahead all is settled: what is pointed to is there, and runs.
Calm(w) == \A i \in 1 .. Len(w) : w[i].do \notin Removal

CalmInv ==
  /\ PointerInv /\ ClockOutlivesUsers
  /\ \A c \in Slots : LET t == connections[c].timing
                      IN  t # None =>
                            /\ svc[<<"ntp", t>>].live
                            /\ \A k \in Streams : Loops(k, t) => connections[c].streams = t
  /\ \A k \in Streams, s \in Sessions : Loops(k, s) => svc[<<k, s>>].running

\* What the invariant says where no removal is ahead.
LEMMA ToCalm ==
  ASSUME ClockInv, Jobs(work), Calm(work)
  PROVE  CalmInv
<1>1. Len(work) \in Nat /\ (work # <<>> => Head(work) = work[1] /\ 1 \in 1 .. Len(work))
  BY JobsLen
<1>2. ~Doing("join")
  BY <1>1 DEF Doing, Calm, Removal
<1>3. ASSUME NEW c \in Slots, NEW k, NEW s
      PROVE  ~Closing(work, c, 1) /\ ~StopAhead(work, k, s, Len(work) + 1)
  <2>1. 1 .. (Len(work) + 1) - 1 = 1 .. Len(work)
    BY <1>1
  <2> QED BY <2>1 DEF Closing, StopAhead, Calm, Removal
<1>4. ASSUME NEW c \in Slots, connections[c].timing # None
      PROVE  /\ svc[<<"ntp", connections[c].timing>>].live
             /\ \A k \in Streams : Loops(k, connections[c].timing) =>
                  connections[c].streams = connections[c].timing
  BY <1>3, <1>4 DEF ClockInv, OwnedInv
<1>5. ASSUME NEW k \in Streams, NEW s \in Sessions, Loops(k, s)
      PROVE  svc[<<k, s>>].running
  BY <1>2, <1>5 DEF ClockInv, ToldInv
<1> QED BY <1>4, <1>5 DEF ClockInv, CalmInv

\* It says no more than that.
LEMMA FromCalm ==
  ASSUME CalmInv', Calm(work')
  PROVE  ClockInv'
<1>1. OwnedInv'
  BY DEF CalmInv, OwnedInv
<1>2. ToldInv'
  BY DEF CalmInv, ToldInv
<1>3. FreeInv'
  BY DEF Calm, FreeInv, Removal
<1> QED BY <1>1, <1>2, <1>3 DEF CalmInv, ClockInv

\* A step that leaves services and pointers alone.
LEMMA KeepCalm ==
  ASSUME CalmInv, svc' = svc,
         \A c \in Slots : /\ connections'[c].timing = connections[c].timing
                          /\ connections'[c].streams = connections[c].streams
  PROVE  CalmInv'
<1>1. PointerInv'
  BY DEF CalmInv, PointerInv
<1>2. ClockOutlivesUsers'
  BY DEF CalmInv, ClockOutlivesUsers
<1> QED BY <1>1, <1>2 DEF CalmInv, Loops

\* No job is a removal, if those there are and the new one are none.
LEMMA CalmOne ==
  ASSUME NEW w, Jobs(w), Calm(w), NEW do, do \notin Removal, NEW what, NEW id
  PROVE  Calm(<<Job(do, what, id)>> \o w)
<1> DEFINE v == <<Job(do, what, id)>>
<1>1. Jobs(v) /\ Len(v) = 1 /\ v[1].do = do
  BY JobsOne, JobFields
<1> HIDE DEF v
<1>2. /\ Len(v \o w) = Len(v) + Len(w) /\ \A i \in 1 .. Len(v) : (v \o w)[i] = v[i]
      /\ \A i \in Len(v) + 1 .. Len(v) + Len(w) :
           i - Len(v) \in 1 .. Len(w) /\ (v \o w)[i] = w[i - Len(v)]
  BY <1>1, JobsConcat
<1>3. \A i \in 1 .. Len(v \o w) : (i = 1 /\ i \in 1 .. Len(v)) \/ i \in Len(v) + 1 .. Len(v) + Len(w)
  <2>1. Len(w) \in Nat
    BY JobsLen
  <2> QED BY <1>1, <1>2, <2>1
<1>4. Calm(v \o w)
  BY <1>1, <1>2, <1>3 DEF Calm
<1> QED BY <1>4 DEF v

\* Behind a job that is no removal there is none.
LEMMA CalmWork ==
  ASSUME ServerInv, work # <<>>, Head(work).do \notin Removal
  PROVE  Jobs(work) /\ Jobs(Rest) /\ Calm(work) /\ Calm(Rest)
  BY Popped DEF ServerInv, Tame, Calm, WorkInv

\* Nor is there any in no work.
LEMMA NoneCalm == Calm(<<>>)
  BY JobsNone DEF Calm

-----------------------------------------------------------------------------
\* What is destroyed is stopped first.
Guarded(v) ==
  /\ Jobs(v)
  /\ \A i \in 1 .. Len(v) : v[i].do = "free" =>
       \E j \in 1 .. i - 1 : v[j].do = "stop" /\ v[j].what = v[i].what /\ v[j].id = v[i].id

\* What the two streams of a session leave to be done.
DestroyStreams(s) == Destroy("rtp", s) \o Destroy("mirror", s)

\* A service is stopped, then freed, if there is one.
LEMMA DestroyShape ==
  ASSUME NEW k, NEW s
  PROVE  /\ Jobs(Destroy(k, s)) /\ Len(Destroy(k, s)) \in Nat
         /\ \A i \in 1 .. Len(Destroy(k, s)) :
              /\ Destroy(k, s)[i].what = k /\ Destroy(k, s)[i].id = s /\ s # None
              /\ Destroy(k, s)[i].do \in {"stop", "free"}
              /\ Destroy(k, s)[i].do = "free" => 1 \in 1 .. i - 1
              /\ Destroy(k, s)[1].do = "stop"
         /\ s # None /\ k \in Kinds => 1 \in 1 .. Len(Destroy(k, s))
<1>1. CASE s = None \/ k \notin Kinds
  BY <1>1, JobsNone DEF Destroy
<1>2. CASE ~(s = None \/ k \notin Kinds)
  <2> DEFINE v == <<Job("stop", k, s), Job("free", k, s)>>
  <2>1. Destroy(k, s) = v
    BY <1>2 DEF Destroy
  <2>2. Jobs(Destroy(k, s))
    BY DestroyStops DEF Stops
  <2>3. Len(v) = 2 /\ v[1] = Job("stop", k, s) /\ v[2] = Job("free", k, s)
    OBVIOUS
  <2> HIDE DEF v
  <2>4. \A i \in 1 .. 2 : i = 1 \/ i = 2
    OBVIOUS
  <2> QED BY <1>2, <2>1, <2>2, <2>3, <2>4, JobFields
<1> QED BY <1>1, <1>2

\* So it is guarded.
LEMMA DestroyGuarded ==
  ASSUME NEW k, NEW s
  PROVE  Guarded(Destroy(k, s))
<1> DEFINE v == Destroy(k, s)
<1>1. Jobs(v)
  BY DestroyShape
<1>2. ASSUME NEW i \in 1 .. Len(v), v[i].do = "free"
      PROVE  \E j \in 1 .. i - 1 : v[j].do = "stop" /\ v[j].what = v[i].what /\ v[j].id = v[i].id
  <2>1. 1 \in 1 .. i - 1 /\ 1 \in 1 .. Len(v)
    <3>1. Len(v) \in Nat /\ 1 \in 1 .. i - 1
      BY <1>2, DestroyShape
    <3> QED BY <3>1
  <2>2. v[1].do = "stop" /\ v[1].what = v[i].what /\ v[1].id = v[i].id
    BY <1>2, <2>1, DestroyShape
  <2> QED BY <2>1, <2>2
<1> QED BY <1>1, <1>2 DEF Guarded

\* Guarded jobs in front of guarded ones are guarded.
LEMMA GuardedConcat ==
  ASSUME NEW v, NEW w, Guarded(v), Guarded(w)
  PROVE  Guarded(v \o w)
<1>1. /\ Jobs(v \o w) /\ Len(v \o w) = Len(v) + Len(w)
      /\ \A i \in 1 .. Len(v) : (v \o w)[i] = v[i]
      /\ \A i \in Len(v) + 1 .. Len(v) + Len(w) :
           i - Len(v) \in 1 .. Len(w) /\ (v \o w)[i] = w[i - Len(v)]
      /\ Len(v) \in Nat /\ Len(w) \in Nat
  BY JobsConcat, JobsLen DEF Guarded
<1> SUFFICES ASSUME NEW i \in 1 .. Len(v \o w), (v \o w)[i].do = "free"
             PROVE  \E j \in 1 .. i - 1 : /\ (v \o w)[j].do = "stop"
                                          /\ (v \o w)[j].what = (v \o w)[i].what
                                          /\ (v \o w)[j].id = (v \o w)[i].id
  BY <1>1 DEF Guarded
<1>2. CASE i \in 1 .. Len(v)
  <2>1. PICK j \in 1 .. i - 1 : v[j].do = "stop" /\ v[j].what = v[i].what /\ v[j].id = v[i].id
    BY <1>1, <1>2 DEF Guarded
  <2>2. j \in 1 .. Len(v)
    BY <1>1, <1>2
  <2> QED BY <1>1, <1>2, <2>1, <2>2
<1>3. CASE i \in Len(v) + 1 .. Len(v) + Len(w)
  <2> DEFINE m == i - Len(v)
  <2>1. m \in 1 .. Len(w) /\ (v \o w)[i] = w[m]
    BY <1>1, <1>3
  <2>2. PICK j \in 1 .. m - 1 : w[j].do = "stop" /\ w[j].what = w[m].what /\ w[j].id = w[m].id
    BY <2>1 DEF Guarded
  <2>3. /\ j + Len(v) \in Len(v) + 1 .. Len(v) + Len(w) /\ j + Len(v) \in 1 .. i - 1
        /\ (j + Len(v)) - Len(v) = j
    BY <1>1, <1>3, <2>1, <2>2, SMTT(40)
  <2>4. (v \o w)[j + Len(v)] = w[j]
    BY <1>1, <2>3
  <2> QED BY <2>1, <2>2, <2>3, <2>4
<1>4. Len(v) \in Nat /\ Len(w) \in Nat /\ i \in 1 .. Len(v) + Len(w)
  BY <1>1
<1>5. i \in 1 .. Len(v) \/ i \in Len(v) + 1 .. Len(v) + Len(w)
  BY <1>4
<1> QED BY <1>2, <1>3, <1>5

\* Both streams are stopped, whichever there are.
LEMMA StreamsStopped ==
  ASSUME NEW s
  PROVE  LET v == DestroyStreams(s)
         IN  /\ Guarded(v) /\ Len(v) \in Nat
             /\ \A i \in 1 .. Len(v) : v[i].what \in {"rtp", "mirror"} /\ v[i].id = s
                                        /\ v[i].do \in {"stop", "free"}
             /\ s # None => \A k \in Streams : \E j \in 1 .. Len(v) :
                              v[j].do = "stop" /\ v[j].what = k /\ v[j].id = s
<1> DEFINE a == Destroy("rtp", s)
           b == Destroy("mirror", s)
           v == a \o b
<1>1. Guarded(a) /\ Guarded(b)
  BY DestroyGuarded
<1>2. /\ Len(v) = Len(a) + Len(b) /\ Len(a) \in Nat /\ Len(b) \in Nat
      /\ \A i \in 1 .. Len(a) : v[i] = a[i]
      /\ \A i \in Len(a) + 1 .. Len(a) + Len(b) : i - Len(a) \in 1 .. Len(b) /\ v[i] = b[i - Len(a)]
  BY <1>1, JobsConcat, JobsLen DEF Guarded
<1>3. /\ \A i \in 1 .. Len(a) : a[i].what = "rtp" /\ a[i].id = s /\ a[i].do \in {"stop", "free"}
                                 /\ a[1].do = "stop"
      /\ \A i \in 1 .. Len(b) : b[i].what = "mirror" /\ b[i].id = s /\ b[i].do \in {"stop", "free"}
                                 /\ b[1].do = "stop"
      /\ s # None /\ "rtp" \in Kinds => 1 \in 1 .. Len(a)
      /\ s # None /\ "mirror" \in Kinds => 1 \in 1 .. Len(b)
  BY DestroyShape
<1>4. Guarded(v)
  BY <1>1, GuardedConcat
<1> HIDE DEF a, b, v
<1>5. \A i \in 1 .. Len(v) : i \in 1 .. Len(a) \/ i \in Len(a) + 1 .. Len(a) + Len(b)
  BY <1>2
<1>6. \A i \in 1 .. Len(v) : v[i].what \in {"rtp", "mirror"} /\ v[i].id = s
                              /\ v[i].do \in {"stop", "free"}
  BY <1>2, <1>3, <1>5
<1>7. ASSUME s # None, NEW k \in Streams
      PROVE  \E j \in 1 .. Len(v) : v[j].do = "stop" /\ v[j].what = k /\ v[j].id = s
  <2>1. k \in Kinds /\ (k = "rtp" \/ k = "mirror")
    BY SessionAssumption DEF Kinds
  <2>2. CASE k = "rtp"
    <3>1. 1 \in 1 .. Len(a) /\ 1 \in 1 .. Len(v)
      <4>1. 1 \in 1 .. Len(a)
        BY <1>3, <1>7, <2>1, <2>2
      <4> QED BY <1>2, <4>1
    <3>2. v[1] = a[1]
      BY <1>2, <3>1
    <3> QED BY <1>3, <2>2, <3>1, <3>2
  <2>3. CASE k = "mirror"
    <3>1. 1 \in 1 .. Len(b)
      BY <1>3, <1>7, <2>1, <2>3
    <3>2. /\ Len(a) + 1 \in Len(a) + 1 .. Len(a) + Len(b) /\ Len(a) + 1 \in 1 .. Len(v)
          /\ (Len(a) + 1) - Len(a) = 1
      BY <1>2, <3>1
    <3>3. v[Len(a) + 1] = b[1]
      BY <1>2, <3>2
    <3> QED BY <1>3, <2>3, <3>1, <3>2, <3>3
  <2> QED BY <2>1, <2>2, <2>3
<1>8. Len(v) \in Nat
  BY <1>2
<1> QED BY <1>4, <1>6, <1>7, <1>8 DEF DestroyStreams, v, a, b

-----------------------------------------------------------------------------
\* Jobs are pushed that free nothing but what they stop, no clock among it.
LEMMA PushGuarded ==
  ASSUME NEW v, Guarded(v), NEW w, Jobs(w), Calm(w), work' = v \o w
  PROVE  /\ Len(work') \in Nat /\ Len(work') = Len(v) + Len(w) /\ Len(v) \in Nat
         /\ \A i \in 1 .. Len(v) : work'[i] = v[i]
         /\ \A i \in 1 .. Len(work') : i \in 1 .. Len(v) \/ work'[i].do \notin Removal
         /\ \A i \in 1 .. Len(v) : v[i].do = "free" => StopAhead(work', v[i].what, v[i].id, i)
<1>1. /\ Len(work') = Len(v) + Len(w) /\ Len(v) \in Nat /\ Len(w) \in Nat
      /\ \A i \in 1 .. Len(v) : work'[i] = v[i]
      /\ \A i \in Len(v) + 1 .. Len(v) + Len(w) :
           i - Len(v) \in 1 .. Len(w) /\ work'[i] = w[i - Len(v)]
  BY JobsConcat, JobsLen DEF Guarded
<1>2. \A i \in 1 .. Len(work') : i \in 1 .. Len(v) \/ i \in Len(v) + 1 .. Len(v) + Len(w)
  BY <1>1
<1>3. \A i \in 1 .. Len(work') : i \in 1 .. Len(v) \/ work'[i].do \notin Removal
  BY <1>1, <1>2 DEF Calm
<1>4. ASSUME NEW i \in 1 .. Len(v), v[i].do = "free"
      PROVE  StopAhead(work', v[i].what, v[i].id, i)
  <2>1. PICK j \in 1 .. i - 1 : v[j].do = "stop" /\ v[j].what = v[i].what /\ v[j].id = v[i].id
    BY <1>4 DEF Guarded
  <2>2. j \in 1 .. Len(v)
    BY <1>1, <2>1
  <2> QED BY <1>1, <2>1, <2>2 DEF StopAhead
<1>5. Len(work') \in Nat
  BY <1>1
<1> QED BY <1>1, <1>3, <1>4, <1>5

\* A connection is to be removed.
LEMMA RemoveClock ==
  ASSUME CalmInv, TableInv, NEW c \in Slots, NEW w, Jobs(w), Calm(w),
         work' = Remove(c) \o w, svc' = svc, connections' = connections
  PROVE  ClockInv'
<1>0. PICK s, t : s = connections[c].streams /\ t = connections[c].timing
  OBVIOUS
<1> DEFINE a == DestroyStreams(s)
           b == Destroy("ntp", t)
           z == <<Job("close", "connection", c)>>
           ab == a \o b
           v == ab \o z
<1>1. /\ s \in {None, t} /\ t \in {None} \cup Sessions
  BY <1>0 DEF CalmInv, PointerInv, TableInv, Connections
<1>2. Guarded(a) /\ Guarded(b) /\ Guarded(z)
      /\ Len(z) = 1 /\ z[1].do = "close" /\ z[1].id = c
  <2>1. Len(z) = 1 /\ z[1].do = "close" /\ z[1].id = c /\ Jobs(z)
    BY JobFields, JobsOne
  <2>2. \A i \in 1 .. Len(z) : i = 1
    BY <2>1
  <2> HIDE DEF z
  <2>3. Guarded(z)
    BY <2>1, <2>2 DEF Guarded
  <2> QED BY <2>1, <2>3, StreamsStopped, DestroyGuarded
<1>3. /\ Len(a) \in Nat
      /\ \A i \in 1 .. Len(a) : a[i].what \in {"rtp", "mirror"} /\ a[i].do \in {"stop", "free"}
      /\ s # None => \A k \in Streams : \E j \in 1 .. Len(a) :
                       a[j].do = "stop" /\ a[j].what = k /\ a[j].id = s
  BY StreamsStopped
<1>4. \A i \in 1 .. Len(b) : b[i].what = "ntp" /\ b[i].id = t /\ t # None
  BY DestroyShape
<1>5. work' = v \o w
  BY <1>0 DEF Remove, DestroyStreams
<1> HIDE DEF a, b, z
<1>6. /\ Guarded(ab) /\ Len(ab) = Len(a) + Len(b) /\ Len(b) \in Nat
      /\ \A i \in 1 .. Len(a) : ab[i] = a[i]
      /\ \A i \in Len(a) + 1 .. Len(a) + Len(b) :
           i - Len(a) \in 1 .. Len(b) /\ ab[i] = b[i - Len(a)]
  <2>1. Jobs(a) /\ Jobs(b)
    BY <1>2 DEF Guarded
  <2>2. Guarded(ab)
    BY <1>2, GuardedConcat
  <2> QED BY <2>1, <2>2, JobsConcat, JobsLen
<1> HIDE DEF ab
<1>7. /\ Guarded(v) /\ Len(v) = Len(ab) + 1
      /\ \A i \in 1 .. Len(ab) : v[i] = ab[i]
      /\ v[Len(ab) + 1] = z[1]
  <2>1. /\ Guarded(v) /\ Len(v) = Len(ab) + Len(z)
        /\ \A i \in 1 .. Len(ab) : v[i] = ab[i]
        /\ \A i \in Len(ab) + 1 .. Len(ab) + Len(z) : v[i] = z[i - Len(ab)]
    <3>1. Jobs(ab) /\ Jobs(z)
      BY <1>2, <1>6 DEF Guarded
    <3>2. Guarded(v)
      BY <1>2, <1>6, GuardedConcat
    <3> QED BY <3>1, <3>2, JobsConcat
  <2>2. /\ Len(ab) + 1 \in Len(ab) + 1 .. Len(ab) + Len(z)
        /\ (Len(ab) + 1) - Len(ab) = 1
    BY <1>2, <1>3, <1>6
  <2> QED BY <1>2, <2>1, <2>2
<1> HIDE DEF v
<1>8. /\ Len(work') \in Nat /\ Len(work') = Len(v) + Len(w) /\ Len(v) \in Nat
      /\ \A i \in 1 .. Len(v) : work'[i] = v[i]
      /\ \A i \in 1 .. Len(work') : i \in 1 .. Len(v) \/ work'[i].do \notin Removal
      /\ \A i \in 1 .. Len(v) : v[i].do = "free" => StopAhead(work', v[i].what, v[i].id, i)
  BY <1>2, <1>5, <1>7, PushGuarded
<1>9. FreeInv'
  <2> SUFFICES ASSUME NEW i \in 1 .. Len(work'), work'[i].do = "free"
               PROVE  /\ \A k \in Streams, r \in Sessions :
                           work'[i].what \in {k, "ntp"} /\ work'[i].id = r /\ Loops(k, r)' =>
                             StopAhead(work', k, r, i)
                      /\ work'[i].what = "ntp" =>
                           \E d \in Slots : connections'[d].timing = work'[i].id /\ Closing(work', d, i + 1)
    BY DEF FreeInv
  <2>1. i \in 1 .. Len(v) /\ work'[i] = v[i] /\ StopAhead(work', v[i].what, v[i].id, i)
    BY <1>8 DEF Removal
  <2>2. i # Len(ab) + 1
    BY <1>2, <1>7, <2>1
  <2>3. i \in 1 .. Len(ab) /\ work'[i] = ab[i]
    <3>1. i \in 1 .. Len(ab)
      BY <1>3, <1>6, <1>7, <2>1, <2>2
    <3> QED BY <1>7, <2>1, <3>1
  <2>4. CASE i \in 1 .. Len(a)
    <3>1. work'[i].what \in {"rtp", "mirror"}
      BY <1>3, <1>6, <2>3, <2>4, ZenonT(60)
    <3>2. work'[i].what # "ntp" /\ StopAhead(work', work'[i].what, work'[i].id, i)
      BY <2>1, <3>1
    <3> QED BY <3>2
  <2>5. CASE i \notin 1 .. Len(a)
    <3>1. i \in Len(a) + 1 .. Len(a) + Len(b)
      BY <1>3, <1>6, <2>3, <2>5
    <3>2. work'[i].what = "ntp" /\ work'[i].id = t /\ t # None
      BY <1>4, <1>6, <2>3, <3>1
    <3>3. ASSUME NEW k \in Streams, Loops(k, t)
          PROVE  StopAhead(work', k, t, i)
      <4>1. s = t
        BY <1>0, <3>2, <3>3 DEF CalmInv
      <4>2. PICK j \in 1 .. Len(a) : a[j].do = "stop" /\ a[j].what = k /\ a[j].id = s
        BY <1>3, <3>2, <4>1
      <4>3. j \in 1 .. i - 1 /\ j \in 1 .. Len(ab) /\ j \in 1 .. Len(v)
        BY <1>3, <1>6, <1>7, <3>1
      <4>4. work'[j] = a[j]
        BY <1>6, <1>7, <1>8, <4>3
      <4> QED BY <4>1, <4>2, <4>3, <4>4 DEF StopAhead
    <3>4. Closing(work', c, i + 1)
      <4>1. Len(v) \in i + 1 .. Len(work') /\ Len(v) \in 1 .. Len(v) /\ Len(v) = Len(ab) + 1
        <5>1. Len(w) \in Nat
          BY JobsLen
        <5> QED BY <1>3, <1>6, <1>7, <1>8, <2>3, <5>1
      <4>2. work'[Len(v)] = z[1]
        BY <1>7, <1>8, <4>1
      <4> QED BY <1>2, <4>1, <4>2 DEF Closing
    <3>5. connections'[c].timing = t
      BY <1>0
    <3>6. ASSUME NEW k \in Streams PROVE Loops(k, t)' <=> Loops(k, t)
      BY DEF Loops
    <3> QED BY <3>2, <3>3, <3>4, <3>5, <3>6
  <2> QED BY <2>4, <2>5
<1>10. CalmInv'
  BY KeepCalm
<1>11. OwnedInv'
  BY <1>10 DEF CalmInv, OwnedInv
<1>12. ToldInv'
  BY <1>10 DEF CalmInv, ToldInv
<1> QED BY <1>9, <1>10, <1>11, <1>12 DEF CalmInv, ClockInv

\* The streams of a connection are to be stopped and freed, its clock is not.
LEMMA LetGoClock ==
  ASSUME CalmInv, TableInv, NEW c \in Slots, NEW w, Jobs(w), Calm(w),
         work' = DestroyStreams(connections[c].streams) \o w, svc' = svc,
         connections' = [connections EXCEPT ![c].streams = None]
  PROVE  ClockInv'
<1>0. PICK s : s = connections[c].streams
  OBVIOUS
<1> DEFINE v == DestroyStreams(s)
<1>1. /\ Guarded(v) /\ Len(v) \in Nat
      /\ \A i \in 1 .. Len(v) : v[i].what \in {"rtp", "mirror"}
      /\ s # None => \A k \in Streams : \E j \in 1 .. Len(v) :
                       v[j].do = "stop" /\ v[j].what = k /\ v[j].id = s
  BY StreamsStopped
<1> HIDE DEF v
<1>2. /\ Len(work') \in Nat /\ Len(work') = Len(v) + Len(w) /\ Len(v) \in Nat
      /\ \A i \in 1 .. Len(v) : work'[i] = v[i]
      /\ \A i \in 1 .. Len(work') : i \in 1 .. Len(v) \/ work'[i].do \notin Removal
      /\ \A i \in 1 .. Len(v) : v[i].do = "free" => StopAhead(work', v[i].what, v[i].id, i)
  <2>1. work' = v \o w
    BY <1>0 DEF v
  <2> QED BY <1>1, <2>1, PushGuarded
<1>3. /\ \A d \in Slots : connections'[d].timing = connections[d].timing
      /\ \A d \in Slots \ {c} : connections'[d].streams = connections[d].streams
      /\ connections'[c].streams = None
  BY DEF TableInv, Connections
<1>4. PointerInv'
  <2>1. \A d \in Slots : connections'[d].streams \in {None, connections[d].streams}
    BY <1>3
  <2> QED BY <1>3, <2>1 DEF CalmInv, PointerInv
<1>5. ClockOutlivesUsers'
  BY DEF CalmInv, ClockOutlivesUsers
<1>6. ToldInv'
  BY DEF CalmInv, ToldInv, Loops
<1>7. FreeInv'
  <2> SUFFICES ASSUME NEW i \in 1 .. Len(work'), work'[i].do = "free"
               PROVE  work'[i].what \in {"rtp", "mirror"} /\ StopAhead(work', work'[i].what, work'[i].id, i)
    BY DEF FreeInv
  <2> QED BY <1>1, <1>2, SMTT(40) DEF Removal
<1>8. OwnedInv'
  <2> SUFFICES ASSUME NEW d \in Slots, NEW t, t = connections[d].timing, t # None
               PROVE  /\ svc'[<<"ntp", t>>].live
                      /\ \A k \in Streams : Loops(k, t)' =>
                           connections'[d].streams = t \/ StopAhead(work', k, t, Len(work') + 1)
    BY <1>3 DEF OwnedInv
  <2>1. svc'[<<"ntp", t>>].live
    BY DEF CalmInv
  <2>2. ASSUME NEW k \in Streams, Loops(k, t)
        PROVE  connections'[d].streams = t \/ StopAhead(work', k, t, Len(work') + 1)
    <3>1. connections[d].streams = t
      BY <2>2 DEF CalmInv
    <3>2. CASE d # c
      BY <1>3, <3>1, <3>2
    <3>3. CASE d = c
      <4>1. PICK j \in 1 .. Len(v) : v[j].do = "stop" /\ v[j].what = k /\ v[j].id = t
        BY <1>0, <1>1, <3>1, <3>3
      <4>2. j \in 1 .. (Len(work') + 1) - 1
        <5>1. Len(w) \in Nat
          BY JobsLen
        <5> QED BY <1>2, <5>1
      <4> QED BY <1>2, <4>1, <4>2 DEF StopAhead
    <3> QED BY <3>2, <3>3
  <2> QED BY <2>1, <2>2 DEF Loops
<1> QED BY <1>4, <1>5, <1>6, <1>7, <1>8 DEF ClockInv

\* A stream is to be stopped.
LEMMA StopClock ==
  ASSUME CalmInv, NEW k, NEW s, NEW w, Jobs(w), Calm(w),
         work' = Stop(k, s) \o w, svc' = svc, connections' = connections
  PROVE  ClockInv'
<1>1. CalmInv'
  BY KeepCalm
<1> DEFINE v == Stop(k, s)
<1>2. Jobs(v) /\ \A i \in 1 .. Len(v) : v[i].do # "free"
  <2>1. CASE s = None
    BY <2>1, JobsNone DEF Stop
  <2>2. CASE s # None
    <3>1. v = <<Job("stop", k, s)>>
      BY <2>2 DEF Stop
    <3>2. Len(<<Job("stop", k, s)>>) = 1 /\ <<Job("stop", k, s)>>[1].do = "stop"
      BY JobFields
    <3>3. \A i \in 1 .. 1 : i = 1
      OBVIOUS
    <3> QED BY <3>1, <3>2, <3>3, JobsOne
  <2> QED BY <2>1, <2>2
<1>3. Guarded(v)
  BY <1>2, JobsNone DEF Guarded
<1> HIDE DEF v
<1>4. /\ \A i \in 1 .. Len(v) : work'[i] = v[i]
      /\ \A i \in 1 .. Len(work') : i \in 1 .. Len(v) \/ work'[i].do \notin Removal
  <2>1. work' = v \o w
    BY DEF v
  <2> QED BY <1>3, <2>1, PushGuarded
<1>5. FreeInv'
  BY <1>2, <1>4 DEF FreeInv, Removal
<1>6. OwnedInv'
  BY <1>1 DEF CalmInv, OwnedInv
<1>7. ToldInv'
  BY <1>1 DEF CalmInv, ToldInv
<1> QED BY <1>1, <1>5, <1>6, <1>7 DEF CalmInv, ClockInv

-----------------------------------------------------------------------------
\* What is ahead still is when the first job is done, but for that job.
LEMMA ShiftAhead ==
  ASSUME WorkInv, work # <<>>, work' = Rest, NEW k, NEW s, NEW i \in 1 .. Len(work') + 1,
         StopAhead(work, k, s, i + 1),
         Head(work).do \in {"stop", "join"} => <<k, s>> # Target
  PROVE  StopAhead(work', k, s, i)
<1>1. /\ Len(work') \in Nat /\ Head(work) = work[1]
      /\ \A j \in 1 .. Len(work') : work'[j] = work[j + 1]
  BY Popped
<1>2. PICK j \in 1 .. (i + 1) - 1 :
        work[j].do \in {"stop", "join"} /\ work[j].what = k /\ work[j].id = s
  BY DEF StopAhead
<1>3. j # 1
  BY <1>1, <1>2 DEF Target
<1>4. j - 1 \in 1 .. i - 1 /\ j - 1 \in 1 .. Len(work') /\ (j - 1) + 1 = j
  BY <1>1, <1>2, <1>3
<1>5. work'[j - 1] = work[j]
  BY <1>1, <1>4
<1> QED BY <1>2, <1>4, <1>5 DEF StopAhead

\* A close ahead still is when the first job, not that close, is done.
LEMMA ShiftClosing ==
  ASSUME WorkInv, work # <<>>, work' = Rest, NEW c, NEW i \in Nat \ {0},
         Closing(work, c, i + 1) \/ (Closing(work, c, i) /\ i = 1 /\ Head(work).do # "close")
  PROVE  Closing(work', c, i)
<1>1. /\ Len(work') \in Nat /\ Len(work') = Len(work) - 1 /\ Head(work) = work[1]
      /\ \A j \in 1 .. Len(work') : work'[j] = work[j + 1]
  BY Popped
<1>2. PICK j \in i .. Len(work) : work[j].do = "close" /\ work[j].id = c /\ j # i
  <2>1. CASE Closing(work, c, i + 1)
    <3>1. PICK j \in i + 1 .. Len(work) : work[j].do = "close" /\ work[j].id = c
      BY <2>1 DEF Closing
    <3>2. j \in i .. Len(work) /\ j # i
      OBVIOUS
    <3> QED BY <3>1, <3>2
  <2>2. CASE Closing(work, c, i) /\ i = 1 /\ Head(work).do # "close"
    BY <1>1, <2>2 DEF Closing
  <2> QED BY <2>1, <2>2
<1>3. Len(work) \in Nat
  BY Popped
<1>4. j - 1 \in i .. Len(work') /\ j - 1 \in 1 .. Len(work') /\ (j - 1) + 1 = j
  BY <1>1, <1>2, <1>3
<1>5. work'[j - 1] = work[j]
  BY <1>1, <1>4
<1> QED BY <1>2, <1>4, <1>5 DEF Closing

\* A job of a removal is done: a service it stopped or joined has left its loop, a
\* clock it freed belongs to the connection being closed.
LEMMA PopClock ==
  ASSUME ServerInv, ClockInv, work # <<>>, Head(work).do \in {"stop", "join", "free"},
         work' = Rest, connections' = connections,
         \A k \in Streams, s \in Sessions : Loops(k, s)' =>
            Loops(k, s) /\ svc'[<<k, s>>].running,
         \A k \in Streams, s \in Sessions :
            Loops(k, s)' /\ Head(work).do \in {"stop", "join"} => <<k, s>> # Target,
         \A s \in Sessions : svc[<<"ntp", s>>].live =>
            svc'[<<"ntp", s>>].live \/ (Head(work).do = "free" /\ Target = <<"ntp", s>>)
  PROVE  ClockInv'
<1>1. /\ WorkInv /\ Head(work) = work[1] /\ 1 \in 1 .. Len(work) /\ Len(work') \in Nat
      /\ Len(work') = Len(work) - 1
      /\ \A i \in 1 .. Len(work') : i + 1 \in 1 .. Len(work) /\ work'[i] = work[i + 1]
  BY Popped DEF ServerInv
<1>2. PointerInv'
  BY DEF ClockInv, PointerInv
<1>3. ASSUME NEW s \in Sessions, Head(work).do = "free", Target = <<"ntp", s>>
      PROVE  /\ \A k \in Streams : ~Loops(k, s)
             /\ \E c \in Slots : connections[c].timing = s /\ Closing(work, c, 2)
  <2>1. work[1].do = "free" /\ work[1].what = "ntp" /\ work[1].id = s
    BY <1>1, <1>3 DEF Target
  <2>2. /\ \A k \in Streams : Loops(k, s) => StopAhead(work, k, s, 1)
        /\ \E c \in Slots : connections[c].timing = s /\ Closing(work, c, 1 + 1)
    BY <1>1, <2>1 DEF ClockInv, FreeInv
  <2>3. \A k : ~StopAhead(work, k, s, 1)
    BY DEF StopAhead
  <2> QED BY <2>2, <2>3
<1>4. ClockOutlivesUsers'
  <2> SUFFICES ASSUME NEW k \in Streams, NEW s \in Sessions, Loops(k, s)'
               PROVE  svc'[<<"ntp", s>>].live
    BY DEF ClockOutlivesUsers, Loops
  <2>1. Loops(k, s) /\ svc[<<"ntp", s>>].live
    BY DEF ClockInv, ClockOutlivesUsers, Loops
  <2> QED BY <1>3, <2>1
<1>5. OwnedInv'
  <2> SUFFICES ASSUME NEW c \in Slots, NEW t, t = connections[c].timing, t # None
               PROVE  /\ svc'[<<"ntp", t>>].live \/ Closing(work', c, 1)
                      /\ \A k \in Streams : Loops(k, t)' =>
                           connections[c].streams = t \/ StopAhead(work', k, t, Len(work') + 1)
    BY DEF OwnedInv
  <2>1. t \in Sessions
    BY DEF ServerInv, TableInv, Connections
  <2>2. CASE Closing(work, c, 1)
    <3>1. Closing(work', c, 1)
      BY <1>1, <2>2, ShiftClosing
    <3>2. ASSUME NEW k \in Streams, Loops(k, t)'
          PROVE  connections[c].streams = t \/ StopAhead(work', k, t, Len(work') + 1)
      <4>1. Loops(k, t) /\ (Head(work).do \in {"stop", "join"} => <<k, t>> # Target)
        BY <2>1, <3>2
      <4>2. CASE StopAhead(work, k, t, Len(work) + 1)
        <5>1. Len(work') + 1 \in 1 .. Len(work') + 1 /\ Len(work) + 1 = (Len(work') + 1) + 1
          BY <1>1
        <5> QED BY <1>1, <4>1, <4>2, <5>1, ShiftAhead
      <4> QED BY <4>1, <4>2 DEF ClockInv, OwnedInv
    <3> QED BY <3>1, <3>2
  <2>3. CASE ~Closing(work, c, 1)
    <3>1. svc[<<"ntp", t>>].live
      BY <2>3 DEF ClockInv, OwnedInv
    <3>2. ~(Head(work).do = "free" /\ Target = <<"ntp", t>>)
      <4> SUFFICES ASSUME Head(work).do = "free", Target = <<"ntp", t>>
                   PROVE  FALSE
        OBVIOUS
      <4>1. PICK d \in Slots : connections[d].timing = t /\ Closing(work, d, 2)
        BY <1>3, <2>1
      <4>2. d = c
        BY <4>1 DEF ClockInv, PointerInv
      <4>3. Closing(work, c, 1)
        BY <4>1, <4>2 DEF Closing
      <4> QED BY <2>3, <4>3
    <3>3. svc'[<<"ntp", t>>].live
      BY <2>1, <3>1, <3>2
    <3>4. ASSUME NEW k \in Streams, Loops(k, t)'
          PROVE  connections[c].streams = t \/ StopAhead(work', k, t, Len(work') + 1)
      <4>1. Loops(k, t) /\ (Head(work).do \in {"stop", "join"} => <<k, t>> # Target)
        BY <2>1, <3>4
      <4>2. CASE StopAhead(work, k, t, Len(work) + 1)
        <5>1. Len(work') + 1 \in 1 .. Len(work') + 1 /\ Len(work) + 1 = (Len(work') + 1) + 1
          BY <1>1
        <5> QED BY <1>1, <4>1, <4>2, <5>1, ShiftAhead
      <4> QED BY <4>1, <4>2 DEF ClockInv, OwnedInv
    <3> QED BY <3>3, <3>4
  <2> QED BY <2>2, <2>3
<1>6. ToldInv'
  BY DEF ToldInv
<1>7. FreeInv'
  <2> SUFFICES ASSUME NEW i \in 1 .. Len(work'), work'[i].do = "free"
               PROVE  /\ \A k \in Streams, s \in Sessions :
                           work'[i].what \in {k, "ntp"} /\ work'[i].id = s /\ Loops(k, s)' =>
                             StopAhead(work', k, s, i)
                      /\ work'[i].what = "ntp" =>
                           \E c \in Slots : /\ connections[c].timing = work'[i].id
                                            /\ Closing(work', c, i + 1)
    BY DEF FreeInv
  <2>1. i + 1 \in 1 .. Len(work) /\ work'[i] = work[i + 1]
    BY <1>1
  <2>2. ASSUME NEW k \in Streams, NEW s \in Sessions,
               work'[i].what \in {k, "ntp"}, work'[i].id = s, Loops(k, s)'
        PROVE  StopAhead(work', k, s, i)
    <3>1. StopAhead(work, k, s, i + 1)
      BY <2>1, <2>2 DEF ClockInv, FreeInv
    <3>2. Head(work).do \in {"stop", "join"} => <<k, s>> # Target
      BY <2>2
    <3>3. i \in 1 .. Len(work') + 1
      BY <1>1
    <3> QED BY <1>1, <3>1, <3>2, <3>3, ShiftAhead
  <2>3. ASSUME work'[i].what = "ntp"
        PROVE  \E c \in Slots : /\ connections[c].timing = work'[i].id
                                /\ Closing(work', c, i + 1)
    <3>1. PICK c \in Slots : connections[c].timing = work'[i].id /\ Closing(work, c, (i + 1) + 1)
      BY <2>1, <2>3 DEF ClockInv, FreeInv
    <3>2. i + 1 \in Nat \ {0}
      OBVIOUS
    <3>3. Closing(work', c, i + 1)
      BY <1>1, <3>1, <3>2, ShiftClosing
    <3> QED BY <3>1, <3>3
  <2> QED BY <2>2, <2>3
<1> QED BY <1>2, <1>4, <1>5, <1>6, <1>7 DEF ClockInv

\* A stream is told to stop, and the thread is about to join it.
LEMMA ClaimClock ==
  ASSUME ServerInv, ClockInv, Doing("stop"), connections' = connections,
         work' = <<[Head(work) EXCEPT !.do = "join"]>> \o Rest,
         \A k \in Streams, s \in Sessions :
           /\ Loops(k, s)' <=> Loops(k, s)
           /\ <<k, s>> # Target => svc'[<<k, s>>].running = svc[<<k, s>>].running,
         \A s \in Sessions : svc'[<<"ntp", s>>].live = svc[<<"ntp", s>>].live
  PROVE  ClockInv'
<1>1. /\ Len(work) \in Nat /\ Len(work') = Len(work)
      /\ 1 \in 1 .. Len(work) /\ work[1].do = "stop" /\ Head(work) = work[1]
      /\ work'[1] = Job("join", work[1].what, work[1].id) /\ Head(work') = work'[1]
      /\ \A i \in 1 .. Len(work) : i # 1 => work'[i] = work[i]
  BY JoinInFront DEF ServerInv, Doing
<1>2. /\ work'[1].do = "join" /\ work'[1].what = work[1].what /\ work'[1].id = work[1].id
  BY <1>1, JobFields
<1>3. ASSUME NEW k, NEW s, NEW i \in 1 .. Len(work) + 1, StopAhead(work, k, s, i)
      PROVE  StopAhead(work', k, s, i)
  <2>1. PICK j \in 1 .. i - 1 :
          work[j].do \in {"stop", "join"} /\ work[j].what = k /\ work[j].id = s
    BY <1>3 DEF StopAhead
  <2>2. j \in 1 .. Len(work)
    BY <1>1
  <2>3. work'[j].do \in {"stop", "join"} /\ work'[j].what = k /\ work'[j].id = s
    BY <1>1, <1>2, <2>1, <2>2
  <2> QED BY <2>3 DEF StopAhead
<1>4. ASSUME NEW c, NEW i \in 1 .. Len(work) + 1, Closing(work, c, i)
      PROVE  Closing(work', c, i)
  <2>1. PICK j \in i .. Len(work) : work[j].do = "close" /\ work[j].id = c
    BY <1>4 DEF Closing
  <2>2. j \in 1 .. Len(work) /\ j # 1
    BY <1>1, <2>1
  <2>3. work'[j] = work[j]
    BY <1>1, <2>2
  <2> QED BY <1>1, <2>1, <2>3 DEF Closing
<1>5. PointerInv'
  BY DEF ClockInv, PointerInv
<1>6. ClockOutlivesUsers'
  BY DEF ClockInv, ClockOutlivesUsers, Loops
<1>7. OwnedInv'
  <2> SUFFICES ASSUME NEW c \in Slots, NEW t, t = connections[c].timing, t # None
               PROVE  /\ svc'[<<"ntp", t>>].live \/ Closing(work', c, 1)
                      /\ \A k \in Streams : Loops(k, t)' =>
                           connections[c].streams = t \/ StopAhead(work', k, t, Len(work') + 1)
    BY DEF OwnedInv
  <2>1. t \in Sessions
    BY DEF ServerInv, TableInv, Connections
  <2>2. /\ svc[<<"ntp", t>>].live \/ Closing(work, c, 1)
        /\ \A k \in Streams : Loops(k, t) =>
             connections[c].streams = t \/ StopAhead(work, k, t, Len(work) + 1)
    BY DEF ClockInv, OwnedInv
  <2>3. 1 \in 1 .. Len(work) + 1 /\ Len(work) + 1 \in 1 .. Len(work) + 1
    BY <1>1
  <2> QED BY <1>1, <1>3, <1>4, <2>1, <2>2, <2>3
<1>8. ToldInv'
  <2> SUFFICES ASSUME NEW k \in Streams, NEW s \in Sessions,
                      Loops(k, s)', ~svc'[<<k, s>>].running
               PROVE  Doing("join")' /\ Target' = <<k, s>>
    BY DEF ToldInv
  <2>1. <<k, s>> = Target
    BY DEF ClockInv, ToldInv, Doing
  <2>2. work' # <<>>
    OBVIOUS
  <2> QED BY <1>1, <1>2, <2>1, <2>2 DEF Doing, Target
<1>9. FreeInv'
  <2> SUFFICES ASSUME NEW i \in 1 .. Len(work'), work'[i].do = "free"
               PROVE  /\ \A k \in Streams, s \in Sessions :
                           work'[i].what \in {k, "ntp"} /\ work'[i].id = s /\ Loops(k, s)' =>
                             StopAhead(work', k, s, i)
                      /\ work'[i].what = "ntp" =>
                           \E c \in Slots : /\ connections[c].timing = work'[i].id
                                            /\ Closing(work', c, i + 1)
    BY DEF FreeInv
  <2>1. i \in 1 .. Len(work) /\ i # 1 /\ work'[i] = work[i]
    BY <1>1, <1>2
  <2>2. /\ \A k \in Streams, s \in Sessions :
             work[i].what \in {k, "ntp"} /\ work[i].id = s /\ Loops(k, s) => StopAhead(work, k, s, i)
        /\ work[i].what = "ntp" =>
             \E c \in Slots : connections[c].timing = work[i].id /\ Closing(work, c, i + 1)
    BY <2>1 DEF ClockInv, FreeInv
  <2>3. i \in 1 .. Len(work) + 1 /\ i + 1 \in 1 .. Len(work) + 1
    BY <1>1, <2>1
  <2> QED BY <1>3, <1>4, <2>1, <2>2, <2>3
<1> QED BY <1>5, <1>6, <1>7, <1>8, <1>9 DEF ClockInv

\* A removal is at its end: all that was to be stopped is.
LEMMA CloseClock ==
  ASSUME ServerInv, ClockInv, CloseConnection
  PROVE  ClockInv'
<1>0. PICK c : c = Head(work).id
  OBVIOUS
<1>1. /\ work # <<>> /\ Head(work).do = "close" /\ work' = Rest /\ svc' = svc
      /\ connections' = [connections EXCEPT ![c] = Closed]
  BY <1>0 DEF CloseConnection, Doing
<1>2. /\ WorkInv /\ Head(work) = work[1] /\ 1 \in 1 .. Len(work) /\ Len(work') \in Nat
      /\ Len(work') = Len(work) - 1 /\ Len(work) \in Nat
      /\ \A i \in 1 .. Len(work') : i + 1 \in 1 .. Len(work) /\ work'[i] = work[i + 1]
  BY <1>1, Popped DEF ServerInv
<1>3. \A j \in 1 .. Len(work) : j # 1 => work[j].do \notin Removal
  <2> SUFFICES ASSUME NEW j \in 1 .. Len(work), j # 1
               PROVE  work[j].do \notin Removal
    OBVIOUS
  <2>1. 1 < j
    BY <1>2
  <2> QED BY <1>1, <1>2, <2>1 DEF WorkInv
<1>4. Calm(work')
  <2>1. \A i \in 1 .. Len(work') : i + 1 # 1
    BY <1>2
  <2> QED BY <1>2, <1>3, <2>1 DEF Calm
<1>5. \A k, s, i : ~(i = Len(work) + 1 /\ StopAhead(work, k, s, i))
  <2>1. 1 .. (Len(work) + 1) - 1 = 1 .. Len(work)
    BY <1>2
  <2> QED BY <1>1, <1>2, <1>3, <2>1 DEF StopAhead, Removal
<1>6. \A d : Closing(work, d, 1) => d = c
  BY <1>0, <1>2, <1>3 DEF Closing, Removal
<1>7. c \in Slots
  <2>1. work[1].id \in Connected
    BY <1>1, <1>2 DEF WorkInv
  <2> QED BY <1>0, <1>2, <2>1 DEF Connected
<1>8. /\ \A d \in Slots \ {c} : connections'[d] = connections[d]
      /\ connections'[c].timing = None /\ connections'[c].streams = None
  BY <1>1, <1>7 DEF ServerInv, TableInv, Closed
<1>9. PointerInv'
  <2>1. \A d \in Slots : connections'[d].streams \in {None, connections'[d].timing}
    BY <1>8 DEF ClockInv, PointerInv
  <2>2. \A d, e \in Slots : connections'[d].timing # None /\ d # e =>
          connections'[d].timing # connections'[e].timing
    BY <1>8 DEF ClockInv, PointerInv
  <2> QED BY <2>1, <2>2 DEF PointerInv
<1>10. ClockOutlivesUsers'
  BY <1>1 DEF ClockInv, ClockOutlivesUsers
<1>11. ASSUME NEW d \in Slots, NEW t, t = connections'[d].timing, t # None
       PROVE  /\ svc'[<<"ntp", t>>].live
              /\ \A k \in Streams : Loops(k, t)' => connections'[d].streams = t
  <2>1. d # c /\ connections'[d] = connections[d]
    BY <1>8, <1>11
  <2>2. /\ svc[<<"ntp", t>>].live \/ Closing(work, d, 1)
        /\ \A k \in Streams : Loops(k, t) =>
             connections[d].streams = t \/ StopAhead(work, k, t, Len(work) + 1)
    BY <1>11, <2>1 DEF ClockInv, OwnedInv
  <2> QED BY <1>1, <1>5, <1>6, <2>1, <2>2 DEF Loops
<1>12. ASSUME NEW k \in Streams, NEW s \in Sessions, Loops(k, s)'
       PROVE  svc'[<<k, s>>].running
  <2>1. ~Doing("join")
    BY <1>1 DEF Doing
  <2> QED BY <1>1, <1>12, <2>1 DEF ClockInv, ToldInv, Loops
<1>13. CalmInv'
  BY <1>9, <1>10, <1>11, <1>12 DEF CalmInv
<1> QED BY <1>4, <1>13, FromCalm

-----------------------------------------------------------------------------
\* A step between two jobs none of which is a removal.
LEMMA CalmStep ==
  ASSUME ClockInv, Jobs(work), Calm(work), Calm(work'), svc' = svc,
         \A c \in Slots : /\ connections'[c].timing = connections[c].timing
                          /\ connections'[c].streams = connections[c].streams
  PROVE  ClockInv'
<1>1. CalmInv
  BY ToCalm
<1>2. CalmInv'
  BY <1>1, KeepCalm
<1> QED BY <1>2, FromCalm

\* The work goes on behind a job that is no removal, or is abandoned.
LEMMA CalmContinues ==
  ASSUME ServerInv, ClockInv, work # <<>>, Head(work).do \notin Removal,
         work' = Rest \/ work' = <<>>, UNCHANGED <<svc, connections>>
  PROVE  ClockInv'
<1>1. Calm(work') /\ Jobs(work) /\ Calm(work)
  BY CalmWork, NoneCalm
<1> QED BY <1>1, CalmStep

\* The next job is no removal either.
LEMMA CalmGoesOn ==
  ASSUME ServerInv, ClockInv, work # <<>>, Head(work).do \notin Removal,
         NEW do, do \notin Removal, NEW what, NEW id, work' = <<Job(do, what, id)>> \o Rest
  PROVE  CalmInv /\ Calm(work') /\ Jobs(work) /\ Calm(work)
  BY CalmWork, CalmOne, ToCalm

\* A connection is to be removed, after a request or instead of one.
LEMMA RemovalClock ==
  ASSUME ServerInv, ClockInv, work # <<>>, Head(work).do \notin Removal, NEW c \in Slots,
         NEW w \in {Rest, work}, work' = Remove(c) \o w, UNCHANGED <<svc, connections>>
  PROVE  ClockInv'
<1>1. Jobs(work) /\ Jobs(Rest) /\ Calm(work) /\ Calm(Rest)
  BY CalmWork
<1>2. CalmInv /\ Jobs(w) /\ Calm(w)
  BY <1>1, ToCalm
<1> QED BY <1>2, RemoveClock DEF ServerInv

\* At the top of its loop, and accepting, the thread touches no session.
LEMMA LoopClock ==
  ASSUME ServerInv, ClockInv,
         \/ Select \/ SelectFails \/ SeeStopped
         \/ AcceptSkipped \/ Accept \/ AcceptAbandoned \/ AcceptFails
  PROVE  ClockInv'
<1>1. CASE Select \/ SelectFails \/ SeeStopped
  <2>1. work = <<>> /\ svc' = svc /\ connections' = connections
    BY <1>1 DEF Select, SelectFails, SeeStopped, AtLoopTop, table
  <2>2. Calm(work')
    <3>1. CASE work' = work
      BY <2>1, <3>1, NoneCalm
    <3>2. CASE Select
      <4>1. PICK fds \in SUBSET {4, 6}, conns \in SUBSET Connected : work' = Pass(fds, conns)
        BY <3>2 DEF Select
      <4>2. Tame(Pass(fds, conns))
        BY PassTame DEF ServerInv
      <4> QED BY <4>1, <4>2 DEF Tame, Calm
    <3> QED BY <1>1, <3>1, <3>2 DEF SelectFails, SeeStopped
  <2> QED BY <2>1, <2>2, NoneCalm, JobsNone, CalmStep
<1>2. CASE AcceptSkipped \/ Accept \/ AcceptAbandoned \/ AcceptFails
  <2>1. /\ work # <<>> /\ Head(work).do \notin Removal /\ svc' = svc
        /\ work' = Rest \/ work' = <<>>
    BY <1>2 DEF AcceptSkipped, Accept, AcceptAbandoned, AcceptFails, Doing, Removal
  <2>2. CASE connections' = connections
    BY <2>1, <2>2, CalmContinues
  <2>3. CASE Accept
    <3>1. /\ connections \in [Slots -> Connections]
          /\ \E c : connections' = [connections EXCEPT ![c].connected = TRUE]
      BY <2>3 DEF Accept, ServerInv, TableInv
    <3>2. \A c \in Slots : /\ connections'[c].timing = connections[c].timing
                           /\ connections'[c].streams = connections[c].streams
      BY <3>1 DEF Connections
    <3>3. Calm(work') /\ Jobs(work) /\ Calm(work)
      BY <2>1, CalmWork, NoneCalm
    <3> QED BY <2>1, <3>2, <3>3, CalmStep
  <2> QED BY <1>2, <2>2, <2>3 DEF AcceptSkipped, AcceptAbandoned, AcceptFails, table
<1> QED BY <1>1, <1>2

\* Nor does it when it reads, but to begin a removal.
LEMMA RecvClock ==
  ASSUME ServerInv, ClockInv, NEW c \in Slots,
         \/ RecvNothing(c) \/ RecvEnd(c) \/ RecvRequest(c) \/ RecvRejected(c)
         \/ RecvCapture(c) \/ CaptureRemove(c) \/ CaptureDone(c)
  PROVE  ClockInv'
<1>1. work # <<>> /\ Head(work).do \notin Removal /\ svc' = svc
  BY DEF RecvNothing, RecvEnd, RecvRequest, RecvRejected, RecvCapture, CaptureRemove,
         CaptureDone, Identify, Doing, Removal
<1>2. CASE RecvNothing(c) \/ RecvRejected(c)
  BY <1>1, <1>2, CalmContinues DEF RecvNothing, RecvRejected, table
<1>3. CASE RecvEnd(c)
  BY <1>1, <1>3, RemovalClock DEF RecvEnd, table
<1>4. CASE RecvCapture(c)
  <2>1. /\ connections' = connections /\ "capture" \notin Removal
        /\ work' = <<Job("capture", "connection", c)>> \o Rest
    BY <1>4 DEF RecvCapture, table, Removal
  <2>2. Calm(work') /\ Jobs(work) /\ Calm(work)
    BY <1>1, <2>1, CalmGoesOn
  <2> QED BY <1>1, <2>1, <2>2, CalmStep
<1>5. CASE CaptureRemove(c)
  <2>1. /\ connections' = connections /\ Known # {}
        /\ work' = Remove(Lowest(Known)) \o work
    BY <1>5 DEF CaptureRemove, Captured, table
  <2>2. Lowest(Known) \in Slots
    <3>1. Known \subseteq Nat /\ Known \subseteq Slots
      BY TableSets DEF ServerInv
    <3>2. Lowest(Known) \in Known
      BY <2>1, <3>1, LowestExists
    <3> QED BY <3>1, <3>2
  <2> QED BY <1>1, <2>1, <2>2, RemovalClock
<1>6. CASE RecvRequest(c) \/ CaptureDone(c)
  <2>1. /\ connections' = [connections EXCEPT ![c].raop = TRUE] /\ "request" \notin Removal
        /\ work' = <<Job("request", "connection", c)>> \o Rest
    BY <1>6 DEF RecvRequest, CaptureDone, Identify, Removal
  <2>2. \A d \in Slots : /\ connections'[d].timing = connections[d].timing
                         /\ connections'[d].streams = connections[d].streams
    BY <2>1 DEF ServerInv, TableInv, Connections
  <2>3. Calm(work') /\ Jobs(work) /\ Calm(work)
    BY <1>1, <2>1, CalmGoesOn
  <2> QED BY <1>1, <2>2, <2>3, CalmStep
<1> QED BY <1>2, <1>3, <1>4, <1>5, <1>6

\* SETUP with keys gives the connection a session nobody points to.
LEMMA KeysClock ==
  ASSUME ServerInv, ClockInv, NEW c \in Slots, SetupKeys(c)
  PROVE  ClockInv'
<1>1. /\ work # <<>> /\ Head(work).do \notin Removal /\ "setup" \notin Removal
      /\ work' = <<Job("setup", "connection", c)>> \o Rest
  BY DEF SetupKeys, Serving, Doing, Removal
<1>2. CalmInv /\ Calm(work')
  BY <1>1, CalmGoesOn
<1>3. PICK s \in Sessions, timing \in {Ready, Started} :
        /\ Unused(s)
        /\ connections' = [connections EXCEPT ![c].timing = s, ![c].streams = s]
        /\ svc' = [id \in Kinds \X Sessions |->
                     IF id[2] # s THEN svc[id]
                     ELSE IF id[1] = "ntp" THEN timing ELSE Ready]
  BY ZenonT(60) DEF SetupKeys
<1>4. "ntp" \in Kinds /\ "ntp" \notin Streams /\ Streams \subseteq Kinds
  BY SessionAssumption DEF Kinds
<1>5. /\ \A k \in Streams, r \in Sessions : Loops(k, r)' => r # s /\ svc'[<<k, r>>] = svc[<<k, r>>]
      /\ \A r \in Sessions : r # s => svc'[<<"ntp", r>>] = svc[<<"ntp", r>>]
      /\ svc'[<<"ntp", s>>].live
  <2>1. ASSUME NEW k \in Streams, NEW r \in Sessions, Loops(k, r)'
        PROVE  r # s /\ svc'[<<k, r>>] = svc[<<k, r>>]
    <3>1. svc'[<<k, r>>] = IF r # s THEN svc[<<k, r>>] ELSE Ready
      BY <1>3, <1>4
    <3> QED BY <2>1, <3>1 DEF Loops, Ready, Absent
  <2>2. \A r \in Sessions : svc'[<<"ntp", r>>] = IF r # s THEN svc[<<"ntp", r>>] ELSE timing
    BY <1>3, <1>4
  <2>3. timing.live
    BY DEF Ready, Started, Absent
  <2> QED BY <2>1, <2>2, <2>3
<1>6. /\ \A d \in Slots \ {c} : connections'[d] = connections[d]
      /\ connections'[c].timing = s /\ connections'[c].streams = s
      /\ \A d \in Slots : connections[d].timing \in {None} \cup Sessions
  BY <1>3 DEF ServerInv, TableInv, Connections
<1>7. \A d \in Slots : connections[d].timing # s
  <2>1. ~svc[<<"ntp", s>>].live /\ s # None
    BY <1>3, <1>4 DEF Unused, Sessions, None
  <2> QED BY <1>2, <2>1 DEF CalmInv
<1>8. PointerInv'
  <2>1. \A d \in Slots : connections'[d].streams \in {None, connections'[d].timing}
    BY <1>2, <1>6 DEF CalmInv, PointerInv
  <2>2. \A d, e \in Slots : connections'[d].timing # None /\ d # e =>
          connections'[d].timing # connections'[e].timing
    BY <1>2, <1>6, <1>7 DEF CalmInv, PointerInv
  <2> QED BY <2>1, <2>2 DEF PointerInv
<1>9. ClockOutlivesUsers'
  <2> SUFFICES ASSUME NEW k \in Streams, NEW r \in Sessions, Loops(k, r)'
               PROVE  svc'[<<"ntp", r>>].live
    BY DEF ClockOutlivesUsers, Loops
  <2> QED BY <1>2, <1>5 DEF CalmInv, ClockOutlivesUsers, Loops
<1>10. ASSUME NEW d \in Slots, NEW t, t = connections'[d].timing, t # None
       PROVE  /\ svc'[<<"ntp", t>>].live
              /\ \A k \in Streams : Loops(k, t)' => connections'[d].streams = t
  <2>1. CASE d = c
    BY <1>5, <1>6, <1>10, <2>1
  <2>2. CASE d # c
    <3>1. t = connections[d].timing /\ t \in Sessions /\ t # s /\ connections'[d] = connections[d]
      BY <1>6, <1>7, <1>10, <2>2
    <3>2. svc[<<"ntp", t>>].live /\ \A k \in Streams : Loops(k, t) => connections[d].streams = t
      BY <1>2, <1>10, <3>1 DEF CalmInv
    <3> QED BY <1>5, <3>1, <3>2 DEF Loops
  <2> QED BY <2>1, <2>2
<1>11. ASSUME NEW k \in Streams, NEW r \in Sessions, Loops(k, r)'
       PROVE  svc'[<<k, r>>].running
  BY <1>2, <1>5, <1>11 DEF CalmInv, Loops
<1>12. CalmInv'
  BY <1>8, <1>9, <1>10, <1>11 DEF CalmInv
<1> QED BY <1>2, <1>12, FromCalm

\* SETUP of a stream starts it in the session the connection points to.
LEMMA StreamClock ==
  ASSUME SvcInv, ServerInv, ClockInv, NEW c \in Slots, NEW k \in Streams, SetupStream(c, k)
  PROVE  ClockInv'
<1>1. /\ work # <<>> /\ Head(work).do \notin Removal /\ "setup" \notin Removal
      /\ work' = <<Job("setup", "connection", c)>> \o Rest /\ connections' = connections
  BY DEF SetupStream, Serving, Doing, Removal, table
<1>2. CalmInv /\ Calm(work')
  BY <1>1, CalmGoesOn
<1>3. PICK s : /\ s = connections[c].streams /\ s # None
               /\ svc' = [svc EXCEPT ![<<k, s>>] = Started]
  BY DEF SetupStream
<1>4. s \in Sessions /\ s = connections[c].timing /\ <<k, s>> \in Kinds \X Sessions
  BY <1>2, <1>3 DEF ServerInv, TableInv, Connections, CalmInv, PointerInv, Kinds
<1>5. "ntp" \notin Streams
  BY SessionAssumption
<1>6. /\ svc'[<<k, s>>].running
      /\ \A l \in Streams, r \in Sessions : <<l, r>> # <<k, s>> => svc'[<<l, r>>] = svc[<<l, r>>]
      /\ \A r \in Sessions : svc'[<<"ntp", r>>] = svc[<<"ntp", r>>]
  BY <1>3, <1>4, <1>5 DEF SvcInv, Started, Ready, Absent, Kinds
<1>7. svc[<<"ntp", s>>].live
  BY <1>2, <1>3, <1>4 DEF CalmInv
<1>8. PointerInv'
  BY <1>1, <1>2 DEF CalmInv, PointerInv
<1>9. ClockOutlivesUsers'
  <2> SUFFICES ASSUME NEW l \in Streams, NEW r \in Sessions, svc'[<<l, r>>].at = "loop"
               PROVE  svc'[<<"ntp", r>>].live
    BY DEF ClockOutlivesUsers
  <2>1. CASE <<l, r>> = <<k, s>>
    BY <1>4, <1>6, <1>7, <2>1
  <2>2. CASE <<l, r>> # <<k, s>>
    BY <1>2, <1>6, <2>2 DEF CalmInv, ClockOutlivesUsers
  <2> QED BY <2>1, <2>2
<1>10. ASSUME NEW d \in Slots, NEW t, t = connections[d].timing, t # None
       PROVE  /\ svc'[<<"ntp", t>>].live
              /\ \A l \in Streams : Loops(l, t)' => connections[d].streams = t
  <2>1. t \in Sessions
    BY <1>10 DEF ServerInv, TableInv, Connections
  <2>2. svc[<<"ntp", t>>].live /\ \A l \in Streams : Loops(l, t) => connections[d].streams = t
    BY <1>2, <1>10 DEF CalmInv
  <2>3. CASE t = s
    <3>1. d = c
      BY <1>2, <1>4, <1>10, <2>3, ZenonT(60) DEF CalmInv, PointerInv
    <3> QED BY <1>3, <1>6, <2>1, <2>2, <2>3, <3>1
  <2>4. CASE t # s
    BY <1>6, <2>1, <2>2, <2>4 DEF Loops
  <2> QED BY <2>3, <2>4
<1>11. ASSUME NEW l \in Streams, NEW r \in Sessions, Loops(l, r)'
       PROVE  svc'[<<l, r>>].running
  BY <1>2, <1>6, <1>11 DEF CalmInv, Loops
<1>12. CalmInv'
  BY <1>1, <1>8, <1>9, <1>10, <1>11 DEF CalmInv
<1> QED BY <1>2, <1>12, FromCalm

\* All requests.
LEMMA RequestClock ==
  ASSUME SvcInv, ServerInv, ClockInv, NEW c \in Slots, Request(c)
  PROVE  ClockInv'
<1>1. work # <<>> /\ Head(work).do \notin Removal
  BY DEF Request, RequestOther, RequestDisconnect, SetupKeys, SetupDone, TeardownSession,
         SetupStream, TeardownStream, Serving, Doing, Removal
<1>2. CalmInv /\ Jobs(Rest) /\ Calm(Rest) /\ TableInv
  BY <1>1, CalmWork, ToCalm DEF ServerInv
<1>3. CASE RequestOther(c) \/ RequestDisconnect(c) \/ SetupDone(c)
  <2>1. /\ UNCHANGED <<svc, connections>>
        /\ work' = Rest \/ work' = Remove(c) \o Rest
    BY <1>3 DEF RequestOther, RequestDisconnect, SetupDone, table
  <2> QED BY <1>1, <2>1, CalmContinues, RemovalClock
<1>4. CASE SetupKeys(c)
  BY <1>4, KeysClock
<1>5. ASSUME NEW k \in Streams, SetupStream(c, k)
      PROVE  ClockInv'
  BY <1>5, StreamClock
<1>6. ASSUME NEW k \in Streams, TeardownStream(c, k)
      PROVE  ClockInv'
  BY <1>2, <1>6, StopClock DEF TeardownStream, table
<1>7. CASE TeardownSession(c)
  <2>1. /\ work' = DestroyStreams(connections[c].streams) \o Rest /\ svc' = svc
        /\ connections' = [connections EXCEPT ![c].streams = None]
    BY <1>7 DEF TeardownSession, DestroyStreams
  <2> QED BY <1>2, <2>1, LetGoClock
<1> QED BY <1>3, <1>4, <1>5, <1>6, <1>7, SMTT(40) DEF Request

\* A service is stopped, joined or freed.
LEMMA ReleaseClock ==
  ASSUME SvcInv, ServerInv, ClockInv, StopService \/ JoinService \/ FreeService
  PROVE  ClockInv'
<1>1. /\ work # <<>> /\ connections' = connections /\ Len(work) \in Nat
      /\ Head(work) = work[1] /\ 1 \in 1 .. Len(work)
  <2>1. work # <<>> /\ connections' = connections
    BY DEF StopService, JoinService, FreeService, Doing, table
  <2>2. Jobs(work)
    BY DEF ServerInv, WorkInv
  <2> QED BY <2>1, <2>2, JobsLen, Popped DEF ServerInv
<1>2. "ntp" \in Kinds /\ "ntp" \notin Streams /\ Streams \subseteq Kinds
  BY SessionAssumption DEF Kinds
<1>3. /\ svc \in [Kinds \X Sessions -> Services]
      /\ \A id \in Kinds \X Sessions : svc[id].joined => svc[id].at = "none"
  BY DEF SvcInv
<1>4. \A id \in Kinds \X Sessions : id # Target => svc'[id] = svc[id]
  BY <1>3 DEF StopService, JoinService, FreeService
<1>5. CASE StopService
  <2>1. /\ Doing("stop") /\ Head(work).do = "stop"
        /\ svc' = [svc EXCEPT ![Target].running =
                     svc[Target].running /\ ~(svc[Target].running /\ ~svc[Target].joined)]
        /\ work' = IF svc[Target].running /\ ~svc[Target].joined
                   THEN <<[Head(work) EXCEPT !.do = "join"]>> \o Rest ELSE Rest
    BY <1>5 DEF StopService, Doing
  <2>2. \A id \in Kinds \X Sessions : svc'[id].at = svc[id].at /\ svc'[id].live = svc[id].live
    BY <1>3, <2>1 DEF Services
  <2>3. CASE svc[Target].running /\ ~svc[Target].joined
    <3>1. work' = <<[Head(work) EXCEPT !.do = "join"]>> \o Rest
      BY <2>1, <2>3
    <3>2. \A k \in Streams, s \in Sessions :
            /\ Loops(k, s)' <=> Loops(k, s)
            /\ <<k, s>> # Target => svc'[<<k, s>>].running = svc[<<k, s>>].running
      BY <1>2, <1>4, <2>2 DEF Loops
    <3>3. \A s \in Sessions : svc'[<<"ntp", s>>].live = svc[<<"ntp", s>>].live
      BY <1>2, <2>2
    <3> QED BY <1>1, <2>1, <3>1, <3>2, <3>3, ClaimClock
  <2>4. CASE ~(svc[Target].running /\ ~svc[Target].joined)
    <3>1. work' = Rest
      BY <2>1, <2>4
    <3>2. ASSUME NEW k \in Streams, NEW s \in Sessions, Loops(k, s)'
          PROVE  Loops(k, s) /\ svc'[<<k, s>>].running /\ <<k, s>> # Target
      <4>1. Loops(k, s) /\ <<k, s>> \in Kinds \X Sessions
        BY <1>2, <2>2, <3>2 DEF Loops
      <4>2. svc[<<k, s>>].running
        BY <2>1, <4>1 DEF ClockInv, ToldInv, Doing
      <4>3. ~svc[<<k, s>>].joined
        BY <1>3, <4>1 DEF Loops
      <4>4. <<k, s>> # Target
        BY <2>4, <4>2, <4>3
      <4> QED BY <1>4, <4>1, <4>2, <4>4
    <3>3. \A s \in Sessions : svc'[<<"ntp", s>>].live = svc[<<"ntp", s>>].live
      BY <1>2, <2>2
    <3> QED BY <1>1, <2>1, <3>1, <3>2, <3>3, PopClock
  <2> QED BY <2>3, <2>4
<1>6. CASE JoinService
  <2>1. /\ Head(work).do = "join" /\ svc[Target].at = "none"
        /\ svc' = [svc EXCEPT ![Target].joined = TRUE] /\ work' = Rest
    BY <1>6 DEF JoinService, Doing
  <2>2. \A id \in Kinds \X Sessions : svc'[id].at = svc[id].at /\ svc'[id].live = svc[id].live
    BY <1>3, <2>1 DEF Services
  <2>3. ASSUME NEW k \in Streams, NEW s \in Sessions, Loops(k, s)'
        PROVE  Loops(k, s) /\ svc'[<<k, s>>].running /\ <<k, s>> # Target
    <3>1. Loops(k, s) /\ <<k, s>> \in Kinds \X Sessions
      BY <1>2, <2>2, <2>3 DEF Loops
    <3>2. <<k, s>> # Target
      BY <2>1, <3>1 DEF Loops
    <3>3. svc[<<k, s>>].running
      BY <3>1, <3>2 DEF ClockInv, ToldInv
    <3> QED BY <1>4, <3>1, <3>2, <3>3
  <2>4. \A s \in Sessions : svc'[<<"ntp", s>>].live = svc[<<"ntp", s>>].live
    BY <1>2, <2>2
  <2> QED BY <1>1, <2>1, <2>3, <2>4, PopClock
<1>7. CASE FreeService
  <2>1. /\ Head(work).do = "free" /\ work' = Rest
        /\ svc' = [svc EXCEPT ![Target] =
                     [Absent EXCEPT !.at = svc[Target].at, !.lost = svc[Target].lost]]
    BY <1>7 DEF FreeService, Doing
  <2>2. \A id \in Kinds \X Sessions : svc'[id].at = svc[id].at
    BY <1>3, <2>1 DEF Services, Absent
  <2>3. ASSUME NEW k \in Streams, NEW s \in Sessions, Loops(k, s)'
        PROVE  Loops(k, s) /\ svc'[<<k, s>>].running
    <3>1. Loops(k, s) /\ <<k, s>> \in Kinds \X Sessions
      BY <1>2, <2>2, <2>3 DEF Loops
    <3>2. <<k, s>> # Target
      <4> SUFFICES ASSUME <<k, s>> = Target PROVE FALSE
        OBVIOUS
      <4>1. work[1].do = "free" /\ work[1].what = k /\ work[1].id = s
        BY <1>1, <2>1 DEF Target
      <4>2. StopAhead(work, k, s, 1)
        BY <1>1, <3>1, <4>1 DEF ClockInv, FreeInv
      <4> QED BY <4>2 DEF StopAhead
    <3>3. svc[<<k, s>>].running
      BY <2>1, <3>1 DEF ClockInv, ToldInv, Doing
    <3> QED BY <1>4, <3>1, <3>2, <3>3
  <2>4. \A s \in Sessions : svc[<<"ntp", s>>].live =>
          svc'[<<"ntp", s>>].live \/ Target = <<"ntp", s>>
    BY <1>2, <1>4
  <2> QED BY <1>1, <2>1, <2>3, <2>4, PopClock
<1> QED BY <1>5, <1>6, <1>7

\* The thread leaves, removing what is left.
LEMMA ExitClock ==
  ASSUME ServerInv, ClockInv, ExitRemove \/ ExitClear \/ ExitReturn
  PROVE  ClockInv'
<1>1. svc' = svc /\ connections' = connections
  BY DEF ExitRemove, ExitClear, ExitReturn, table
<1>2. work = <<>>
  BY DEF ExitRemove, ExitClear, ExitReturn, ServerInv, ThreadInv
<1>3. CalmInv
  BY <1>2, NoneCalm, JobsNone, ToCalm
<1>4. CASE ExitRemove
  <2>1. Connected # {} /\ work' = Remove(Lowest(Connected)) \o <<>>
    BY <1>4, RemoveAlone DEF ExitRemove
  <2>2. Lowest(Connected) \in Slots
    <3>1. Connected \subseteq Nat /\ Connected \subseteq Slots
      BY TableSets DEF ServerInv
    <3>2. Lowest(Connected) \in Connected
      BY <2>1, <3>1, LowestExists
    <3> QED BY <3>1, <3>2
  <2> QED BY <1>1, <1>3, <2>1, <2>2, NoneCalm, JobsNone, RemoveClock DEF ServerInv
<1>5. CASE ExitClear \/ ExitReturn
  <2>1. work' = <<>>
    BY <1>2, <1>5 DEF ExitClear, ExitReturn
  <2> QED BY <1>1, <1>2, <2>1, NoneCalm, JobsNone, CalmStep
<1> QED BY <1>4, <1>5

\* All steps of the httpd thread.
LEMMA HttpdClock ==
  ASSUME SvcInv, ServerInv, ClockInv, Httpd
  PROVE  ClockInv'
<1>1. ASSUME NEW c \in Slots,
             \/ RecvNothing(c) \/ RecvEnd(c) \/ RecvRequest(c)
             \/ RecvRejected(c) \/ RecvCapture(c)
             \/ CaptureRemove(c) \/ CaptureDone(c)
             \/ Request(c)
      PROVE  ClockInv'
  BY <1>1, RecvClock, RequestClock
<1> QED BY <1>1, LoopClock, ReleaseClock, CloseClock, ExitClock DEF Httpd

-----------------------------------------------------------------------------
\* The other threads at most end loops.
LEMMA ElseClock ==
  ASSUME ClockInv, UNCHANGED <<connections, work>>,
         \A k \in Streams, s \in Sessions : Loops(k, s)' =>
            Loops(k, s) /\ svc'[<<k, s>>].running = svc[<<k, s>>].running,
         \A s \in Sessions : svc'[<<"ntp", s>>].live = svc[<<"ntp", s>>].live,
         TableInv
  PROVE  ClockInv'
<1>1. PointerInv'
  BY DEF ClockInv, PointerInv
<1>2. ClockOutlivesUsers'
  BY DEF ClockInv, ClockOutlivesUsers, Loops
<1>3. OwnedInv'
  <2> SUFFICES ASSUME NEW c \in Slots, NEW t, t = connections[c].timing, t # None
               PROVE  /\ svc'[<<"ntp", t>>].live \/ Closing(work, c, 1)
                      /\ \A k \in Streams : Loops(k, t)' =>
                           connections[c].streams = t \/ StopAhead(work, k, t, Len(work) + 1)
    BY DEF OwnedInv
  <2>1. t \in Sessions
    BY DEF TableInv, Connections
  <2> QED BY <2>1 DEF ClockInv, OwnedInv
<1>4. ToldInv'
  BY DEF ClockInv, ToldInv, Doing, Target
<1>5. FreeInv'
  BY DEF ClockInv, FreeInv
<1> QED BY <1>1, <1>2, <1>3, <1>4, <1>5 DEF ClockInv

\* Where everything is gone nothing loops and nothing is pointed to.
LEMMA CrashClock ==
  ASSUME connections' = [c \in Slots |-> Closed], work' = <<>>,
         svc' = [id \in Kinds \X Sessions |-> Absent]
  PROVE  ClockInv'
<1>1. \A c \in Slots : connections'[c].timing = None /\ connections'[c].streams = None
  BY DEF Closed
<1>2. \A k \in Streams, s \in Sessions : ~Loops(k, s)'
  BY DEF Loops, Absent, Kinds
<1>3. CalmInv'
  BY <1>1, <1>2 DEF CalmInv, PointerInv, ClockOutlivesUsers, Loops
<1> QED BY <1>3, NoneCalm, FromCalm

\* A service leaves its loop, or was out of it.
LEMMA ServiceClock ==
  ASSUME SvcInv, ServerInv, ClockInv, NEW k \in Kinds, NEW s \in Sessions, Service(k, s)
  PROVE  ClockInv'
<1>1. CASE ConnResetAsserts(k, s)
  BY <1>1, CrashClock DEF ConnResetAsserts, Crash
<1>2. CASE ~ConnResetAsserts(k, s)
  <2>1. UNCHANGED <<connections, work>>
    BY <1>2 DEF Service, ServiceProceed, ServiceLeave, ServiceClear, ServiceReturn,
                ConnReset, ConnResetJoin, ConnResetFlag, table
  <2>2. /\ <<k, s>> \in Kinds \X Sessions /\ svc[<<k, s>>] \in Services
        /\ svc \in [Kinds \X Sessions -> Services]
    BY DEF SvcInv
  <2>3. /\ svc'[<<k, s>>].at # "loop" /\ svc'[<<k, s>>].live = svc[<<k, s>>].live
        /\ \A id \in Kinds \X Sessions : id # <<k, s>> => svc'[id] = svc[id]
    <3>1. CASE ServiceLeave(k, s)
      BY <2>2, <3>1 DEF ServiceLeave, Services
    <3>2. CASE ServiceClear(k, s)
      BY <2>2, <3>2 DEF ServiceClear, Services
    <3>3. CASE ServiceReturn(k, s)
      BY <2>2, <3>3 DEF ServiceReturn, Services
    <3>4. CASE ConnReset(k, s)
      BY <2>2, <3>4 DEF ConnReset, Services
    <3>5. CASE ConnResetJoin(k, s) \/ ConnResetFlag(k, s)
      BY <2>2, <3>5, SMTT(40) DEF ConnResetJoin, ConnResetFlag, Services
    <3> QED BY <1>2, <3>1, <3>2, <3>3, <3>4, <3>5 DEF Service, ServiceProceed
  <2>4. "ntp" \in Kinds /\ Streams \subseteq Kinds
    BY DEF Kinds
  <2>5. \A l \in Streams, r \in Sessions : Loops(l, r)' =>
          Loops(l, r) /\ svc'[<<l, r>>].running = svc[<<l, r>>].running
    BY <2>3, <2>4 DEF Loops
  <2>6. \A r \in Sessions : svc'[<<"ntp", r>>].live = svc[<<"ntp", r>>].live
    BY <2>3, <2>4
  <2> QED BY <2>1, <2>5, <2>6, ElseClock DEF ServerInv
<1> QED BY <1>1, <1>2

\* The main loop touches no session.
LEMMA MainClock ==
  ASSUME ServerInv, ClockInv, MainProceed \/ Quit
  PROVE  ClockInv'
<1>1. CASE DestroyUsed
  BY <1>1, CrashClock DEF DestroyUsed, Crash
<1>2. CASE ~DestroyUsed
  <2>1. UNCHANGED <<connections, work, svc>>
    BY <1>2 DEF MainProceed, Quit, Start, Enter, Reset, StopForRelaunch, JoinForRelaunch,
                Relaunch, DestroyStop, DestroyJoin, DestroyFree, Restart, table
  <2> QED BY <2>1, ElseClock DEF ServerInv, Loops
<1> QED BY <1>1, <1>2

\* Nothing loops at the start.
LEMMA InitClock == Init => ClockInv
<1> SUFFICES ASSUME Init PROVE ClockInv
  OBVIOUS
<1>1. \A c \in Slots : connections[c].timing = None /\ connections[c].streams = None
  BY DEF Init, Closed
<1>2. \A k \in Streams, s \in Sessions : ~Loops(k, s)
  BY DEF Init, Loops, Absent, Kinds
<1>3. \A i \in 1 .. Len(work) : FALSE
  BY JobsNone DEF Init
<1> QED BY <1>1, <1>2, <1>3
        DEF ClockInv, PointerInv, ClockOutlivesUsers, OwnedInv, ToldInv, FreeInv, Loops

\* Every step keeps the clock alive.
LEMMA StepClock == IInv /\ ServerInv /\ ClockInv /\ [Next]_vars => ClockInv'
<1> SUFFICES ASSUME IInv, ServerInv, ClockInv, [Next]_vars PROVE ClockInv'
  OBVIOUS
<1>1. SvcInv
  BY DEF IInv
<1>2. CASE Next
  BY <1>1, <1>2, HttpdClock, MainClock, ServiceClock DEF Next
<1>3. CASE UNCHANGED vars
  <2>1. UNCHANGED <<connections, work, svc>>
    BY <1>3 DEF vars, table
  <2> QED BY <2>1, ElseClock DEF ServerInv, Loops
<1> QED BY <1>2, <1>3

\* While audio or mirroring is in its loop, where it reads the clock, the timing
\* service of its session is not freed, in whatever order requests, lost clients
\* and restarts end the session (conn_destroy of raop.c).
THEOREM ClockAlways == Spec => []ClockOutlivesUsers
<1>1. ClockInv => ClockOutlivesUsers
  BY DEF ClockInv
<1>2. Spec => []IInv
  BY InitJoin, StepJoin, PTL DEF Spec
<1>3. Spec => []ClockInv
  BY <1>2, ServerAlways, InitClock, StepClock, PTL DEF Spec
<1> QED BY <1>1, <1>3, PTL
=============================================================================
