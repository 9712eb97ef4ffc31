----------------------------- MODULE MCServices -----------------------------
(***************************************************************************)
(* The services that do not meet each other, checked in one run: the first *)
(* state says which one it is about, and the others stay as they began.    *)
(*   timing    a ring of two entries, a limit of two timeouts, datagrams   *)
(*             that take three times or no time, a client whose clock is   *)
(*             behind                                                      *)
(*   pairing   two clients of a server with random pins and a list, with a *)
(*             configured pin, and without                                 *)
(*   renderer  two clients whose clocks are ten apart: without -nohold     *)
(*             also PCM, which has no pipeline and no mark, and two times; *)
(*             with it the two formats that have a pipeline, at one time   *)
(*   network   two client programs, one of which sends a sound with a zero *)
(*             byte or one as long as the header                           *)
(*   assistant a sentence per class, one of them unsure                    *)
(*   response  an allocation of eight, and a body that does not fit it     *)
(*   metrics   two threads; a name that is no label, and one that is no    *)
(*             name                                                        *)
(***************************************************************************)
EXTENDS Services, TLC

VARIABLE unit

MCDelays == {0, 3}
MCTheta == -50

MCPinOptions == {[use_pin |-> TRUE, pin |-> 0, registration |-> TRUE],
                 [use_pin |-> TRUE, pin |-> 11234, registration |-> FALSE],
                 [use_pin |-> FALSE, pin |-> 0, registration |-> FALSE]}

Sound(audio_sync, alac, nohold, delay) ==
  [audio_sync |-> audio_sync, video_sync |-> TRUE, nohold |-> nohold, aac |-> TRUE,
   alac |-> alac, audio_delay_alac |-> 0, audio_delay_aac |-> delay]
MCSoundOptions == {Sound(TRUE, TRUE, FALSE, 1), Sound(FALSE, FALSE, TRUE, -1)}
MCSkew == 1 :> 0 @@ 2 :> -10

MCSounds == {<<1>>, <<1, 0>>, <<1, 2, 1, 2>>}

Word(e, p) == [entity |-> e, sure |-> p]
MCSentences == {
  [class |-> 1, sure |-> 85, words |-> <<Word(1, 51), Word(2, 90)>>, spoken |-> 1],
  [class |-> 1, sure |-> 84, words |-> <<Word(1, 50)>>, spoken |-> 2],
  [class |-> 2, sure |-> 90, words |-> [i \in 1 .. 3 |-> Word(1, 51)], spoken |-> 3],
  [class |-> 3, sure |-> 90, words |-> <<>>, spoken |-> 4]}
MCClassLabels == 1 :> "PlayMusic" @@ 2 :> "ControlLight"
MCEntityLabels == 1 :> "B"

MCNames == {<<"alpha">>, <<"le">>, <<"alpha", ":">>, <<"_", "_">>}
MCBoundaries == <<0, 2>>
MCValues == {-1, 2, 3}

-----------------------------------------------------------------------------
MCInit ==
  /\ unit \in {"timing", "pairing", "renderer", "network", "assistant", "response", "metrics"}
  /\ Init
  /\ Pairing!Init /\ (unit = "pairing" \/ options.pin = 11234)
  /\ Renderer!Init /\ (unit = "renderer" \/ audio.nohold)
  /\ Network!Init /\ sound["a"] = <<1>> /\ (IF unit = "network" THEN sound["b"] # <<1>> ELSE sound["b"] = <<1>>)
  /\ Assistant!Init
  /\ Response!Init
  /\ Metrics!Init

Timing == unit = "timing" /\ Next
  /\ UNCHANGED <<unit, PairingVars, RendererVars, NetworkVars, AssistantVars, ResponseVars, MetricsVars>>
PairingStep == unit = "pairing" /\ Pairing!Next
  /\ UNCHANGED <<unit, vars, RendererVars, NetworkVars, AssistantVars, ResponseVars, MetricsVars>>
RendererStep == unit = "renderer" /\ Renderer!Next
  /\ (audio.nohold => played' # <<1>> /\ now' = 0)
  /\ UNCHANGED <<unit, vars, PairingVars, NetworkVars, AssistantVars, ResponseVars, MetricsVars>>
NetworkStep == unit = "network" /\ Network!Next
  /\ UNCHANGED <<unit, vars, PairingVars, RendererVars, AssistantVars, ResponseVars, MetricsVars>>
AssistantStep == unit = "assistant" /\ Assistant!Next
  /\ UNCHANGED <<unit, vars, PairingVars, RendererVars, NetworkVars, ResponseVars, MetricsVars>>
ResponseStep == unit = "response" /\ Response!Next
  /\ UNCHANGED <<unit, vars, PairingVars, RendererVars, NetworkVars, AssistantVars, MetricsVars>>
MetricsStep == unit = "metrics" /\ Metrics!Next
  /\ UNCHANGED <<unit, vars, PairingVars, RendererVars, NetworkVars, AssistantVars, ResponseVars>>

MCNext ==
  \/ Timing \/ PairingStep \/ RendererStep \/ NetworkStep \/ AssistantStep
  \/ ResponseStep \/ MetricsStep

\* The fairness of each unit's specification, in the run that is about it.
MCFairness ==
  /\ WF_vars(unit = "timing" /\ TimingThread)
  /\ WF_vars(unit = "timing" /\ StopClose)
  /\ WF_vars(unit = "timing" /\ StopJoin)
  /\ WF_vars(unit = "timing" /\ \E m \in wire : Arrive(m) \/ Lose(m))
  /\ WF_NetworkVars(unit = "network" /\ Network!Up /\ Network!RunServer)
  /\ \A c \in {"a", "b"} :
       /\ WF_NetworkVars(unit = "network" /\ Network!Up /\ Network!Connect(c))
       /\ WF_NetworkVars(unit = "network" /\ Network!Up /\ Network!LeaveScope(c))
       /\ WF_NetworkVars(unit = "network" /\ Network!Up /\ Network!Speak(c))
       /\ SF_NetworkVars(unit = "network" /\ Network!Up /\ Network!Serve(c))
  /\ WF_AssistantVars(unit = "assistant" /\ Assistant!Sane /\ Assistant!Console)
  /\ WF_AssistantVars(unit = "assistant" /\ Assistant!Sane /\ Assistant!Worker)

allvars ==
  <<unit, vars, PairingVars, RendererVars, NetworkVars, AssistantVars, ResponseVars, MetricsVars>>
MCSpec == MCInit /\ [][MCNext]_allvars /\ MCFairness

-----------------------------------------------------------------------------
\* What was begun is finished: a sound whose header came in one piece is
\* answered, a typed sentence processed by both threads, and the timing
\* service stopped when that is asked for.
ServicesServe == Network!SoundsAreServed /\ Assistant!TasksAreDone /\ StopReturns
=============================================================================
