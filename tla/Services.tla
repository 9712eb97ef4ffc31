------------------------------ MODULE Services ------------------------------
(***************************************************************************)
(* The services next to the timing service, side by side: pairing, where   *)
(* the audio goes, the sound service, the assistant's tasks, the answers   *)
(* of the server and the metrics.  They meet neither each other nor the    *)
(* timing service, so each is an instance with constants and variables of  *)
(* its own, and a promise of its own.                                      *)
(***************************************************************************)
EXTENDS RaopNtp

CONSTANTS
  PRIME, GENERATOR, HASH, BYTE, Conns, PinOptions, PinChoices, ServerKeys, ClientKeys, Salts,
  Clients, Skew, Errors, Formats, SoundOptions, MAX_TIME,
  Speakers, Sounds,
  Sentences, max_length_, ClassLabels, EntityLabels, Outputs, Lines, HomeAssistant,
  DATA_SIZE, StatusLines, HeaderLines, Bodies, HEADERS,
  Threads, Types, Names, merge, bucket_boundaries_, Values, Operations

\* The group of the key agreement is that of a number, and keys, salts and pins
\* are numbers.
ASSUME PairingAssumption ==
  /\ PRIME \in Nat \ {0, 1} /\ GENERATOR \in Nat /\ HASH \in Nat \ {0}
  /\ ServerKeys \subseteq Nat /\ ClientKeys \subseteq Nat /\ Salts \subseteq Nat
  /\ Conns \subseteq Nat /\ PinChoices \subseteq Nat /\ \A o \in PinOptions : o.pin \in Nat

\* A client is not NoClient, and times, errors and delays are numbers.
ASSUME RendererAssumption ==
  /\ 0 \notin Clients /\ Skew \in [Clients -> Int] /\ Errors \subseteq Int
  /\ \A o \in SoundOptions : o.audio_delay_alac \in Int /\ o.audio_delay_aac \in Int

\* Texts are sequences, nobody has the name of a free mutex, a model's certainty
\* is a percentage, and lines are counted.
ASSUME NetworkAssumption == Sounds \subseteq Seq(Nat) /\ "free" \notin Speakers
ASSUME AssistantAssumption == Lines \in Nat /\ \A s \in Sentences : s.sure \in Int

\* Nobody has the name of a free mutex; the bounds of the buckets increase, for
\* the constructor refuses others.
ASSUME MetricsAssumption ==
  /\ "free" \notin Threads
  /\ bucket_boundaries_ \in Seq(Int) /\ Values \subseteq Int /\ Operations \in Nat
  /\ \A a, b \in DOMAIN bucket_boundaries_ :
       a < b => bucket_boundaries_[a] < bucket_boundaries_[b]

VARIABLES
  options, raop_pin, shown, registered, pairing_session, peer, paired, refused,
  audio, now, open, holder, played, setting, destroying, renderer, playing, render_audio,
  sync, base_time, remote_clock_offset, stale, packet, audio_reset, started_over, pushed,
  crashed,
  listening, sound, owner, speech, sd, stream, sound_session, lock, heard,
  console, typed, taskQueue, worker, byConsole, byWorker, did,
  response, asked,
  families, thrown, gauge, incremented, histogram, observed, collected, observer, operations

PairingVars ==
  <<options, raop_pin, shown, registered, pairing_session, peer, paired, refused>>
RendererVars ==
  <<audio, now, open, holder, played, setting, destroying, renderer, playing, render_audio, sync,
    base_time, remote_clock_offset, stale, packet, audio_reset, started_over, pushed, crashed>>
NetworkVars == <<listening, sound, owner, speech, sd, stream, sound_session, lock, heard>>
AssistantVars == <<console, typed, taskQueue, worker, byConsole, byWorker, did>>
ResponseVars == <<response, asked>>
MetricsVars == <<families, thrown, gauge, incremented, histogram, observed, collected,
                 observer, operations>>

Pairing == INSTANCE Pairing WITH Options <- PinOptions, session <- pairing_session
Renderer == INSTANCE AudioRenderer WITH
  Options <- SoundOptions, options <- audio, stream <- played, reset_loop <- audio_reset
Network == INSTANCE NetworkManager WITH wire <- stream, session <- sound_session
Assistant == INSTANCE Assistant
Response == INSTANCE HttpResponse
Metrics == INSTANCE Metrics WITH thread <- observer

-----------------------------------------------------------------------------
\* What each service promises, stated in its module.
RightPinIsAccepted == Pairing!RightPinIsAccepted
SecretsAgree == Pairing!SecretsAgree
RendererFollowsTheStream == Renderer!RendererFollowsTheStream
HeardAsSent == Network!HeardAsSent
ResponseIsWhole == Response!ResponseIsWhole
MetricsAddUp == Metrics!MetricsAddUp

-----------------------------------------------------------------------------
\* Every service's state is of its kind: the one of RaopNtp, and those of the
\* modules the other services are instances of.
ServicesTypeOK ==
  /\ TypeOK /\ Pairing!TypeOK /\ Network!TypeOK /\ Assistant!TypeOK /\ Metrics!TypeOK
=============================================================================
