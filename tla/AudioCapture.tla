----------------------------- MODULE AudioCapture -----------------------------
(* analyzeAcousticToF of aegis-sdk over its one AudioCollector: a call opens   *)
(* the microphone, plays a chirp, waits, looks for the chirp in what has been  *)
(* recorded, and stops the recording. Calls may overlap; a call is cut at its  *)
(* awaits.                                                                     *)
(*                                                                             *)
(*   Analyze -> [getUserMedia] -> [addModule] -> [chirp ends] -> [500 ms]      *)
(*                                                                             *)
(* The browser is external. A stream, the node it feeds and a chirp are named  *)
(* by the call that made them. The audio thread sends chunks of samples to the *)
(* main thread, where they may arrive after the recording was stopped.         *)
(* AudioCollector's clearBuffer, resume and close have no caller.              *)
EXTENDS Integers, Sequences

CONSTANTS
  Call,            \* calls of analyzeAcousticToF
  Nonce,           \* call -> the nonce of its chirp, Date.now()
  MAX_BUFFER_SIZE, \* in samples
  ChunkSizes,      \* a worklet's and a script processor's chunk, in samples
  ChirpLength,     \* in samples
  MaxDelay,        \* config.maxDelayMs, in samples
  Nil,
  MaxSamples,      \* bound: the browser records no further sample
  MaxFlight        \* bound: messages of one node under way

ASSUME CallAssumption == Nil \notin Call /\ Nonce \in [Call -> Nat]
ASSUME SizeAssumption ==
  /\ MAX_BUFFER_SIZE \in Nat \ {0}
  /\ ChunkSizes \in [worklet : Nat \ {0}, script : Nat \ {0}]
  /\ ChirpLength \in Nat \ {0} /\ MaxDelay \in Nat
  /\ MaxSamples \in Nat /\ MaxFlight \in Nat

VARIABLES
  isRecording,
  mediaStream,      \* the stream of the collector, or Nil
  audioWorklet, scriptProcessor,   \* its nodes, or Nil
  audioBuffer,      \* the chunks; "start" is the number of samples before it
  pc,
  latestToFResult,  \* and what the call that made it returns
  (* The browser:                                                            *)
  live,             \* streams whose tracks are not stopped
  worklets,         \* worklet nodes: their processors never end
  scripts,          \* script processors that are connected
  port,             \* worklet node -> chunks on their way to the main thread
  received,         \* samples that the main thread has been given
  (* History:                                                                *)
  result,           \* call -> what it returned
  overlapped,       \* a call began beside another
  thrown            \* a capture failed after it had its stream

collectorVars == <<isRecording, mediaStream, audioWorklet, scriptProcessor>>
graphVars == <<live, worklets, scripts>>
soundVars == <<audioBuffer, port, received>>
resultVars == <<latestToFResult, result>>
vars == <<collectorVars, graphVars, soundVars, resultVars, pc, overlapped, thrown>>

Sound == Call \cup {Nil}   \* the echo of a chirp, or none
Chunk == [start : Nat, size : Nat, sound : Sound]
Reading == [of : Sound, delay : Nat, age : Nat, phaseSignatureValid : BOOLEAN]

-------------------------------------------------------------------------------
(* ChirpGenerator and ToFAnalyzer. A phase is a number of 256ths of a turn.    *)

Turn == 256
PhaseOffset(nonce) == Turn * (nonce % 256)

(* The chirp of d is taken for the chirp of c: every sample of the one is the  *)
(* sine of the phase of the other, and noise decides which is the better match.*)
SoundsLike(c, d) == PhaseOffset(Nonce[c]) % Turn = PhaseOffset(Nonce[d]) % Turn

FirstStart(b) == CHOOSE n \in {k.start : k \in b} : \A k \in b : n <= k.start

(* analyze: the lag of the best match, counted from the oldest sample held.    *)
(* The last lag at which the chirp would fit is not tried, so samples no more  *)
(* than the chirp give one lag of no correlation; fewer, and the two trade     *)
(* places (tof-analyzer.ts:41, 70). The best peak of noise is a reading of no  *)
(* echo too. NoMatch stands for all of these: a place and a height that have   *)
(* nothing to do with where a chirp begins.                                    *)
Matches(c, b) ==
  {k \in b : /\ k.sound # Nil /\ SoundsLike(c, k.sound)
             /\ k.start + ChirpLength < received}

NoMatch == [of |-> Nil, delay |-> 0, age |-> 0, phaseSignatureValid |-> FALSE]

(* Mutant: the lag is counted the wrong way.                                   *)
MatchBackwards(b, k) ==
  LET delay == FirstStart(b) - k.start IN
  [of |-> k.sound, delay |-> delay, age |-> received - k.start,
   phaseSignatureValid |-> delay <= MaxDelay]

Match(b, k) ==
  LET delay == k.start - FirstStart(b) IN
  [of |-> k.sound, delay |-> delay, age |-> received - k.start,
   phaseSignatureValid |-> delay <= MaxDelay]

-------------------------------------------------------------------------------
(* AudioCollector *)

(* enforceBufferLimit drops chunks from the front until the samples from the   *)
(* first to the latest fit.                                                    *)
(* Mutant: a chunk counts once its first sample fits.                          *)
EnforceBufferLimitLate(b, total) ==
  {k \in b : total - (k.start + k.size) <= MAX_BUFFER_SIZE}

EnforceBufferLimit(b, total) == {k \in b : total - k.start <= MAX_BUFFER_SIZE}

(* onmessage, onaudioprocess: neither asks whether the recording goes on.      *)
Push(size, sound) ==
  /\ received' = received + size
  /\ audioBuffer' =
       EnforceBufferLimit(audioBuffer \cup
         {[start |-> received, size |-> size, sound |-> sound]}, received')

(* Mutants: the tracks go on; the stopped stream is kept; nothing is done      *)
(* without a stream.                                                           *)
StopCaptureKeepsTracks ==
  IF isRecording
  THEN /\ isRecording' = FALSE
       /\ mediaStream' = Nil /\ audioWorklet' = Nil /\ scriptProcessor' = Nil
       /\ scripts' = scripts \ {scriptProcessor}
       /\ UNCHANGED live
  ELSE UNCHANGED <<collectorVars, live, scripts>>

StopCaptureLosesStream ==
  IF isRecording
  THEN /\ isRecording' = FALSE
       /\ audioWorklet' = Nil /\ scriptProcessor' = Nil
       /\ live' = live \ {mediaStream}
       /\ scripts' = scripts \ {scriptProcessor}
       /\ UNCHANGED mediaStream
  ELSE UNCHANGED <<collectorVars, live, scripts>>

StopCaptureWithStream ==
  IF isRecording /\ mediaStream # Nil
  THEN /\ isRecording' = FALSE
       /\ mediaStream' = Nil /\ audioWorklet' = Nil /\ scriptProcessor' = Nil
       /\ live' = live \ {mediaStream}
       /\ scripts' = scripts \ {scriptProcessor}
  ELSE UNCHANGED <<collectorVars, live, scripts>>

StopCapture ==
  IF isRecording
  THEN /\ isRecording' = FALSE
       /\ mediaStream' = Nil /\ audioWorklet' = Nil /\ scriptProcessor' = Nil
       /\ live' = live \ {mediaStream}
       /\ scripts' = scripts \ {scriptProcessor}
  ELSE UNCHANGED <<collectorVars, live, scripts>>

-------------------------------------------------------------------------------
Goto(c, from, to) == pc[c] = from /\ pc' = [pc EXCEPT ![c] = to]
Busy(c) == pc[c] \notin {"idle", "done"}

(* startCapture returns at once beside a recording, and the chirp is played.   *)
Analyze(c) ==
  /\ Goto(c, "idle", IF isRecording THEN "play" ELSE "media")
  /\ overlapped' = (overlapped \/ \E d \in Call : Busy(d))
  /\ UNCHANGED <<collectorVars, graphVars, soundVars, resultVars, thrown>>

(* With the constraints or, if they are refused, without.                      *)
MediaGranted(c) ==
  /\ Goto(c, "media", "module")
  /\ mediaStream' = c /\ live' = live \cup {c}
  /\ UNCHANGED <<isRecording, audioWorklet, scriptProcessor, worklets, scripts,
                 soundVars, resultVars, overlapped, thrown>>

MediaRefused(c) ==
  /\ Goto(c, "media", "done")
  /\ UNCHANGED <<collectorVars, graphVars, soundVars, resultVars, overlapped, thrown>>

(* No source for the stream, or neither node can be made.                      *)
CaptureThrows(c) ==
  /\ Goto(c, "module", "done")
  /\ thrown' = TRUE
  /\ UNCHANGED <<collectorVars, graphVars, soundVars, resultVars, overlapped>>

(* A worklet or else a script processor; then the chirp is played.             *)
Recording(c) ==
  /\ Goto(c, "module", "play")
  /\ isRecording' = TRUE
  /\ \/ /\ audioWorklet' = c /\ worklets' = worklets \cup {c}
        /\ UNCHANGED <<scriptProcessor, scripts>>
     \/ /\ scriptProcessor' = c /\ scripts' = scripts \cup {c}
        /\ UNCHANGED <<audioWorklet, worklets>>
  /\ UNCHANGED <<mediaStream, live, soundVars, resultVars, overlapped, thrown>>

ChirpEnded(c) ==
  /\ Goto(c, "play", "window")
  /\ UNCHANGED <<collectorVars, graphVars, soundVars, resultVars, overlapped, thrown>>

Finish(c) ==
  /\ Goto(c, "window", "done")
  /\ LET found == Matches(c, audioBuffer) IN
       \/ found = {} /\ latestToFResult' = NoMatch
       \/ \E k \in found : latestToFResult' = Match(audioBuffer, k)
  /\ result' = [result EXCEPT ![c] = latestToFResult']
  /\ StopCapture
  /\ UNCHANGED <<worklets, soundVars, overlapped, thrown>>

-------------------------------------------------------------------------------
(* The audio thread. A stopped stream is silent.                               *)
Audible(c) ==
  {Nil} \cup IF c \in live THEN {d \in Call : pc[d] \in {"play", "window"}} ELSE {}

WorkletPosts(c) ==
  /\ c \in worklets /\ Len(port[c]) < MaxFlight /\ received < MaxSamples
  /\ \E sound \in Audible(c) : port' = [port EXCEPT ![c] = Append(@, sound)]
  /\ UNCHANGED <<collectorVars, graphVars, audioBuffer, received, resultVars, pc,
                 overlapped, thrown>>

OnMessage(c) ==
  /\ port[c] # <<>>
  /\ port' = [port EXCEPT ![c] = Tail(@)]
  /\ Push(ChunkSizes.worklet, Head(port[c]))
  /\ UNCHANGED <<collectorVars, graphVars, resultVars, pc, overlapped, thrown>>

OnAudioProcess(c) ==
  /\ c \in scripts /\ received < MaxSamples
  /\ \E sound \in Audible(c) : Push(ChunkSizes.script, sound)
  /\ UNCHANGED <<collectorVars, graphVars, port, resultVars, pc, overlapped, thrown>>

-------------------------------------------------------------------------------
Init ==
  /\ isRecording = FALSE
  /\ mediaStream = Nil /\ audioWorklet = Nil /\ scriptProcessor = Nil
  /\ audioBuffer = {} /\ received = 0
  /\ pc = [c \in Call |-> "idle"]
  /\ latestToFResult = Nil
  /\ live = {} /\ worklets = {} /\ scripts = {}
  /\ port = [c \in Call |-> <<>>]
  /\ result = [c \in Call |-> Nil]
  /\ overlapped = FALSE /\ thrown = FALSE

Captured(c) == Recording(c) \/ CaptureThrows(c)

Step(c) ==
  \/ Analyze(c) \/ MediaGranted(c) \/ MediaRefused(c) \/ Captured(c)
  \/ ChirpEnded(c) \/ Finish(c)
  \/ WorkletPosts(c) \/ OnMessage(c) \/ OnAudioProcess(c)

Next == \E c \in Call : Step(c)

Spec == Init /\ [][Next]_vars

(* The browser loads the worklet or fails, plays the chirp (the page has been  *)
(* clicked, or its contexts stay suspended) and runs timers. Nobody need       *)
(* answer the question for the microphone.                                     *)
FairSpec ==
  /\ Spec
  /\ \A c \in Call : WF_vars(Captured(c)) /\ WF_vars(ChirpEnded(c)) /\ WF_vars(Finish(c))

-------------------------------------------------------------------------------
(* Properties *)

(* Types; and only a call that was given a stream has one that is live.        *)
TypeOK ==
  /\ isRecording \in BOOLEAN /\ overlapped \in BOOLEAN /\ thrown \in BOOLEAN
  /\ {mediaStream, audioWorklet, scriptProcessor} \subseteq Call \cup {Nil}
  /\ pc \in [Call -> {"idle", "media", "module", "play", "window", "done"}]
  /\ live \subseteq {c \in Call : pc[c] \notin {"idle", "media"}}
  /\ worklets \subseteq Call /\ scripts \subseteq Call
  /\ port \in [Call -> Seq(Sound)]
  /\ received \in Nat
  /\ audioBuffer \subseteq Chunk
  /\ \A k \in audioBuffer : k.start <= received
  /\ latestToFResult \in Reading \cup {Nil}
  /\ result \in [Call -> Reading \cup {Nil}]

(* No reading rests on a sound further back than the window, though nothing    *)
(* clears the buffer between captures and chunks arrive after a recording was  *)
(* stopped. The window is one of samples, not of time: without a recording     *)
(* nothing grows old (audio-collector.ts:125-130, 208-217).                    *)
StaleReadingsAreBounded ==
  \A c \in Call : result[c] # Nil => result[c].age <= MAX_BUFFER_SIZE

(* However calls overlap and fail, the collector records only for a call that  *)
(* is there to stop it (audio-collector.ts:47, 87, 156-161, index.ts:250).     *)
RecordsOnlyForACall ==
  isRecording => \E c \in Call : pc[c] \in {"play", "window"}

(* When no call is under way the microphone is off, unless calls have          *)
(* overlapped, which leaves a stream nobody stops (audio-collector.ts:62), or  *)
(* a capture has failed with its stream open (audio-collector.ts:77-85).       *)
MicrophoneIsReleased ==
  ~overlapped /\ ~thrown /\ (\A c \in Call : ~Busy(c)) => live = {}

(* The stream the collector holds for a call is let go, by that call or by     *)
(* another (audio-collector.ts:173-176).                                       *)
StreamIsLetGo ==
  \A c \in Call :
    mediaStream = c /\ pc[c] = "play" ~> mediaStream # c

(* README.md:36: the SDK "Plays an ultrasonic chirp through speakers and       *)
(* measures microphone response time": the response measured is the response   *)
(* to the chirp that was played, at least if calls do not overlap.             *)
EveryReadingIsItsOwn ==
  ~overlapped => \A c \in Call : result[c] # Nil => result[c].of \in {c, Nil}
===============================================================================
