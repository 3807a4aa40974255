-------------------------- MODULE AudioCaptureProofs ---------------------------
(* Theorems about AudioCapture, for any number of calls, any sizes of chunks   *)
(* and of the buffer, and any nonces.                                          *)
EXTENDS AudioCapture, TLAPS

(* The state of a call is one of these.                                        *)
Stage == {"idle", "media", "module", "play", "window", "done"}

-------------------------------------------------------------------------------
(* The buffer *)

From(b, n) == {k \in b : k.start >= n}

(* Wherever the buffer is cut, what is left has a first chunk. Stated for all  *)
(* cuts it is inductive, for a cut of a cut is a cut.                          *)
HasFirst(b) ==
  \A n \in Int :
    From(b, n) # {} => \E k \in From(b, n) : \A j \in From(b, n) : k.start <= j.start

BufferInv ==
  /\ received \in Nat
  /\ audioBuffer \subseteq Chunk
  /\ \A k \in audioBuffer : k.start <= received /\ received - k.start <= MAX_BUFFER_SIZE
  /\ HasFirst(audioBuffer)
  /\ port \in [Call -> Seq(Sound)]

(* Cutting keeps a first chunk, whatever is cut.                               *)
LEMMA CutHasFirst ==
  ASSUME NEW b \in SUBSET Chunk, HasFirst(b), NEW n \in Int
  PROVE  HasFirst(From(b, n))
<1> SUFFICES ASSUME NEW m \in Int, From(From(b, n), m) # {}
             PROVE  \E k \in From(From(b, n), m) :
                      \A j \in From(From(b, n), m) : k.start <= j.start
  BY DEF HasFirst
<1> DEFINE l == IF n <= m THEN m ELSE n
<1>1. l \in Int
  OBVIOUS
<1>2. \A k \in b : k.start \in Nat
  BY DEF Chunk
<1>3. From(From(b, n), m) = From(b, l)
  BY <1>2 DEF From
<1> QED
  BY <1>1, <1>3 DEF HasFirst

(* A chunk behind all others leaves the first where it is, or is the first.    *)
LEMMA AppendHasFirst ==
  ASSUME NEW b \in SUBSET Chunk, HasFirst(b), NEW new \in Chunk,
         \A k \in b : k.start <= new.start
  PROVE  HasFirst(b \cup {new})
<1> SUFFICES ASSUME NEW n \in Int, From(b \cup {new}, n) # {}
             PROVE  \E k \in From(b \cup {new}, n) :
                      \A j \in From(b \cup {new}, n) : k.start <= j.start
  BY DEF HasFirst
<1>1. \A k \in b \cup {new} : k.start \in Nat
  BY DEF Chunk
<1>2. CASE From(b, n) = {}
  BY <1>1, <1>2 DEF From
<1>3. CASE From(b, n) # {}
  <2>1. PICK k \in From(b, n) : \A j \in From(b, n) : k.start <= j.start
    BY <1>3 DEF HasFirst
  <2>2. k \in b /\ k.start >= n
    BY DEF From
  <2>3. \A j \in From(b \cup {new}, n) : k.start <= j.start
    BY <2>1, <2>2 DEF From
  <2> QED
    BY <2>2, <2>3 DEF From
<1> QED
  BY <1>2, <1>3

LEMMA PushKeeps ==
  ASSUME BufferInv, NEW size \in Nat, NEW sound \in Sound, Push(size, sound)
  PROVE  /\ received' \in Nat
         /\ audioBuffer' \subseteq Chunk
         /\ \A k \in audioBuffer' :
              k.start <= received' /\ received' - k.start <= MAX_BUFFER_SIZE
         /\ HasFirst(audioBuffer')
<1> DEFINE new == [start |-> received, size |-> size, sound |-> sound]
           all == audioBuffer \cup {new}
<1>1. received' = received + size /\ received' \in Nat
  BY DEF Push, BufferInv
<1>2. new \in Chunk /\ all \in SUBSET Chunk
  BY DEF BufferInv, Chunk
<1>3. \A k \in all : k.start \in Nat /\ k.start <= received
  BY DEF BufferInv, Chunk
<1>4. audioBuffer' = From(all, received' - MAX_BUFFER_SIZE)
  <2>1. audioBuffer' = {k \in all : received' - k.start <= MAX_BUFFER_SIZE}
    BY DEF Push, EnforceBufferLimit
  <2> QED
    BY <2>1, <1>1, <1>3, SizeAssumption DEF From
<1>5. HasFirst(all)
  BY <1>2, <1>3, AppendHasFirst DEF BufferInv
<1>6. HasFirst(audioBuffer')
  <2> HIDE DEF all
  <2>1. received' - MAX_BUFFER_SIZE \in Int
    BY <1>1, SizeAssumption
  <2>2. HasFirst(From(all, received' - MAX_BUFFER_SIZE))
    BY <2>1, <1>2, <1>5, CutHasFirst
  <2> QED
    BY <2>2, <1>4
<1>7. audioBuffer' \subseteq Chunk
  BY <1>2, <1>4 DEF From
<1>8. \A k \in audioBuffer' : k.start <= received' /\ received' - k.start <= MAX_BUFFER_SIZE
  <2> SUFFICES ASSUME NEW k \in audioBuffer'
               PROVE  k.start <= received' /\ received' - k.start <= MAX_BUFFER_SIZE
    OBVIOUS
  <2> HIDE DEF all
  <2>1. k \in all /\ k.start >= received' - MAX_BUFFER_SIZE
    BY <1>4 DEF From
  <2>2. received \in Nat /\ k.start \in Nat /\ k.start <= received
    BY <2>1, <1>3 DEF BufferInv
  <2> QED
    BY <2>1, <2>2, <1>1, SizeAssumption
<1> QED
  BY <1>1, <1>6, <1>7, <1>8

LEMMA BufferInit == Init => BufferInv
  BY DEF Init, BufferInv, HasFirst, From, Sound

LEMMA BufferStep ==
  ASSUME BufferInv, [Next]_vars
  PROVE  BufferInv'
<1>1. CASE UNCHANGED vars
  BY <1>1 DEF vars, soundVars, BufferInv
<1>2. ASSUME NEW c \in Call, Step(c), UNCHANGED soundVars
      PROVE  BufferInv'
  BY <1>2 DEF soundVars, BufferInv
<1>3. ASSUME NEW c \in Call, WorkletPosts(c)
      PROVE  BufferInv'
  <2>1. PICK sound \in Audible(c) : port' = [port EXCEPT ![c] = Append(@, sound)]
    BY <1>3 DEF WorkletPosts
  <2>2. sound \in Sound
    BY DEF Audible, Sound
  <2>3. port' \in [Call -> Seq(Sound)]
    BY <2>1, <2>2 DEF BufferInv
  <2> QED
    BY <1>3, <2>3 DEF WorkletPosts, BufferInv
<1>4. ASSUME NEW c \in Call, OnMessage(c)
      PROVE  BufferInv'
  <2>1. port[c] \in Seq(Sound) /\ port[c] # <<>>
    BY <1>4 DEF OnMessage, BufferInv
  <2>2. Head(port[c]) \in Sound /\ Tail(port[c]) \in Seq(Sound)
    BY <2>1
  <2>3. port' \in [Call -> Seq(Sound)]
    BY <1>4, <2>2 DEF OnMessage, BufferInv
  <2>4. ChunkSizes.worklet \in Nat
    BY SizeAssumption
  <2> QED
    BY <1>4, <2>2, <2>3, <2>4, PushKeeps DEF OnMessage, BufferInv
<1>5. ASSUME NEW c \in Call, OnAudioProcess(c)
      PROVE  BufferInv'
  <2>1. PICK sound \in Audible(c) : Push(ChunkSizes.script, sound)
    BY <1>5 DEF OnAudioProcess
  <2>2. sound \in Sound
    BY DEF Audible, Sound
  <2>3. ChunkSizes.script \in Nat
    BY SizeAssumption
  <2>4. port' = port
    BY <1>5 DEF OnAudioProcess
  <2> QED
    BY <2>1, <2>2, <2>3, <2>4, PushKeeps DEF BufferInv
<1> QED
  BY <1>1, <1>2, <1>3, <1>4, <1>5
     DEF Next, Step, Captured, Analyze, MediaGranted, MediaRefused, Recording, CaptureThrows,
         ChirpEnded, Finish

-------------------------------------------------------------------------------
(* What a call returns *)

(* The delay of a match is counted from a chunk that is there and comes first. *)
LEMMA FirstStartIsFirst ==
  ASSUME BufferInv, NEW k \in audioBuffer
  PROVE  FirstStart(audioBuffer) \in Nat /\ FirstStart(audioBuffer) <= k.start
<1>1. \A j \in audioBuffer : j.start \in Nat
  BY DEF BufferInv, Chunk
<1>2. From(audioBuffer, 0) = audioBuffer
  BY <1>1 DEF From
<1>3. PICK f \in audioBuffer : \A j \in audioBuffer : f.start <= j.start
  BY <1>2 DEF BufferInv, HasFirst
<1>4. \E n \in {j.start : j \in audioBuffer} : \A j \in audioBuffer : n <= j.start
  BY <1>3
<1>5. /\ FirstStart(audioBuffer) \in {j.start : j \in audioBuffer}
      /\ \A j \in audioBuffer : FirstStart(audioBuffer) <= j.start
  BY <1>4 DEF FirstStart
<1> QED
  BY <1>1, <1>5

ResultInv ==
  /\ latestToFResult \in Reading \cup {Nil}
  /\ result \in [Call -> Reading \cup {Nil}]
  /\ StaleReadingsAreBounded

LEMMA ResultStep ==
  ASSUME BufferInv, ResultInv, [Next]_vars
  PROVE  ResultInv'
<1>1. CASE UNCHANGED resultVars
  BY <1>1 DEF resultVars, ResultInv, StaleReadingsAreBounded
<1>2. ASSUME NEW c \in Call, Finish(c)
      PROVE  ResultInv'
  <2> DEFINE new == latestToFResult'
  <2>1. new \in Reading /\ new.age <= MAX_BUFFER_SIZE
    <3>1. CASE new = NoMatch
      BY <3>1, SizeAssumption DEF NoMatch, Reading, Sound
    <3>2. CASE new # NoMatch
      <4>1. PICK k \in Matches(c, audioBuffer) : new = Match(audioBuffer, k)
        BY <1>2, <3>2 DEF Finish
      <4>2. /\ k \in audioBuffer /\ k.start \in Nat /\ k.sound \in Sound
            /\ received \in Nat /\ k.start <= received
            /\ received - k.start <= MAX_BUFFER_SIZE
        BY DEF Matches, BufferInv, Chunk
      <4>3. FirstStart(audioBuffer) \in Nat /\ FirstStart(audioBuffer) <= k.start
        BY <4>2, FirstStartIsFirst
      <4> QED
        BY <4>1, <4>2, <4>3 DEF Match, Reading
    <3> QED
      BY <3>1, <3>2
  <2>2. result' = [result EXCEPT ![c] = new]
    BY <1>2 DEF Finish
  <2>3. \A d \in Call : result'[d] = IF d = c THEN new ELSE result[d]
    BY <2>2 DEF ResultInv
  <2> HIDE DEF new
  <2>4. result' \in [Call -> Reading \cup {Nil}]
    BY <2>1, <2>2 DEF ResultInv
  <2>5. StaleReadingsAreBounded'
    BY <2>1, <2>3 DEF ResultInv, StaleReadingsAreBounded
  <2> QED
    BY <2>1, <2>4, <2>5 DEF ResultInv, new
<1> QED
  BY <1>1, <1>2
     DEF Next, Step, Captured, Analyze, MediaGranted, MediaRefused, Recording, CaptureThrows,
         ChirpEnded, WorkletPosts, OnMessage, OnAudioProcess, vars, resultVars

-------------------------------------------------------------------------------
(* The microphone *)

(* The state of the collector and of the browser's graph.                      *)
GraphInv ==
  /\ isRecording \in BOOLEAN /\ overlapped \in BOOLEAN /\ thrown \in BOOLEAN
  /\ {mediaStream, audioWorklet, scriptProcessor} \subseteq Call \cup {Nil}
  /\ pc \in [Call -> Stage]
  /\ live \subseteq {c \in Call : pc[c] \notin {"idle", "media"}}
  /\ worklets \subseteq Call /\ scripts \subseteq Call
  /\ RecordsOnlyForACall

(* While calls keep to themselves and no capture fails, there is at most one   *)
(* call under way, which records while it plays and listens; only the stream   *)
(* of the collector is live, and only while a call is there that has it.       *)
SoloInv ==
  ~overlapped /\ ~thrown =>
    /\ \A c, d \in Call : Busy(c) /\ Busy(d) => c = d
    /\ \A c \in Call : pc[c] \in {"play", "window"} => isRecording
    /\ live \subseteq {mediaStream}
    /\ live # {} => \E c \in Call : pc[c] \in {"module", "play", "window"}

LEMMA GraphInit == Init => GraphInv /\ SoloInv
  BY DEF Init, GraphInv, SoloInv, RecordsOnlyForACall, Busy, Stage

(* A recording is begun and ended by the call that moves; any other step       *)
(* leaves the call that plays or listens where it is.                          *)
LEMMA GraphStep ==
  ASSUME GraphInv, [Next]_vars
  PROVE  GraphInv'
<1> USE DEF GraphInv, RecordsOnlyForACall, Stage
<1>1. CASE UNCHANGED vars
  BY <1>1 DEF vars, collectorVars, graphVars
<1>2. ASSUME NEW c \in Call, Analyze(c)
      PROVE  GraphInv'
  <2>1. isRecording => \E d \in Call \ {c} : pc[d] \in {"play", "window"}
    BY <1>2 DEF Analyze, Goto
  <2> QED
    BY <1>2, <2>1 DEF Analyze, Goto, collectorVars, graphVars
<1>3. ASSUME NEW c \in Call, MediaGranted(c)
      PROVE  GraphInv'
  BY <1>3 DEF MediaGranted, Goto
<1>4. ASSUME NEW c \in Call, MediaRefused(c) \/ CaptureThrows(c)
      PROVE  GraphInv'
  <2>1. /\ pc' = [pc EXCEPT ![c] = "done"] /\ pc[c] \in {"media", "module"}
        /\ UNCHANGED <<collectorVars, graphVars, overlapped>> /\ thrown' \in {thrown, TRUE}
    BY <1>4 DEF MediaRefused, CaptureThrows, Goto
  <2>2. pc' \in [Call -> Stage] /\ \A d \in Call : d # c => pc'[d] = pc[d]
    BY <2>1
  <2>3. live' \subseteq {d \in Call : pc'[d] \notin {"idle", "media"}}
    BY <2>1, <2>2 DEF graphVars
  <2> QED
    BY <2>1, <2>2, <2>3 DEF collectorVars, graphVars
<1>5. ASSUME NEW c \in Call, Recording(c)
      PROVE  GraphInv'
  <2>1. /\ pc' = [pc EXCEPT ![c] = "play"] /\ pc[c] = "module" /\ isRecording' = TRUE
        /\ UNCHANGED <<mediaStream, live, overlapped, thrown>>
    BY <1>5 DEF Recording, Goto
  <2>2. /\ audioWorklet' \in {audioWorklet, c} /\ scriptProcessor' \in {scriptProcessor, c}
        /\ worklets' \in {worklets, worklets \cup {c}}
        /\ scripts' \in {scripts, scripts \cup {c}}
    BY <1>5 DEF Recording
  <2>3. pc' \in [Call -> Stage] /\ live' \subseteq {d \in Call : pc'[d] \notin {"idle", "media"}}
    BY <2>1
  <2>4. pc'[c] = "play"
    BY <2>1
  <2> QED
    BY <2>1, <2>2, <2>3, <2>4
<1>6. ASSUME NEW c \in Call, ChirpEnded(c)
      PROVE  GraphInv'
  BY <1>6 DEF ChirpEnded, Goto, collectorVars, graphVars
<1>7. ASSUME NEW c \in Call, Finish(c)
      PROVE  GraphInv'
  BY <1>7 DEF Finish, StopCapture, Goto, collectorVars
<1>8. ASSUME NEW c \in Call, WorkletPosts(c) \/ OnMessage(c) \/ OnAudioProcess(c)
      PROVE  GraphInv'
  BY <1>8 DEF WorkletPosts, OnMessage, OnAudioProcess, collectorVars, graphVars
<1> QED
  BY <1>1, <1>2, <1>3, <1>4, <1>5, <1>6, <1>7, <1>8 DEF Next, Step, Captured

LEMMA SoloStep ==
  ASSUME GraphInv, SoloInv, [Next]_vars
  PROVE  SoloInv'
<1> SUFFICES ASSUME ~overlapped', ~thrown' PROVE SoloInv'
  BY DEF SoloInv
<1> USE DEF Busy
<1>1. CASE UNCHANGED vars
  BY <1>1 DEF vars, collectorVars, graphVars, SoloInv
<1>2. ASSUME NEW c \in Call, Analyze(c)
      PROVE  SoloInv'
  <2>1. ~overlapped /\ ~thrown /\ \A d \in Call : ~Busy(d)
    BY <1>2 DEF Analyze, GraphInv
  <2>2. ~isRecording /\ live = {}
    BY <2>1 DEF SoloInv, GraphInv, RecordsOnlyForACall
  <2> QED
    BY <1>2, <2>1, <2>2 DEF Analyze, Goto, collectorVars, graphVars, SoloInv, GraphInv
<1>3. ASSUME NEW c \in Call, MediaGranted(c)
      PROVE  SoloInv'
  <2>1. ~overlapped /\ ~thrown /\ Busy(c) /\ pc[c] = "media"
    BY <1>3 DEF MediaGranted, Goto
  <2>2. \A d \in Call : Busy(d) => d = c
    BY <2>1 DEF SoloInv
  <2>3. live = {}
    BY <2>1, <2>2 DEF SoloInv
  <2> QED
    BY <1>3, <2>2, <2>3 DEF MediaGranted, Goto, SoloInv, GraphInv
<1>4. ASSUME NEW c \in Call, MediaRefused(c)
      PROVE  SoloInv'
  BY <1>4 DEF MediaRefused, Goto, collectorVars, graphVars, SoloInv, GraphInv
<1>5. ASSUME NEW c \in Call, Recording(c)
      PROVE  SoloInv'
  BY <1>5 DEF Recording, Goto, SoloInv, GraphInv
<1>6. ASSUME NEW c \in Call, ChirpEnded(c)
      PROVE  SoloInv'
  BY <1>6 DEF ChirpEnded, Goto, collectorVars, graphVars, SoloInv, GraphInv
<1>7. ASSUME NEW c \in Call, Finish(c)
      PROVE  SoloInv'
  <2>1. ~overlapped /\ ~thrown /\ Busy(c) /\ pc[c] = "window"
    BY <1>7 DEF Finish, Goto
  <2>2. \A d \in Call : Busy(d) => d = c
    BY <2>1 DEF SoloInv
  <2>3. isRecording /\ live' = {}
    BY <1>7, <2>1 DEF Finish, StopCapture, SoloInv
  <2>4. \A d \in Call : ~Busy(d)'
    BY <1>7, <2>2 DEF Finish, Goto, GraphInv
  <2> QED
    BY <2>3, <2>4 DEF SoloInv
<1>8. ASSUME NEW c \in Call, WorkletPosts(c) \/ OnMessage(c) \/ OnAudioProcess(c)
      PROVE  SoloInv'
  BY <1>8 DEF WorkletPosts, OnMessage, OnAudioProcess, collectorVars, graphVars, SoloInv
<1>9. ASSUME NEW c \in Call, CaptureThrows(c)
      PROVE  FALSE
  BY <1>9 DEF CaptureThrows
<1> QED
  BY <1>1, <1>2, <1>3, <1>4, <1>5, <1>6, <1>7, <1>8, <1>9 DEF Next, Step, Captured

-------------------------------------------------------------------------------
IInv == BufferInv /\ ResultInv /\ GraphInv /\ SoloInv

(* What captures, chirps and late chunks keep, for any number of calls         *)
(* (audio-collector.ts:46-217).                                                *)
THEOREM Invariance == Spec => []IInv
<1>1. Init => IInv
  <2>1. Init => ResultInv
    BY DEF Init, ResultInv, StaleReadingsAreBounded
  <2> QED
    BY <2>1, BufferInit, GraphInit DEF IInv
<1>2. IInv /\ [Next]_vars => IInv'
  BY BufferStep, ResultStep, GraphStep, SoloStep DEF IInv
<1> QED
  BY <1>1, <1>2, PTL DEF Spec

(* Types, for any number of calls; and a delay is never counted from a chunk   *)
(* that is not there (audio-collector.ts:46-177, tof-analyzer.ts:29-63).       *)
THEOREM TypeCorrect == Spec => []TypeOK
<1>1. IInv => TypeOK
  BY DEF IInv, BufferInv, ResultInv, GraphInv, TypeOK, Stage
<1> QED
  BY <1>1, Invariance, PTL

(* No reading rests on a sound further back than the buffer, however captures  *)
(* follow and overlap each other (audio-collector.ts:208-217).                 *)
THEOREM ReadingsAreRecent == Spec => []StaleReadingsAreBounded
<1>1. IInv => StaleReadingsAreBounded
  BY DEF IInv, ResultInv
<1> QED
  BY <1>1, Invariance, PTL

(* The collector records only for a call that is there to stop it              *)
(* (audio-collector.ts:47, 87, 156-161).                                       *)
THEOREM RecordingHasACall == Spec => []RecordsOnlyForACall
<1>1. IInv => RecordsOnlyForACall
  BY DEF IInv, GraphInv
<1> QED
  BY <1>1, Invariance, PTL

(* The microphone is off when no call is under way, unless calls overlapped or *)
(* a capture failed with its stream open (audio-collector.ts:62, 77-88).       *)
THEOREM MicrophoneOff == Spec => []MicrophoneIsReleased
<1>1. IInv => MicrophoneIsReleased
  BY DEF IInv, SoloInv, MicrophoneIsReleased, Busy
<1> QED
  BY <1>1, Invariance, PTL

-------------------------------------------------------------------------------
(* Why a stream is let go, by whichever calls it overlaps. *)

(* The stream the collector holds is that of a call on its way to stop it, or  *)
(* of one whose capture failed; and while that call plays or listens the       *)
(* collector records, so that stopCapture will not return at once.             *)
HeldStreamCanBeStopped ==
  \A c \in Call : mediaStream = c =>
    /\ pc[c] \in {"module", "play", "window"} \/ (thrown /\ pc[c] = "done")
    /\ pc[c] \in {"play", "window"} => isRecording

LEMMA HeldStep ==
  ASSUME GraphInv, HeldStreamCanBeStopped, [Next]_vars
  PROVE  HeldStreamCanBeStopped'
<1> USE CallAssumption DEF HeldStreamCanBeStopped
<1>0. pc \in [Call -> Stage]
  BY DEF GraphInv
<1>1. CASE UNCHANGED vars
  BY <1>1 DEF vars, collectorVars
<1>2. ASSUME NEW c \in Call, Analyze(c) \/ MediaRefused(c) \/ ChirpEnded(c)
      PROVE  HeldStreamCanBeStopped'
  BY <1>0, <1>2 DEF Analyze, MediaRefused, ChirpEnded, Goto, collectorVars
<1>3. ASSUME NEW c \in Call, MediaGranted(c)
      PROVE  HeldStreamCanBeStopped'
  BY <1>0, <1>3 DEF MediaGranted, Goto
<1>4. ASSUME NEW c \in Call, CaptureThrows(c)
      PROVE  HeldStreamCanBeStopped'
  BY <1>0, <1>4 DEF CaptureThrows, Goto, collectorVars
<1>5. ASSUME NEW c \in Call, Recording(c)
      PROVE  HeldStreamCanBeStopped'
  BY <1>0, <1>5 DEF Recording, Goto
<1>6. ASSUME NEW c \in Call, Finish(c)
      PROVE  HeldStreamCanBeStopped'
  <2>1. CASE isRecording
    BY <1>6, <2>1 DEF Finish, StopCapture
  <2>2. CASE ~isRecording
    BY <1>0, <1>6, <2>2 DEF Finish, StopCapture, Goto, collectorVars
  <2> QED
    BY <2>1, <2>2
<1>7. ASSUME NEW c \in Call, WorkletPosts(c) \/ OnMessage(c) \/ OnAudioProcess(c)
      PROVE  HeldStreamCanBeStopped'
  BY <1>7 DEF WorkletPosts, OnMessage, OnAudioProcess, collectorVars
<1> QED
  BY <1>1, <1>2, <1>3, <1>4, <1>5, <1>6, <1>7 DEF Next, Step, Captured

(* However calls overlap and fail, a stream that the collector holds belongs   *)
(* to a call that will stop it, or to one that failed (audio-collector.ts:47,  *)
(* 62, 77-88, 156-177).                                                        *)
THEOREM HeldStreams == Spec => []HeldStreamCanBeStopped
<1>1. Init => HeldStreamCanBeStopped
  BY CallAssumption DEF Init, HeldStreamCanBeStopped
<1>2. IInv /\ HeldStreamCanBeStopped /\ [Next]_vars => HeldStreamCanBeStopped'
  BY HeldStep DEF IInv
<1> QED
  BY <1>1, <1>2, Invariance, PTL DEF Spec

(* A call whose capture did not fail leaves no stream of its own with the      *)
(* collector when it ends: if the collector still holds it, its tracks are     *)
(* stopped (index.ts:250, audio-collector.ts:156-177).                         *)
StopsOwnStream ==
  \A c \in Call : mediaStream = c /\ pc[c] = "window" /\ pc'[c] = "done" =>
    mediaStream' = Nil /\ c \notin live' /\ isRecording' = FALSE

(* However calls overlap, the end of a call is the end of a stream of its own  *)
(* that is still with the collector (audio-collector.ts:156-177).              *)
THEOREM CallsStopTheirStreams == Spec => [][StopsOwnStream]_vars
<1>1. IInv /\ HeldStreamCanBeStopped /\ [Next]_vars => [StopsOwnStream]_vars
  <2> SUFFICES ASSUME IInv, HeldStreamCanBeStopped, [Next]_vars, NEW c \in Call,
                      mediaStream = c, pc[c] = "window", pc'[c] = "done"
               PROVE  mediaStream' = Nil /\ c \notin live' /\ isRecording' = FALSE
    BY DEF StopsOwnStream
  <2>0. pc \in [Call -> Stage]
    BY DEF IInv, GraphInv
  <2>1. Finish(c)
    <3>1. PICK d \in Call : Step(d)
      BY DEF Next, vars
    <3>2. CASE UNCHANGED pc
      BY <3>2
    <3>3. CASE \E p, q : Goto(d, p, q)
      <4>1. d = c
        BY <2>0, <3>3 DEF Goto
      <4> QED
        BY <3>1, <4>1 DEF Step, Captured, Analyze, MediaGranted, MediaRefused, Recording,
           CaptureThrows, ChirpEnded, WorkletPosts, OnMessage, OnAudioProcess, Goto
    <3> QED
      BY <3>1, <3>2, <3>3 DEF Step, Captured, Analyze, MediaGranted, MediaRefused,
         Recording, CaptureThrows, ChirpEnded, Finish, WorkletPosts, OnMessage,
         OnAudioProcess
  <2>2. isRecording
    BY DEF HeldStreamCanBeStopped
  <2> QED
    BY <2>1, <2>2 DEF Finish, StopCapture
<1>2. Init => HeldStreamCanBeStopped
  BY CallAssumption DEF Init, HeldStreamCanBeStopped
<1>3. IInv /\ HeldStreamCanBeStopped /\ [Next]_vars => HeldStreamCanBeStopped'
  BY HeldStep DEF IInv
<1> QED
  BY <1>1, <1>2, <1>3, Invariance, PTL DEF Spec

(* Weak fairness of ChirpEnded and of Finish, whose guard is their place: a    *)
(* chirp that plays can end, and a timer can fire.                             *)
ChirpEnds(c) == []<>(pc[c] # "play") \/ []<><<ChirpEnded(c)>>_vars
WindowEnds(c) == []<>(pc[c] # "window") \/ []<><<Finish(c)>>_vars

LEMMA CallsMoveOn ==
  ASSUME GraphInv, [Next]_vars, NEW c \in Call
  PROVE  /\ pc[c] = "play" => pc'[c] \in {"play", "window"}
         /\ pc[c] = "window" => pc'[c] \in {"window", "done"}
<1>0. pc \in [Call -> Stage]
  BY DEF GraphInv
<1>1. CASE UNCHANGED pc
  BY <1>1
<1>2. ASSUME NEW d \in Call, \/ Analyze(d) \/ MediaGranted(d) \/ MediaRefused(d)
                             \/ Recording(d) \/ CaptureThrows(d)
      PROVE  \A e \in Call : pc[e] \in {"play", "window"} => pc'[e] = pc[e]
  BY <1>0, <1>2 DEF Analyze, MediaGranted, MediaRefused, Recording, CaptureThrows, Goto
<1>3. ASSUME NEW d \in Call, ChirpEnded(d) \/ Finish(d)
      PROVE  /\ pc[c] = "play" => pc'[c] \in {"play", "window"}
             /\ pc[c] = "window" => pc'[c] \in {"window", "done"}
  BY <1>0, <1>3 DEF ChirpEnded, Finish, Goto
<1> QED
  BY <1>1, <1>2, <1>3
  DEF Next, Step, Captured, WorkletPosts, OnMessage, OnAudioProcess, vars

LEMMA HeldStreamIsLetGo ==
  ASSUME NEW c \in Call
  PROVE  Spec /\ ChirpEnds(c) /\ WindowEnds(c)
           => (mediaStream = c /\ pc[c] = "play" ~> mediaStream # c)
<1> DEFINE Plays    == pc[c] = "play"
           Listens  == pc[c] = "window"
           Held     == mediaStream = c
           LetGo    == mediaStream # c
           NoPlay   == pc[c] # "play"
           NoWindow == pc[c] # "window"
           Chirps   == []<>NoPlay \/ []<><<ChirpEnded(c)>>_vars
           Timers   == []<>NoWindow \/ []<><<Finish(c)>>_vars
<1>1. IInv /\ [Next]_vars /\ Plays => Plays' \/ Listens'
  BY CallsMoveOn DEF IInv
<1>2. IInv /\ [Next]_vars /\ [StopsOwnStream]_vars /\ Held /\ Listens => Listens' \/ ~Held'
  <2> SUFFICES ASSUME IInv, [Next]_vars, [StopsOwnStream]_vars, Held, Listens, ~Listens'
               PROVE  ~Held'
    OBVIOUS
  <2>1. pc'[c] = "done" /\ vars' # vars
    BY CallsMoveOn DEF IInv, vars
  <2>2. mediaStream' = Nil
    BY <2>1 DEF StopsOwnStream
  <2> QED
    BY <2>2, CallAssumption
<1>3. IInv /\ <<ChirpEnded(c)>>_vars => ~Plays'
  BY DEF IInv, GraphInv, ChirpEnded, Goto
<1>4. IInv /\ <<Finish(c)>>_vars => ~Listens'
  BY DEF IInv, GraphInv, Finish, Goto
<1>5. /\ Plays <=> ~NoPlay
      /\ Listens <=> ~NoWindow
      /\ Held <=> ~LetGo
  OBVIOUS
<1>6. ChirpEnds(c) /\ WindowEnds(c) => Chirps /\ Timers
  BY DEF ChirpEnds, WindowEnds
<1> HIDE DEF Plays, Listens, Held, LetGo, NoPlay, NoWindow
<1>7. Spec /\ Chirps /\ Timers => (Held /\ Plays ~> LetGo)
  BY <1>1, <1>2, <1>3, <1>4, <1>5, Invariance, CallsStopTheirStreams, PTL DEF Spec
<1> QED
  BY <1>6, <1>7 DEF Held, Plays, LetGo

(* The stream the collector holds for a call is let go, by that call or by     *)
(* another, as chirps end and timers fire: nothing else is asked, and nothing  *)
(* of the other calls (audio-collector.ts:156-177, index.ts:240-252).          *)
THEOREM StreamsAreLetGo ==
  Spec /\ (\A c \in Call : ChirpEnds(c) /\ WindowEnds(c)) => StreamIsLetGo
<1> DEFINE Ends(c) == mediaStream = c /\ pc[c] = "play" ~> mediaStream # c
<1>1. ASSUME NEW c \in Call PROVE Spec /\ ChirpEnds(c) /\ WindowEnds(c) => Ends(c)
  BY HeldStreamIsLetGo
<1> HIDE DEF Ends
<1>2. Spec /\ (\A c \in Call : ChirpEnds(c) /\ WindowEnds(c)) => \A c \in Call : Ends(c)
  BY <1>1
<1> QED
  BY <1>2 DEF StreamIsLetGo, Ends
===============================================================================
