# Aegis Lens: a TLA+ verification project

Aegis Lens decides whether the person before a webcam is live. A browser SDK
(`src/aegis-sdk`, TypeScript) samples camera, microphone, gaze and lips, signs
the readings and posts them; a backend (`src/aegis-backend`, Go) checks session,
nonce, key, device, clock and signature, scores the readings, and answers with a
verdict: CLEAR, SUSPICIOUS or BLOCKED. This directory holds TLA+ models of the
parts that carry that logic, the TLC runs that check them, and theorems about
them that TLAPS proves. `PROJECT.json` maps each definition to the lines of code
it stands for and lists the hazards, the runs and the findings.

## 1. Inventory

| Component | State | Operations | What is hard about it | What makes it correct |
|---|---|---|---|---|
| Session handlers (`session-init.go`, `session-verify.go`, `crypto.go`) | none of their own; a goroutine per request | init: check, make id and nonce, store. verify: check, get, compare, verify signature, burn the nonce, score, answer | goroutines and instances interleave between the Redis calls; the error of the burn is swallowed; the whole record is read, kept and written back | a verdict is authentic, fresh, and never follows a burn that took effect |
| Session store (`redis.go`) | Redis: session id -> JSON record with a 5-minute TTL | StoreSession, GetSession (ValidateNonce, UpdatePublicKey and DeleteSession have no caller) | expiry, LRU eviction, a restart from an append-only file one second old, a write that times out and lands later | a session opens once and closes for good |
| Telemetry validation and scoring (`engine.go`, `validateTelemetry`) | none | range check, four evaluators, normalisation, verdict | sums of bonuses and penalties at thresholds | critical readings block, nothing is deducted without a flag, unavailable signals weigh nothing |
| Frame timing collector (`frame-collector.ts`) | samples, deltas, last timestamp, callback handle | start, stop, reset, frame callbacks, timers | stop() cannot cancel video frame callbacks or timers: chains of an earlier collection run on into the next | deltas belong to the samples, overshoot is bounded, a collection ends |
| Client facade (`index.ts`) | key pair, session id, nonce, fingerprint, latest results, availability flags | initialize, startSession, analyze*, submitTelemetry, cleanup | every method awaits; the host may call them in any order and overlapping; two libraries load, fail and hold the camera | a submission carries one session's id, nonce and key; webgazer can be ended |
| Worker bridge (`worker-bridge.ts` and the worker of `index.ts`) | ring indices in shared memory, a worker, a callback | initialize, writeFrameDeltas, triggerAnalysis, terminate; the worker's analyze | two threads on shared indices; message queues that die with a worker; a callback that is replaced | the buffer comes first; deltas are analysed |
| Audio collector, chirp generator, ToF analyser (`audio-collector.ts`, `chirp-generator.ts`, `tof-analyzer.ts`) | stream, nodes, chunks | startCapture (two awaits), stopCapture, playChirp, analyze, audio callbacks | calls overlap the awaits; a capture fails half-way; audio arrives after stop; samples stay from one capture to the next | the microphone is released, a reading is recent and of its own chirp |
| API client and payload builder (`api-client.ts`, `payload-builder.ts`) | none | initSession, verifySession, a timeout | the answer is lost and the burn is not; fields are renamed and dropped | what is sent is what was measured |
| Backend process (`main.go`, `docker-compose.yml`) | its two clients, the listener | connect, check the schema, listen, serve, drain, close; restart by the container | servers that are not up yet, signals, a deadline, deferred calls that `log.Fatalf` skips | no handler calls a closed client, requests are answered, the backend comes back |
| Rate limiter (`main.go`) | a token bucket per address and class of paths | LoadOrStore, Allow | concurrent first requests of one address, refill between the two steps | burst and rate bound what passes |
| Timescale storage (`timescale.go`) | a connection pool | connect, schema check, ping, version, close (the functions that write and read events have no caller) | it may be down or not migrated | the backend neither serves without it nor dies of it for good |
| Detectors (`glint-detector.ts`, `lip-tracker.ts`, the worker's and the Rust crate's verdict on the camera) | windows of 300 samples | add, analyze, reset | windows drop their oldest points, thresholds stand twice or in one place only, ranges are checked elsewhere | SDK and server judge alike but where one has no threshold; what is measured is valid |
| Drift and hardware detectors, the statistics of worker and Rust crate, wire types, examples, demo, deployment files | | see section 12 | | not modelled |

How they interact. The facade owns the collectors, the worker bridge, the
detectors and the API client. `startSession` posts the public key and gets
session id and nonce; `analyze*` fill the latest results; `submitTelemetry`
signs a payload with the private key and posts it. On the server the verify
handler reads the session from Redis, compares, burns the nonce by storing the
record without it, and calls the scoring engine. Nothing but Redis is shared by
two requests.

## 2. Plan

Order, most important behaviour first. The status column is that of this tree.

| Module | Composes | Runs | Theorems | Status |
|---|---|---|---|---|
| `NonceGuard` | abstract promise about nonces | (a property of `session`) | | done |
| `SessionService` | handlers over Redis | `session`, `session_replay`, `session_sdk` | `SessionServiceProofs`, `SessionRefinementProofs` | done |
| `ScoringEngine` | | `scoring` | `ScoringEngineProofs` | done |
| `TelemetryPath` | payload builder, API client, `ScoringEngine` | `scoring`, `telemetry_unavailable` | `ScoringEngineProofs` | done |
| `SignalPath` | the detectors' verdicts over `TelemetryPath` | `scoring` | `ScoringEngineProofs` | done |
| `FrameCollector` | | `frames` | `FrameCollectorProofs` | done |
| `AegisLens` | the facade's calls over a server that opens sessions | `aegis_lens` | `AegisLensProofs` | done |
| `CameraTiming` | collector, worker bridge, worker | `camera_timing`, `camera_answered` | `CameraTimingProofs` | done |
| `AudioCapture` | overlapping analyses over the browser's streams | `audio`, `audio_echo` | `AudioCaptureProofs` | done |
| `RateLimit` | abstract promise about rates | (a property of `backend`) | | done |
| `Backend` | process, limiters and requests over two servers | `backend` | `BackendProofs` | done |

Not started: the facade with retries composed with what `NonceGuard` promises. No
submission of this SDK gets past the signature check (`session_sdk`), so a retry
after a lost answer could only be checked of an SDK that does not exist yet;
`RefusedOnlyIfBurnt` says what the server would answer it.

## 3. SessionService and NonceGuard

`SessionService.tla` is the two HTTP handlers over Redis. A request is a
goroutine; its program counter `pc` stops exactly where the code calls Redis,
since nothing else is shared. `InitArrive` and `InitStore` are
`SessionInitHandler.ServeHTTP`, `VerifyArrive`, `VerifyGet`, `VerifyCheck`,
`VerifyBurn` and `VerifyRespond` are `SessionVerifyHandler.ServeHTTP`. What the
handlers reject before the first Redis call is kept as the error they answer
with; the checks after it are `CheckError`, in the order of the code. A signature
is the key it verifies under. Session id and nonce are fresh random values, so
both are named by the init request. Sessions hold what `SessionData` holds,
without the ids and `ExpiresAt`, which no handler reads.

Redis is external: `Tick` drops expired records, `Evict` is allkeys-lru,
`StoreFails` is a write that errs for its caller and is lost or still under way,
`LandLate` is that write taking effect, `Sync` and `RedisRestart` are the
append-only file. `BackendCrash` ends all requests.

The history variables `landedAt`, `burnt`, `lostBurn`, `gotAt` and `burntAtGet`
are read by no handler; they let a property speak of the past.

Two limits of the model. The command that a failed `StoreSession` sent may land
any time later, but no second copy of a command that was reported as done is
still under way (go-redis retries; a copy would have to sit in a stalled
connection for longer than the driver's timeouts). And the backend and Redis
share one clock.

| Run | Shows |
|---|---|
| `session` | one session, two verify requests that overlap in every way, expiry, failed and late writes, eviction, a crash, one Redis restart: `AuthenticVerdict`, `NoReplayAfterBurn`, `FreshVerdict`, `RefusedOnlyIfBurnt`, `SessionOpensOnce`; the handlers implement `NonceGuard` (`ImplementsGuard`); every request that arrives ends (`EveryRequestEnds`) |
| `session_replay` | refutes "one session, one verdict": two requests that both read before either burns both get a verdict |
| `session_sdk` | refutes that a submission of the SDK receives a verdict: WebCrypto signs as r and s side by side (`SdkSubmission`), the server reads ASN.1 |

Bounds. Two verify requests are the least that race; every property speaks of
at most two requests and one session. Three ticks with a TTL of two let a record
expire and be revived by a late burn. One restart is enough to lose a burn; two add
nothing that the properties tell apart. The submissions are the honest one and one
for each check that can refuse it. What one instance cannot show, a submission
against another session's nonce, key or fingerprint, is covered by the theorem
`VerdictsAreAuthentic`, which holds for any number of sessions.

Fairness (`FairSpec`): the Go scheduler runs every goroutine, and each Redis
call returns, because the driver has dial, read and write timeouts. No client,
eviction, restart or crash is fair.

## 4. ScoringEngine, TelemetryPath and SignalPath

`ScoringEngine` is `validateTelemetry` and `Evaluate`, one action per signal.
Readings are integers in hundredths, since every threshold is. `Outcome` is a
second, closed form of the same sum used as the reference for
`UnavailableIsNeutral`.

`TelemetryPath` puts before it what the SDK does with its readings: `Build` is
`submitTelemetry` with `PayloadBuilder` (a library that failed to load is
marked), `Wire` is `verifySession`'s field-by-field translation, which drops the
marks. `client` is what the SDK held, or `Nil` for a payload of a program of its
own.

`SignalPath` puts before that what the detectors make of their windows. A window is
a *history*: the numbers its result depends on (points, fast steps, the time since
the first point ever, the spread; the lag and
correlation of lips and voice; the number and variance of frame deltas). From a
history come the reading that is sent and the detector's own opinion, which only
the host sees. At this commit only the gaze points have a source: nothing calls
`addLuminance`, no frame is sent to mediapipe and no amplitude to the lip tracker,
so the lip part is modelled as the interface allows it.

Run `scoring` puts each signal on both sides of each of its thresholds, beside
absent, good and bad other signals; adds clients with each library loaded or not
and each analysis done or not, and histories on both sides of the detectors'
thresholds.

- `DeductionsAreFlagged`, `UnavailableIsNeutral`: what a verdict may rest on.
- `MeasuredIsScored`: nothing on the way adds, drops or swaps a reading.
- `JudgedAlike`: the two sets of thresholds stand in different units and with
  different comparisons. Where both sides have one they agree, and the property lists
  where only one has: the server wants a luminance, which `IsLiveGaze` does not look
  at and which is always 0 at this commit, so `LOW_LUMINANCE_CORRELATION` goes with
  every gaze of a loaded webgazer, the live ones too; and the compiled detector calls no camera
  of fewer than ten deltas virtual, while the worker's JavaScript and the server go by
  the variance alone.
- `SdkTelemetryIsValid`: telemetry of an SDK is refused just when a reading is above
  its range (`OutOfRange`). The SDK does measure such
  readings, each of which costs the whole submission: a delay or a drift above one
  second, jerky frames, a gaze rate or spread beyond the bounds; from `lib.rs`, a
  divergence against bins that are nearly empty and a normality whose weights are not
  normalized; a peak that `findPeak` interpolates above 1; and, after some two seconds
  of recordings, the number of samples, since no call clears the buffer. That the rest
  keeps to its range is what `MeasuredAssumption` says of the analyses.

The rate of fast steps divides those of the last 300 points by the time since the
first point ever, so ten minutes after it no gaze is live, however it moves. No line
of the repository promises a length of a session, so this is a theorem about the code
(`OldGazesAreDiluted`) and no property of a run.

`telemetry_unavailable` refutes that verdicts rest on
available signals only: the zeros of a library that failed to load cost 75 points
(eyes) or 5 (lips).

## 5. FrameCollector

A collection is a chain: a frame callback records a timestamp and sets a 16 ms
timer, the timer requests the next frame callback. `stop()` cancels an animation
frame but neither a video frame callback nor a timer, so a chain of an earlier
collection goes on in a later one. `frames` and `timers` are what the browser
has to run, `Present` is the next frame (external). Timestamps come from one
clock: the fallback from presentationTime to mediaTime is not told apart.
Run `frames` checks the samples over three collections, with video frame callbacks
(enough for two stale chains beside the live one) and with animation frames, and
that a collection nobody stops ends if the event loop runs and the video plays
(`FairSpec`).

## 6. AegisLens

The facade's methods as calls of a host that may make any of them at any time.
`pc` says at which await a call stands; `Begin` and `Continue` are the two ways a
call moves. The server is external here: it opens a session for every init
request it gets, whether or not the client still waits, and an answer may be lost
or a refusal (`Rejected`). Key pairs are named by the `initialize` call that made
them, sessions by the `startSession` call that opened them.

| Run | Shows |
|---|---|
| `aegis_lens` | five calls, overlapping in every way: a submission is of one session (`OneSessionPerSubmission`, for all hosts), under the key of that session (`SubmittedUnderRegisteredKey`) and `startSession` returns an open one (`StartReturnsAnOpenedSession`), both for hosts that let `initialize` and `cleanup` run alone; webgazer runs only while a call waits for it to begin or a cleanup will end it (`WebgazerCanBeEnded`, for all hosts) |

`gazing` is webgazer's side: it has the camera and calls the listener. `startSession`
waits twice for it: for the module (`WebgazerImported`) and for `begin()`
(`WebgazerBegun`). In between the browser gives the camera (`CameraGiven`, external), while
the flag `glintDetectorAvailable` is still false. After the second wait the flag is
set; if anything in the `try` throws it is cleared: the import, `begin()`, which may
already have the camera, from this call or an earlier one, or `showVideoPreview` and
`showPredictionPoints` after a `begin()` that succeeded. `cleanup` asks the flag and
waits for the module. `slipped` records that a call of webgazer failed while webgazer
had the camera: then the camera may stay on with the flag false, which
`WebgazerCanBeEnded` allows. It says that no order of calls and awaits brings this about without
such a failure.

The history variable `overlapped` records that an `initialize` or a `cleanup` ran
beside another call. Nothing in the code prevents it, and without that premise
both properties fail: a second `initialize` replaces the key an init request has
registered, a `cleanup` inside `startSession` leaves a session without a key.
Five calls are the fewest in which a session can be carried over to another key
(initialize, start, cleanup, initialize, submit). Calls are interchangeable, so
the run uses symmetry; a run may end with every call done, so deadlock is off.

## 7. CameraTiming

`analyzeCameraTiming` from the collector through the ring in shared memory to the
worker and back. An action is one task of one thread; `inbox` and `outbox` are the
message queues of the worker, which die with it (`Terminate`). The samples are
left out: an array is its length, a result is that there is one.

| Run | Shows |
|---|---|
| `camera_timing` | three analyses between and beside any number of cleanups: the buffer is the first thing a worker gets (`BufferBeforeAnalysis`), and of the calls that share the collector only a cleanup leaves one without frames to wait for (`AbandonedOnlyByCleanup`) |
| `camera_answered` | refutes that deltas are passed to the worker for processing: the analysis never gets a result, under weak fairness of frames, timers and messages |

Bounds: three calls (one waits, one is displaced, one comes after a cleanup), a ring
of eight slots, arrays of zero to two deltas; the theorems cover the rest. Fairness
(`FairSpec`): frames arrive, timers fire, each thread takes up its messages; the
host owes nothing. Of `initialize` and `cleanup` only the order matters here, their
overlaps are `AegisLens`'s.

Why `DeltasAreAnalysed` fails: `writeFrameDeltas` takes the slots in use for the room
that is left, so an empty ring takes no array and stays empty. The theorem
`NoArrayIsEverWritten` says that no ring size and no number of samples avoids it; it
explains the finding and is no property of a run. While the defect stands the
order of the write of data and tail against a reading worker cannot matter, so the
write is one action.

## 8. AudioCapture

`analyzeAcousticToF` as overlapping calls over the one collector: `Analyze` is the
guard of `startCapture`, then come its two awaits, the chirp and the half second, and
`Finish`, which correlates, keeps the result and stops the recording. Streams, nodes
and chirps are named by the call that made them. `WorkletPosts` and `OnMessage` are
the audio thread and its queue, which `stopCapture` does not empty; `OnAudioProcess`
is the fallback. A chunk is where it starts, how long it is, and whose echo it holds,
if any. The waveform is left out but for what tells two chirps apart: their phase,
which `PhaseOffset` computes in 256ths of a turn. It is a whole number of turns for
every nonce, so all chirps are the same signal. A recording no longer than the chirp,
which `ToFAnalyzer` swaps with it or gives a single lag, and the best peak of a
recording without an echo are the one reading `NoMatch`.

| Run | Shows |
|---|---|
| `audio` | two analyses, a microphone that is refused, a capture that fails, messages that arrive late: no recording without a call to stop it (`RecordsOnlyForACall`), the microphone is released (`MicrophoneIsReleased`) and the collector lets each stream go (`StreamIsLetGo`), a reading reaches back no further than the buffer (`StaleReadingsAreBounded`) |
| `audio_echo` | refutes that a reading is the response to the chirp that was played, for calls that do not even overlap: the second finds the first one's echo |

`MicrophoneIsReleased` has two exceptions, which the code has: calls that overlapped
leave a stream nobody stops (line 62), and so does a capture that throws once it has
its stream, since `isRecording` is still false (77-85). Bounds: two calls, a buffer of
three samples, five samples in all, chunks of one and two, so that the window drops
and cuts chunks. Fairness: the browser resolves `addModule` or rejects it, plays the
chirp and runs timers; nobody need answer the question for the microphone. A run ends
with every call done, so deadlock is off.

## 9. Backend

The process of `main.go`: `phase` is how far `main` has got, `clients` what it has
open. A request's `pc` stops at the limiter's two steps and at each call of Redis or
TimescaleDB. A limiter is named by the request that brought it to `LoadOrStore`.
`End` is the end of the process, with all its connections; `Restart` is the
container's policy `unless-stopped` (`docker-compose.yml:80`). External: the clock,
the servers, the migrations, kills.

`RateLimit` is what the middleware promises: one bucket for each address and class,
full in a new process, and a request that passes pays one token from it. `Bucket` and
`Passes` at the end of `Backend.tla` are the mapping: an address without a stored
limiter stands for a full bucket, and limiters that lost the race of `LoadOrStore` for
nothing.

Run `backend`: three requests of one address, one fault (signal, kill or a listener
that fails, at the start or while requests are served), one tick.

- `AdmittedBounded`: in any stretch of time at most burst plus rate times its length
  passes. The rates are those of the code, 100 a second with a burst of 20
  (`main.go:139`); `src/README.md:86` and `docs/HARDENING_REPORT.md:27` speak of 100 a
  minute, which is listed as a finding: a tick of the model is a second, so the bound
  is 20 and 100 a second, not a minute. Behind the nginx of
  the deployment all clients have one address, and `/health` shares the bucket.
- `ImplementsBuckets`: the two steps of the middleware implement `RateLimit`, however
  requests race and the clock ticks between them.
- `NoCallAfterClose`, `CutOnlyByForce`: the deferred closes run after Shutdown has
  waited for every handler; a request is cut off only by a kill, a listener that
  breaks or the deadline. That its answer arrives is not said: what is written after the
  `WriteTimeout` of ten seconds (`main.go:292`) is lost.
- `ShutdownEnds`, `ServesAgain`: under fairness of `main`, of the timer of Shutdown and of
  the orchestrator, and of nothing else, a shutdown ends, and a backend whose servers
  are up and migrated for good serves for good. `NewTimescaleClient` pings without a
  timeout; a server that neither answers nor refuses is not modelled. Nor is an operator
  who stops the container, which `unless-stopped` would leave stopped: a signal stands
  for a stop by the host. Requests that arrive on connections opened while the process
  drains are left out, for the listener is closed by then.

Three requests use up a burst of two; one fault is enough for each property, and the
four invariants are theorems for any number of either. A process is never at rest
(servers come and go), so deadlock is checked.

## 10. Proofs

Everything is proved for all values of the constants, from the named assumptions
of the modules (identifiers are distinct, bounds are natural numbers, what an
analysis measures has the sign it is computed with). Every invariant, action property
and refinement that the runs check is the statement of a theorem.

- `SessionServiceProofs`: `IInv` says where every record, late write and copy
  held by a goroutine comes from. `AuthenticVerdict` alone is not inductive: one
  must know that the record a request compares against is what init stored
  (`Genuine`), that an open record's deadline is `landedAt + SessionTTL` (a
  burn only ever writes closed records), and that a burnt session is not open
  unless the burn was lost. One lemma per action; the theorems follow.
- `SessionRefinementProofs`: `SessionOpensOnce`, and that every step of
  `SessionService` is a step of `NonceGuard` or a stutter, under the mapping at
  the end of `SessionService.tla`.
- `ScoringEngineProofs`: an invariant that ties the running score and the flags to
  the signals evaluated so far; the theorems hold for every integer reading.
  `OldGazesAreDiluted` and `DetectorsAndServerJudgeAlike` reduce the detectors' roundings to
  two facts about integer quotients, and hold for every history a window may hold.
  `OnlyTheExtremeIsRefused` goes through the translation of each signal to the wire:
  what `Valid` asks of it comes down to the upper ends that `OutOfRange` lists. The
  ends are named (`MaxVariance`) and left unexpanded, for nothing depends on their
  values but that they are natural numbers.
- `FrameCollectorProofs`: `IInv` adds that the last timestamp is that of the last
  sample, and that each sample beyond the last wanted one has a pending timer,
  the first of which ends the collection.
- `AegisLensProofs`: `SessionInv` says that the session the client holds is one the
  server opened with this nonce and fingerprint, `KeyInv` that while exclusive
  calls run alone the session, every init request and every signature under way
  stand under the key the client holds. One lemma per action.
- `CameraTimingProofs`: an empty ring has no room in `writeFrameDeltas`' sense
  (`EmptyRingHasNoRoom`), so it stays empty (`NoArrayIsEverWritten`); and every message
  but a new worker's first is a trigger. `OnlyCleanupAbandons` goes through the steps of
  the calls that share the collector.
- `AudioCaptureProofs`: `BufferInv` says that wherever the buffer is cut, what is
  left has a first chunk to count from (`HasFirst`), and no chunk lies behind the limit; `SoloInv` that as long as calls keep to
  themselves at most one is under way and only the collector's stream is live.
- `BackendProofs`: the hard one is `AdmittedBounded`. Its invariant bounds, for each
  stored limiter and each earlier moment, what was admitted since that moment plus the
  tokens that are left by burst plus rate times the time that has passed; a step of `Allow` moves one
  from the one to the other, a `Tick` adds to both sides, and `LoadOrStore` lets an
  address have one limiter. The sets counted are finite, so the proof cites
  `FiniteSetTheorems`. `LimitersImplementBuckets` is the refinement, step by step:
  `LoadLimiter` stutters since a new limiter is full, `Allow` is `Pass` or a stutter,
  `Tick` is `Refill`, and `Restart` is `NewProcess`. `RefusedOnlyIfEmpty` adds the other
  half: what is turned away found that bucket empty.

What the findings cost, for every instance and not only the one that refutes:

- `SerialRequestsGetOneVerdict`: one session has one verdict if its requests never
  overlap (`Serial`), a burn that a verdict follows has taken effect (`BurnsLand`), and
  Redis does not restart. TLC refutes it without any one of the three. Crashes, expiry,
  eviction and late writes need no premise. `NothingElseReopens` is the part of it for
  a request that reads after the burn.
- `SdkSignaturesNeverPass`: no request signed as WebCrypto signs gets a verdict or
  burns a nonce.
- `MissingLibrariesArePenalised`: without webgazer at most 80 of confidence is left,
  without either library at most 60 and never CLEAR.
- `AnalysesAreNeverAnswered`: for any ring and any number of samples an analysis waits
  for the worker for ever, or ends for want of an SDK or a worker.
  `CleanupAbandonsAnalyses`: one that is still collecting when `cleanup` comes polls a
  collector that was reset, for ever unless another analysis begins.

Liveness. `ENABLED` is beyond the provers, so the theorems state fairness with the
guard of the action in its place: infinitely often the guard is false or the action
is taken (`StopRuns`, `BootRuns`, `StoreRuns`, `VerifyRuns`, `ChirpEnds`,
`WindowEnds`). TLC finds each of these formulas to hold under the `FairSpec` of its
module. From the specification and that fairness:

- `RequestsEnd` (`EveryRequestEnds`), `StreamsAreLetGo` (`StreamIsLetGo`),
  `ShutdownsEnd` (`ShutdownEnds`): each step of the one process concerned leads on, no
  step of another leads back (`HandlersMoveOn`, `CallsMoveOn`, `PhaseSteps`).
- `ServesAfterOutages` (`ServesAgain`) has one premise more, that from some point on
  nobody signals or kills the process. In the model that is so because `faults` is
  bounded; to infer it from the bound takes an induction.
- `CollectionEnds` is not proved, for the same reason: it is a descent whose length
  depends on a constant. Its three parts are. A collection always has a callback or a
  timer to wait for (`CollectionNeverStalls`); the samples and steps to come are
  natural numbers below a bound (`EndIsInSight`); and every step of the browser that
  does not end the collection lowers them (`EveryStepBringsTheEndNearer`).

`OneChainSamplesDistinctFrames` (in `FrameCollectorProofs`), `MeasurementsAreScored`
(in `ScoringEngineProofs`) and `WebgazerIsKnownToRun` (in `AegisLensProofs`) come from
the same invariants. `CriticalReadingsBlock` and `SoftSignalsAloneDoNotBlock` state
properties that no run checks, since `DetermineVerdict` gives them directly.
`HeldStreams` and `CallsStopTheirStreams` (in `AudioCaptureProofs`) are the safety
part of `StreamIsLetGo`.

Only model-checked: `CollectionEnds`, and that the fairness of the `FairSpec`s gives
the formulas above.

## 11. Findings

| Run | Code | What a document says and the code does not do |
|---|---|---|
| `session_replay` | `session-verify.go:382` | the nonce prevents a replay: two overlapping requests both get a verdict |
| `session_sdk` | `crypto.ts:39` | a submission receives a verdict: the server cannot read the SDK's signature |
| `telemetry_unavailable` | `api-client.ts:84` | verdicts rest on available signals only: the marks are dropped on the way |
| `camera_answered` | `worker-bridge.ts:103` | deltas are passed to the worker: the ring refuses all of them |
| `backend` | `main.go:139` | 100 requests a minute: the limiter counts in seconds, and the run bounds what passes by that (a disagreement of numbers, no trace) |
| `audio_echo` | `index.ts:241` | the SDK measures the response to the chirp it played: samples of an earlier capture are never cleared and all chirps are alike |

`PROJECT.json` has the quotations.

## 12. Not modelled

- The statistics: Welford's variance, the divergences, Royston's W, Pearson's
  correlation, the spectral entropy. They are real arithmetic with roots and
  logarithms, sequential and without state; the models take their results as inputs.
  The worker's fallback and the Rust crate compute different statistics under the same
  names, and whether their values keep to the server's ranges is a numerical question.
- `hardware-detector.ts` has no caller; `drift-detector.ts` is fed by nothing and its
  result is not sent. `proto/session.ts` and the `.proto` file are types.
- `ValidateNonce`, `UpdatePublicKey` and `DeleteSession` of the Redis client, the events
  of TimescaleDB, `clearBuffer`, `resume` and `close` of the audio collector, the import
  and export of keys: no caller.
- `examples/attack-simulation.ts` and the demo: the example prints verdicts beside
  expected ones and asserts nothing.
- TLS, headers, the texts of `/health`, migrations, nginx and the other deployment
  files: configuration.
