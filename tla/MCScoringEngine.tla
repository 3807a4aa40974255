---------------------------- MODULE MCScoringEngine ----------------------------
(* Payloads for TLC: each signal at every combination of the values on both    *)
(* sides of its thresholds, with the other signals absent, good or bad.        *)
EXTENDS ScoringEngine

Cameras == [variance : {0, 1199, 1200, 4999, 5000, 50000, 50001},
            kl : {9, 10, 50, 51}, w : {89, 90, 95, 96}, rest : {TRUE}]
Acoustics == [tof : {0, 49, 50, 299, 300, 1000, 1001}, peak : {69, 70, 90, 91},
              phase : BOOLEAN, rest : {TRUE}]
Eyes == [rate : {49, 50, 100, 101, 299, 300}, parallax : {9, 10, 50, 51},
         luminance : {49, 50, 80, 81}, rest : {TRUE}, status : {NoStatus, "unavailable"}]
Lips == [drift : {-100000, 4999, 5000, 15000, 15001}, velocity : {59, 60, 85, 86},
         multi : BOOLEAN, rest : {TRUE}, status : {NoStatus, "unavailable"}]

SomeCameras ==
  {Nil, [variance |-> 10000, kl |-> 5, w |-> 98, rest |-> TRUE],
   [variance |-> 100000, kl |-> 80, w |-> 85, rest |-> TRUE]}
SomeAcoustics ==
  {Nil, [tof |-> 500, peak |-> 95, phase |-> TRUE, rest |-> TRUE],
   [tof |-> 1500, peak |-> 50, phase |-> FALSE, rest |-> TRUE]}
SomeEyes ==
  {Nil, [rate |-> 200, parallax |-> 60, luminance |-> 90, rest |-> TRUE, status |-> NoStatus],
   [rate |-> 0, parallax |-> 0, luminance |-> 0, rest |-> TRUE, status |-> "unavailable"]}
SomeLips ==
  {Nil, [drift |-> 3000, velocity |-> 90, multi |-> FALSE, rest |-> TRUE, status |-> NoStatus],
   [drift |-> 0, velocity |-> 0, multi |-> FALSE, rest |-> TRUE, status |-> "unavailable"]}

Rejected ==
  {[camera |-> Nil, acoustic |-> [tof |-> -1, peak |-> 0, phase |-> TRUE, rest |-> TRUE],
    eye |-> Nil, lip |-> Nil],
   [camera |-> Nil, acoustic |-> Nil, eye |-> Nil,
    lip |-> [drift |-> 0, velocity |-> 101, multi |-> FALSE, rest |-> TRUE, status |-> NoStatus]]}

MCPayloads ==
  Rejected
  \cup [camera : Cameras, acoustic : SomeAcoustics, eye : SomeEyes, lip : SomeLips]
  \cup [camera : SomeCameras, acoustic : Acoustics, eye : SomeEyes, lip : SomeLips]
  \cup [camera : SomeCameras, acoustic : SomeAcoustics, eye : Eyes, lip : SomeLips]
  \cup [camera : SomeCameras, acoustic : SomeAcoustics, eye : SomeEyes, lip : Lips]
===============================================================================
