------------------------------ MODULE MCSignalPath -----------------------------
(* Clients for TLC: readings around the thresholds, each library loaded or     *)
(* not, each analysis done or not; and what the detectors make of histories    *)
(* around their own thresholds.                                                *)
EXTENDS SignalPath, MCScoringEngine

Good == [variance |-> 10000, kl |-> 5, w |-> 98, rest |-> TRUE]
Bad == [Good EXCEPT !.variance = 100000, !.kl = 80]

Wild == [variance : {100000000, 100000001}, kl : {1000, 1001}, w : {100, 101}, rest : {TRUE}]

ClientTofs == {Nil} \cup [tof : {0, 500, 1500, 200000}, peak : {50, 95}, phase : BOOLEAN, rest : {TRUE}]
Beyond == [tof : {500, 100000, 100001}, peak : {100, 101}, phase : {TRUE}, rest : BOOLEAN]
ClientGlints == {Nil} \cup [rate : {0, 200}, parallax : {0, 60}, luminance : {0, 90},
                      rest : {TRUE}, status : {NoStatus}]
ClientLips == {Nil} \cup [drift : {3000, 20000}, velocity : {20, 90}, multi : BOOLEAN,
                    rest : {TRUE}, status : {NoStatus}]

(* Gazes after two seconds, half a minute and ten minutes.                     *)
Gazes ==
  [samples : {9, 10}, fast : {0, 8}, sinceStart : {2000}, spread : {9, 10}]
  \cup [samples : {100}, fast : {10, 15, 50, 99}, sinceStart : {20000, 30000},
        spread : {9, 10, 60}]
  \cup [samples : {300}, fast : {10, 299}, sinceStart : {598000, 598001, 600000}, spread : {60}]
  \cup [samples : {20}, fast : {19}, sinceStart : {100}, spread : {60}]

LipTracks ==
  [samples : {9, 10}, lag : {0, 1, 4, 5, 30, 31}, correlation : {59, 60, 90}, multi : BOOLEAN]

CameraTracks ==
  [deltas : {9, 10, 89}, variance : {1199, 1200, 10000}, kl : {5}, w : {98}]

WildGazes == [rate : {10000, 10001}, parallax : {1000000, 1000001}, luminance : {0},
              rest : {TRUE}, status : {NoStatus}]

MCClients ==
  [camera : {Good} \cup Wild, tof : {Nil} \cup Beyond, glintDetectorAvailable : BOOLEAN,
   glint : {Nil} \cup WildGazes, mediapipeAvailable : {FALSE}, lips : {Nil}]
  \cup [camera : {Good, Bad}, tof : ClientTofs, glintDetectorAvailable : BOOLEAN, glint : {Nil},
        mediapipeAvailable : BOOLEAN, lips : {Nil}]
  \cup [camera : {Good}, tof : {Nil}, glintDetectorAvailable : BOOLEAN, glint : ClientGlints,
        mediapipeAvailable : BOOLEAN, lips : ClientLips]
  \cup [camera : {Bad}, tof : ClientTofs, glintDetectorAvailable : {TRUE}, glint : ClientGlints,
        mediapipeAvailable : {TRUE}, lips : ClientLips]
  \cup [camera : {CameraReading(h) : h \in CameraTracks}, tof : ClientTofs,
        glintDetectorAvailable : {FALSE}, glint : {Nil}, mediapipeAvailable : {FALSE}, lips : {Nil}]
  \cup [camera : {Good}, tof : {Nil}, glintDetectorAvailable : BOOLEAN,
        glint : {GlintReading(h) : h \in Gazes}, mediapipeAvailable : BOOLEAN, lips : {Nil}]
  \cup [camera : {Good}, tof : {Nil}, glintDetectorAvailable : BOOLEAN, glint : {Nil},
        mediapipeAvailable : BOOLEAN, lips : {LipReading(h) : h \in LipTracks}]

PathPayloads == MCPayloads \cup {Wire(Build(c)) : c \in MCClients}

WirePayloads == {Wire(Build(c)) : c \in MCClients}
===============================================================================
