------------------------------ MODULE MCReplay ------------------------------
(* Flight files of up to five rows: times a second, more and less apart, and *)
(* in any order, and one row with each of the three faults.                  *)
EXTENDS FlightReplay

MCRows ==
  [time : {0, 3, 5, 6, 9}, fault : {"none"}]
    \union {[time |-> 3, fault |-> "time"], [time |-> 6, fault |-> "position"],
            [time |-> 9, fault |-> "sensor"]}
MCHeader == [time |-> 3, fault |-> "time"]
=============================================================================
