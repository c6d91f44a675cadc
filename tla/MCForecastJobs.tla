--------------------------- MODULE MCForecastJobs ---------------------------
(***************************************************************************)
(* Instances of ForecastJobs: three submissions of one body, two of them   *)
(* by alice and one by an anonymous caller, on a clock of a few units.     *)
(***************************************************************************)
EXTENDS ForecastJobs

CONSTANTS alice

MCOwner == [r \in Request |-> IF r = "guest1" THEN anonymous ELSE alice]
MCInput == [r \in Request |-> "house"]
MCRetryIntervals == <<10, 30>>
=============================================================================
