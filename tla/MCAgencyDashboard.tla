------------------------- MODULE MCAgencyDashboard -------------------------
(* Model-checking instances of AgencyDashboard: the load and one onChange  *)
(* of the switch at a time, or the load and two overlapping onChanges.     *)
(* Two token generations let a refresh fall between the calls.             *)
EXTENDS AgencyDashboard

CONSTANTS load, t1, t2

MCOneToggler == {load, t1}
MCTwoTogglers == {load, t1, t2}
MCMaxGen == 2
MCMaxLogins == 1
=============================================================================
