------------------------------ MODULE Planning ------------------------------
(***************************************************************************)
(* Forecasting and the simulator (Sim) with requests, rows and bounds of   *)
(* names of their own, so that a module may speak of planning and of       *)
(* another part of the system.                                             *)
(***************************************************************************)
EXTENDS Economics

CONSTANTS Campaign, Forecaster, FirstDay, LastDay, Window, Least, Histories,
          AdRows, SaleRows, Arrivals, Catalogs, Asked, MaxForecasts, MaxFactChanges,
          Question, Skew, Grade, Near, Unit

VARIABLES today, ads, sold, catalog, forecasts, pending, begun, factChanges, sims, run

Sim == INSTANCE Simulator
         WITH Request <- Forecaster, MaxWork <- MaxForecasts,
              MaxChanges <- MaxFactChanges, rows <- forecasts,
              work <- pending, changes <- factChanges

ASSUME PlanningAssumption == Sim!ForecastAssumption /\ Sim!SimulatorAssumption

\* The properties of planning, by name.
ForecastRowsHold == Sim!ForecastRowsHold
BreakEvenAgrees == Sim!BreakEvenAgrees
=============================================================================
