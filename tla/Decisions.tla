----------------------------- MODULE Decisions -----------------------------
(***************************************************************************)
(* The recommendations (Rules) with thresholds, requests, rows and bounds  *)
(* of names of their own, so that a module may speak of them and of        *)
(* another part of the system.                                             *)
(***************************************************************************)
EXTENDS Economics

CONSTANTS Ads, Entity, TypeOf, Below, Business, CurrentDays, PreviousDays, Yesterday,
          Threshold, Asker, Outlooks, NoRow, Histories, Readings, Sales, Catalogs,
          Offers, Goals, MaxMoves

VARIABLES insight, orders, catalog, offer, goal, feed, views, verdicts, asked, moves

Rules == INSTANCE Recommendations
              WITH AdsOf <- Below, Limit <- Threshold, Request <- Asker,
                   MaxChanges <- MaxMoves, stored <- verdicts, req <- asked,
                   changes <- moves

ASSUME ScopesFit == Rules!ScopeAssumption
ASSUME ThresholdsFit == Rules!LimitAssumption
ASSUME FactsAdmitted == Rules!DecisionAssumption

\* The properties of the recommendations, by name.
ViewsAgree == Rules!ViewsAgree
PersistenceHasACause == Rules!PersistenceHasACause
RequestEnds == Rules!RequestEnds
=============================================================================
