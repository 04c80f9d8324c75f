---------------------------- MODULE MCAlertFlow -----------------------------
(* Values for the constants of AlertFlow.  One unit of time is a minute:      *)
(* alerts.cooldown 120 s, a card window due after about two, PENDING_MAX_AGE  *)
(* shortened from ten.                                                        *)
EXTENDS AlertFlow
=============================================================================
