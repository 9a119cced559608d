--------------------------- MODULE MCSafeExecution ---------------------------
(* SafeExecution with values for TLC.  "mail" is an e-mail without a date, due *)
(* as soon as it is approved; "reminder" an in-app reminder for tick 1; "hook" *)
(* a webhook for which no provider is configured.                              *)
EXTENDS SafeExecution

MCRemindAt  == [r \in Request |-> IF r = "reminder" THEN 1 ELSE NoDate]
MCChannelOf == [r \in Request |-> CASE r = "mail" -> "email"
                                    [] r = "reminder" -> "in_app"
                                    [] OTHER -> "webhook"]

\* A behaviour is about one of the requests; which one, the first offer decides.
OneOffer == \A r, q \in Request : status[r] # "none" /\ status[q] # "none" => r = q
=============================================================================
