-------------------------- MODULE MCChatDelivery --------------------------
(* ChatDelivery with the client a, who writes, and b, who only reads.  The *)
(* two sides of a conversation are independent but for the channel they    *)
(* share, and what breaks the channel breaks it for both.  The first       *)
(* message meets the faults; with the second, on pages of one row, the     *)
(* first can lie beneath what b is shown.                                  *)
EXTENDS ChatDelivery, TLC

CONSTANTS a, b

TwoMessages == a :> 2 @@ b :> 0
OneMessage  == a :> 1 @@ b :> 0

TwoFaultsEarly(n) == IF n <= 1 THEN 2 ELSE 0
OneFault(n) == 1
=============================================================================
