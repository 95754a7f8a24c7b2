---------------------------- MODULE RollingLimit ----------------------------
(***************************************************************************)
(* The per-transaction and rolling volume limit (ensure_limits), as pure   *)
(* operators on the stored pair (window start, volume): ust1-window keeps  *)
(* one such pair, cmm-native-wrap one per denomination.                    *)
(***************************************************************************)
EXTENDS Ust1Common

(* 0 is the start of a window that was never opened. *)
WindowExpired_Late(now, start) == start = 0 \/ now > start + Day

WindowExpired(now, start) == start = 0 \/ now >= start + Day

WindowStartAfter(now, start) == IF WindowExpired(now, start) THEN now ELSE start

(* What a swap at time now is added to. *)
CarriedVolume(now, start, volume) == IF WindowExpired(now, start) THEN 0 ELSE volume

(* The swap passes both limits; checked_add cannot overflow where it does. *)
WithinLimits_IgnoresCarried(now, start, volume, amount, per_tx, rolling) ==
  amount <= per_tx /\ amount <= rolling

WithinLimits(now, start, volume, amount, per_tx, rolling) ==
  /\ amount <= per_tx
  /\ CarriedVolume(now, start, volume) + amount <= rolling
=============================================================================
