---------------------------- MODULE MCTimerQueue ----------------------------
(* An instance of TimerQueue: three items, one of which recurs, so that one may be  *)
(* in its callback, one fill the ring and one be queued by the callback.           *)
EXTENDS TimerQueue

=============================================================================
