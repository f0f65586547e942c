-------------------------------- MODULE MCFeed --------------------------------
(***************************************************************************)
(* Feed for TLC.  A run that stops or faults is followed only if it did so *)
(* early (its reconnects and the backfill go on) or if its backoff meets   *)
(* the end of the observation.                                             *)
(***************************************************************************)
EXTENDS Feed

StopsBy == 1
Followed ==
  stopping => \/ clock <= StopsBy
              \/ clock >= Duration - 1 /\ phase = "backoff" /\ fetcher = "none"
===============================================================================
