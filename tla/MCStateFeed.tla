---------------------------- MODULE MCStateFeed ----------------------------
(* Values for the constants of StateFeed.                                  *)
EXTENDS StateFeed

CONSTANTS a1
=============================================================================
