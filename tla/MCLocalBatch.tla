---------------------------- MODULE MCLocalBatch ----------------------------
(* A plan of two files, one of a single file, one that replaces a video. *)
EXTENDS LocalBatch, TLC

CONSTANTS film, caption, episode, remake, series, single, newer, x1, x2

OfPlan == film :> series @@ caption :> series @@ episode :> single @@ remake :> newer
=============================================================================
