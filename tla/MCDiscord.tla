----------------------------- MODULE MCDiscord -----------------------------
(* A beacon whose interval is a unit longer than the spacing of its posts.  *)
EXTENDS Discord
=============================================================================
