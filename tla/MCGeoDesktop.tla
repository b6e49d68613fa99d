---------------------------- MODULE MCGeoDesktop ----------------------------
(* Small instance of GeoDesktop. *)
EXTENDS GeoDesktop
=============================================================================
