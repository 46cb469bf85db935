----------------------------- MODULE MCShipper -----------------------------
(* Instantiates Shipper for TLC; the constants are in the .cfg files.      *)
EXTENDS Shipper
=============================================================================
