---------------------------- MODULE MCJwtLookup ----------------------------
(* Up to three records, and a label and an answer beyond that, so that gaps, *)
(* duplicates and numbers that are too large occur; records of another type  *)
(* stand anywhere among them.                                                *)
EXTENDS JwtLookup
=============================================================================
