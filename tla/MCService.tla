------------------------------ MODULE MCService ------------------------------
(* Service with a wait hint of two timeouts; preshutdown lasts longer, as it *)
(* does in the code (10 seconds against 3 minutes).                          *)
EXTENDS Service
=============================================================================
