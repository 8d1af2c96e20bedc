---------------------------- MODULE MCPlugHttp2 ----------------------------
(* A small instance of PlugHttp2: two OUTs whose handlers share the slot.  *)
EXTENDS PlugHttp2
=============================================================================
