--------------------------- MODULE MCSignalRelay ----------------------------
(* Two daemons and one room; WebSockets are numbered in the order of use.  *)
EXTENDS SignalRelay

MCSockets == 1 .. 7

=============================================================================
