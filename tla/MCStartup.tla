----------------------------- MODULE MCStartup ------------------------------
(* Startup with three processes that differ in their command lines.         *)
EXTENDS Startup, TLC

CommandLines ==
  [transport : {"default", "p2p"}, mode : {None}, room : {None}]
  \cup [transport : {"http"}, mode : {"sandbox", "invalid"}, room : {None}]
  \cup [transport : {"stdio"}, mode : {"sandbox"}, room : {None}]
  \cup [transport : {"p2p"}, mode : {None}, room : Rooms \ Procs]

Symmetry == Permutations(Procs)

=============================================================================
