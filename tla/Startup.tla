------------------------------ MODULE Startup -------------------------------
(***************************************************************************)
(* Starting the daemon: run of folk-around/src/main.rs with load_config,   *)
(* save_config and load_or_create_http_bearer of folk-core/src/lib.rs.     *)
(* Several processes of one user may start at once, and any of them may    *)
(* end at any step (a crash, a signal or an I/O error); they share the     *)
(* files `config` and `http-token`.                                        *)
(*                                                                         *)
(* Each member of Procs is one run of the binary.  Of the configuration    *)
(* the model keeps the pairing code (signal_url is saved and reused in the *)
(* same places), the HTTP port (saved or not) and the mode.  The config    *)
(* file is its settings in the order of its lines; a torn write ends       *)
(* between two lines.                                                      *)
(***************************************************************************)
EXTENDS Integers

CONSTANTS
  Procs,     \* runs of the binary; also the token and pairing code each generates
  Rooms,     \* pairing codes: the generated ones, and those given with --room
  None,      \* Option::None
  Modes,     \* names accepted by AccessMode::parse
  Full,      \* the mode "full"
  Args       \* command lines: [transport, mode, room]

Transports == {"stdio", "default", "http", "p2p"}

ASSUME StartupAssumption ==
  /\ Procs \subseteq Rooms
  /\ None \notin Rooms /\ None \notin Modes
  /\ Full \in Modes
  \* a mode that is not in Modes is one AccessMode::parse rejects
  /\ Args \subseteq [transport : Transports, mode : Modes \cup {None, "invalid"},
                     room : Rooms \cup {None}]
  /\ "invalid" \notin Modes

VARIABLES
  phase,    \* where each process is in run
  args,     \* its command line
  run,      \* settings it runs with: [transport, mode, room]
  saved,    \* what load_config returned
  config,   \* the file `config`: settings found in it, None for a missing line
  token,    \* the file `http-token`: absent, partly written, or complete
  bearer,   \* the credential run_http was given
  clean,    \* history: no process died and no two were between load and save
  lastRoom, \* history: pairing code of the last process that saved for P2P
  lastMode  \* history: mode of the last process that got past its mode check

vars == <<phase, args, run, saved, config, token, bearer, clean, lastRoom, lastMode>>

Settings == [room : Rooms \cup {None}, port : BOOLEAN, mode : Modes \cup {None}]

NoSettings == [room |-> None, port |-> FALSE, mode |-> None]

NoToken == [by |-> None, complete |-> FALSE]

NotRunning == [transport |-> "stdio", mode |-> Full, room |-> None]

Phases ==
  {"new", "loaded", "truncated", "saved", "creating", "existing", "checked", "running", "ended"}

TypeOK ==
  /\ phase \in [Procs -> Phases]
  /\ args \in [Procs -> Args]
  /\ run \in [Procs -> [transport : Transports, mode : Modes, room : Rooms \cup {None}]]
  /\ saved \in [Procs -> Settings]
  /\ config \in Settings
  /\ token \in [by : Procs \cup {None}, complete : BOOLEAN]
  /\ bearer \in [Procs -> Procs \cup {None}]
  /\ clean \in BOOLEAN
  /\ lastRoom \in Rooms \cup {None}
  /\ lastMode \in Modes \cup {None}

Init ==
  /\ phase = [p \in Procs |-> "new"]
  /\ args \in [Procs -> Args]
  /\ run = [p \in Procs |-> NotRunning]
  /\ saved = [p \in Procs |-> NoSettings]
  /\ config = NoSettings
  /\ token = NoToken
  /\ bearer = [p \in Procs |-> None]
  /\ clean = TRUE
  /\ lastRoom = None
  /\ lastMode = None

Goto(p, ph) == phase' = [phase EXCEPT ![p] = ph]

-----------------------------------------------------------------------------
(* Settings: the command line first, then the saved ones, then a default.  *)

OrElse(a, b) == IF a # None THEN a ELSE b

\* Mutant of Parses: any name is taken.
ParsesAnything(name) == TRUE

\* AccessMode::parse knows the name.
Parses(name) == name \in Modes

ModeName(a, conf) == OrElse(OrElse(a.mode, conf.mode), Full)

\* With neither --stdio, --http nor --p2p a saved port selects HTTP.
Transport(a, conf) ==
  CASE a.transport # "default" -> a.transport
    [] a.transport = "default" /\ conf.port -> "http"
    [] OTHER -> "stdio"

Room(p, a, conf) == OrElse(OrElse(a.room, conf.room), p)

\* Between load_config and the end of save_config.
Saving(p) == phase[p] \in {"loaded", "truncated"}

(* load_config and the choice of mode and transport.  An invalid mode ends *)
(* the process; stdio saves nothing and needs no credential.               *)
Load(p) ==
  LET mode == ModeName(args[p], config)
      kind == Transport(args[p], config)
  IN  /\ phase[p] = "new"
      /\ saved' = [saved EXCEPT ![p] = config]
      /\ IF Parses(mode)
           THEN /\ Goto(p, IF kind = "stdio" THEN "running" ELSE "loaded")
                /\ run' = [run EXCEPT ![p] =
                             [transport |-> kind, mode |-> mode,
                              room |-> IF kind = "p2p" THEN Room(p, args[p], config)
                                                       ELSE None]]
                /\ lastMode' = mode
           ELSE Goto(p, "ended") /\ UNCHANGED <<run, lastMode>>
      /\ clean' = (clean /\ \A q \in Procs : ~Saving(q))
      /\ UNCHANGED <<args, config, token, bearer, lastRoom>>

-----------------------------------------------------------------------------
(* save_config.                                                            *)

\* Mutant of ToSave: HTTP mode saves without the pairing it loaded.
ToSaveFresh(p) == [room |-> run[p].room, port |-> TRUE, mode |-> run[p].mode]

\* The AppConfig passed to save_config; HTTP mode carries the pairing over.
ToSave(p) ==
  [room |-> IF run[p].transport = "p2p" THEN run[p].room ELSE saved[p].room,
   port |-> TRUE, mode |-> run[p].mode]

\* fs::write opens and truncates.
Truncate(p) ==
  /\ phase[p] = "loaded"
  /\ Goto(p, "truncated")
  /\ config' = NoSettings
  /\ UNCHANGED <<args, run, saved, token, bearer, clean, lastRoom, lastMode>>

(* What the file says once `new` is written at its start.  What another    *)
(* process wrote since the truncation may be longer: then its last lines   *)
(* stay behind the new ones, and the last line with a key counts.          *)
Overlays(old, new) ==
  {new, [new EXCEPT !.mode = OrElse(old.mode, @)],
   [room |-> new.room, port |-> TRUE, mode |-> OrElse(old.mode, new.mode)],
   [room |-> OrElse(old.room, new.room), port |-> TRUE, mode |-> OrElse(old.mode, new.mode)]}

\* The write; for P2P start_p2p follows, before the credential is loaded.
Write(p) ==
  /\ phase[p] = "truncated"
  /\ Goto(p, "saved")
  /\ config' \in Overlays(config, ToSave(p))
  /\ lastRoom' = IF run[p].transport = "p2p" THEN run[p].room ELSE lastRoom
  /\ UNCHANGED <<args, run, saved, token, bearer, clean, lastMode>>

\* The process ends in the middle of the write: whole lines are missing.
TearWrite(p) ==
  /\ phase[p] = "truncated"
  /\ Goto(p, "ended")
  /\ config' \in {[ToSave(p) EXCEPT !.mode = None],
                  [ToSave(p) EXCEPT !.port = FALSE, !.mode = None]}
  /\ clean' = FALSE
  /\ UNCHANGED <<args, run, saved, token, bearer, lastRoom, lastMode>>

-----------------------------------------------------------------------------
(* load_or_create_http_bearer.                                             *)

\* Mutant of MayCreate: the file is opened with create instead of create_new.
AlwaysCreate == TRUE

\* create_new succeeds.
MayCreate == token.by = None

CreateToken(p) ==
  /\ phase[p] = "saved"
  /\ MayCreate
  /\ Goto(p, "creating")
  /\ token' = [by |-> p, complete |-> FALSE]
  /\ UNCHANGED <<args, run, saved, config, bearer, clean, lastRoom, lastMode>>

\* write_all and the two syncs; run_http follows.
WriteToken(p) ==
  /\ phase[p] = "creating"
  /\ Goto(p, "running")
  /\ token' = [by |-> p, complete |-> TRUE]
  /\ bearer' = [bearer EXCEPT ![p] = p]
  /\ UNCHANGED <<args, run, saved, config, clean, lastRoom, lastMode>>

\* AlreadyExists.
FindToken(p) ==
  /\ phase[p] = "saved"
  /\ ~MayCreate
  /\ Goto(p, "existing")
  /\ UNCHANGED <<args, run, saved, config, token, bearer, clean, lastRoom, lastMode>>

\* The length is wrong while the token is being written: InvalidHttpBearer.
CheckToken(p) ==
  /\ phase[p] = "existing"
  /\ Goto(p, IF token.complete THEN "checked" ELSE "ended")
  /\ UNCHANGED <<args, run, saved, config, token, bearer, clean, lastRoom, lastMode>>

\* Read it and check it again (valid_http_bearer); run_http follows.
ReadToken(p) ==
  /\ phase[p] = "checked"
  /\ IF token.complete
       THEN Goto(p, "running") /\ bearer' = [bearer EXCEPT ![p] = token.by]
       ELSE Goto(p, "ended") /\ UNCHANGED bearer
  /\ UNCHANGED <<args, run, saved, config, token, clean, lastRoom, lastMode>>

-----------------------------------------------------------------------------
\* A crash, a signal, an I/O error; an orderly end of a running process.
Die(p) ==
  /\ phase[p] \notin {"new", "ended"}
  /\ Goto(p, "ended")
  /\ clean' = (clean /\ ~Saving(p))
  /\ UNCHANGED <<args, run, saved, config, token, bearer, lastRoom, lastMode>>

Next ==
  \E p \in Procs :
    \/ Load(p) \/ Truncate(p) \/ Write(p) \/ TearWrite(p)
    \/ CreateToken(p) \/ WriteToken(p) \/ FindToken(p) \/ CheckToken(p) \/ ReadToken(p)
    \/ Die(p)

Spec == Init /\ [][Next]_vars

-----------------------------------------------------------------------------
(* Properties.                                                             *)

(* Every HTTP listener started with a credential, and all of them with the *)
(* one in the file, however their starts and crashes interleave: a client  *)
(* that reads the file can speak to each.                                  *)
TokenAgreement ==
  \A p \in Procs :
    phase[p] = "running" /\ run[p].transport # "stdio" =>
      token.complete /\ bearer[p] = token.by

\* A complete credential is never replaced, by a later start or a racing one.
TokenStable == [][token.complete => token' = token]_vars

(* After starts that do not overlap and are not cut short, --p2p without   *)
(* --room comes back with the pairing code of the last P2P run, any number *)
(* of HTTP and stdio runs later.                                           *)
PairingKept ==
  clean /\ (\A p \in Procs : ~Saving(p)) /\ lastRoom # None => config.room = lastRoom

(* README.md:71: "The last signaling server, pairing code, HTTP port, and  *)
(* mode are saved": after undisturbed starts, one without --mode gets the  *)
(* mode of the last run.                                                   *)
LastModeSaved ==
  clean /\ (\A p \in Procs : ~Saving(p)) /\ lastMode # None =>
    OrElse(config.mode, Full) = lastMode

=============================================================================
