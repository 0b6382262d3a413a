----------------------------- MODULE HostTools ------------------------------
(***************************************************************************)
(* The tool table of folk-computer-use/src/lib.rs behind ToolTable::call,  *)
(* and the private artifact files (create_artifact_file of folk-core) that *)
(* the capture tools share.                                                *)
(*                                                                         *)
(* Each member of Procs is one daemon of the same user; all of them use    *)
(* one artifact directory, and each may die at any step.  A daemon runs    *)
(* one call at a time here; the threads of an HTTP daemon share nothing    *)
(* but that directory and are members of Procs as well.                    *)
(*                                                                         *)
(* Of a call's arguments the model keeps what the handlers branch on:      *)
(*   "none"     nothing was given      "plain"  complete, nothing special  *)
(*   "safe"     a shell command that restricted_command accepts            *)
(*   "list"     an action that lists or inspects                           *)
(*   "focus"    window "focus", app "activate"                             *)
(*   "grant"    permissions "grant"                                        *)
(*   "invalid"  an unknown capture mode or target                          *)
(* Images are numbered in the order in which they are taken; 0 stands for  *)
(* an empty file.  Files are those of a Unix host.                         *)
(***************************************************************************)
EXTENDS Integers

CONSTANTS
  Procs,          \* daemons that share the artifact directory
  Ids,            \* identifiers generate_hex may come up with
  NoId,           \* no artifact file yet
  MaxTries,       \* identifiers create_artifact_file tries
  Capabilities,   \* semantic actions the runtime supports
  MaxShots        \* bound of the model: images taken

ASSUME HostAssumption ==
  /\ NoId \notin Ids
  /\ MaxTries \in Nat \ {0}
  /\ Capabilities \subseteq {"invoke", "set_value"}
  /\ MaxShots \in Nat

Modes == {"full", "limited", "sandbox"}

Args == {"none", "plain", "safe", "list", "focus", "grant", "invalid"}

-----------------------------------------------------------------------------
(* The tool table.                                                         *)

\* Handlers that only look.
Observing == {"folk_system_info", "folk_list_apps", "folk_list_screens",
              "folk_clipboard_read", "folk_doctor", "folk_ui_snapshot"}

Capturing == {"folk_image", "folk_see", "folk_screen_capture"}

\* Handlers that ask ensure_mutation before anything else.
Mutating == {"folk_clipboard_write", "folk_click", "folk_set_value", "folk_press",
             "folk_type", "folk_paste", "folk_hotkey", "folk_scroll", "folk_move",
             "folk_perform_action", "folk_open", "folk_clean", "folk_swipe", "folk_drag"}

\* Handlers that look at an action, a command or a duration.
Mixed == {"folk_shell", "folk_spawn", "folk_permissions", "folk_window", "folk_app",
          "folk_menu", "folk_sleep"}

Registered == Observing \cup Capturing \cup Mutating \cup Mixed

\* Registered, but taken out of the table again whatever the runtime supports.
Unsupported == {"folk_press", "folk_type", "folk_paste", "folk_hotkey", "folk_scroll",
                "folk_swipe", "folk_drag", "folk_move", "folk_perform_action",
                "folk_window", "folk_app", "folk_open", "folk_menu", "folk_sleep",
                "folk_clean", "folk_doctor"}

\* Mutant of Kept: the windows tool is forgotten in the filter.
KeptWithWindows(tool) == tool \notin Unsupported \ {"folk_window"}

\* The filter at the end of register_tools.
Kept(tool) ==
  CASE tool \in {"folk_ui_snapshot", "folk_see"} -> Capabilities # {}
    [] tool = "folk_click" -> "invoke" \in Capabilities
    [] tool = "folk_set_value" -> "set_value" \in Capabilities
    [] OTHER -> tool \notin Unsupported

EnsureMutation(m) == m = "full"

\* ensure_safe_focus_or_full, and the listing that comes before it.
EnsureSafeFocusOrFull(m, arg) == arg \in {"list", "focus"} \/ EnsureMutation(m)

\* The handler's mode check lets the call through.
Permitted(m, tool, arg) ==
  CASE tool \in Mutating -> EnsureMutation(m)
    [] tool = "folk_shell" -> m = "full" \/ arg = "safe"
    [] tool = "folk_spawn" -> m = "full"
    [] tool = "folk_permissions" -> arg = "grant" => EnsureMutation(m)
    [] tool \in {"folk_window", "folk_app"} -> EnsureSafeFocusOrFull(m, arg)
    [] tool = "folk_menu" -> arg = "list" \/ EnsureMutation(m)
    [] OTHER -> TRUE

\* What a permitted call changes on the host.
Effect(m, tool, arg) ==
  CASE tool \in Observing \cup {"folk_sleep", "folk_swipe", "folk_drag"} -> "nothing"
    [] tool \in Registered \ {"folk_scroll", "folk_clean"} /\ arg = "none" -> "nothing"
    [] tool = "folk_shell" /\ arg # "none" -> IF m = "full" THEN "command" ELSE "safe command"
    [] tool = "folk_spawn" /\ arg # "none" -> "process"
    [] tool = "folk_clipboard_write" /\ arg # "none" -> "clipboard"
    [] tool = "folk_permissions" /\ arg # "none" ->
         IF arg = "grant" THEN "permissions" ELSE "nothing"
    [] tool \in {"folk_window", "folk_app", "folk_menu"} /\ arg = "list" -> "nothing"
    [] OTHER -> "desktop"

-----------------------------------------------------------------------------
(* State.                                                                  *)

VARIABLES
  mode,      \* ToolTable.mode of each daemon
  pc,        \* where its call is
  call,      \* the call: [tool, arg]
  tries,     \* identifiers tried for the artifact of the call
  art,       \* identifier of the call's artifact file
  shot,      \* the image its capture took, later the one it hashed
  dirs,      \* the directories `config` and `artifacts` below it
  files,     \* the artifact files
  taken,     \* images taken so far
  given,     \* history: artifacts named in replies, [id, hash, shot]
  changed    \* history: [proc, effect]

hostVars == <<mode, pc, call, tries, art, shot, dirs, files, taken, given, changed>>

NoFile == [exists |-> FALSE, data |-> 0, access |-> "private"]

NoCall == [tool |-> "none", arg |-> "none"]

\* The states of a call in create_artifact_file and in the capture handlers.
Steps == {"make_config", "restrict_config", "make_artifacts", "restrict_artifacts",
          "create", "capture", "discard", "restrict", "hash"}

HostTypeOK ==
  /\ mode \in [Procs -> Modes]
  /\ pc \in [Procs -> Steps \cup {"idle", "answer", "dead"}]
  /\ call \in [Procs -> [tool : Registered, arg : Args] \cup {NoCall}]
  /\ tries \in [Procs -> 0 .. MaxTries]
  /\ art \in [Procs -> Ids \cup {NoId}]
  /\ shot \in [Procs -> Nat]
  /\ dirs \in [{"config", "artifacts"} -> {"absent", "open", "private"}]
  /\ files \in [Ids -> [exists : BOOLEAN, data : Nat, access : {"open", "private"}]]
  /\ taken \in Nat
  /\ given \subseteq [id : Ids, hash : Nat, shot : Nat]
  /\ changed \subseteq [proc : Procs, effect : {"command", "safe command", "process",
                                    "clipboard", "permissions", "desktop", "artifact", "nothing"}]

\* The directories may be there already, made by hand or by an earlier version.
HostInit ==
  /\ mode \in [Procs -> Modes]
  /\ pc = [p \in Procs |-> "idle"]
  /\ call = [p \in Procs |-> NoCall]
  /\ tries = [p \in Procs |-> 0]
  /\ art = [p \in Procs |-> NoId]
  /\ shot = [p \in Procs |-> 0]
  /\ dirs \in [{"config", "artifacts"} -> {"absent", "open", "private"}]
  /\ dirs["config"] = "absent" => dirs["artifacts"] = "absent"
  /\ files = [id \in Ids |-> NoFile]
  /\ taken = 0
  /\ given = {}
  /\ changed = {}

Goto(p, from, to) == pc[p] = from /\ pc' = [pc EXCEPT ![p] = to]

-----------------------------------------------------------------------------
(* ToolTable::call.                                                        *)

\* image finds an invalid mode only after it has made the file.
RejectedEarly(tool, arg) == tool \in Capturing \ {"folk_image"} /\ arg = "invalid"

\* A capture tool goes on to create_artifact_file.
BeginCapture(p, tool, arg) ==
  /\ tool \in Capturing /\ Kept(tool) /\ ~RejectedEarly(tool, arg)
  /\ Goto(p, "idle", "make_config")
  /\ call' = [call EXCEPT ![p] = [tool |-> tool, arg |-> arg]]
  /\ UNCHANGED <<mode, tries, art, shot, dirs, files, taken, given, changed>>

\* Every other tool is one call to the host, which may fail and change nothing.
RunTool(p, tool, arg, done) ==
  /\ tool \in Registered \ Capturing /\ Kept(tool) /\ Permitted(mode[p], tool, arg)
  /\ Goto(p, "idle", "answer")
  /\ changed' = IF done
       THEN changed \cup {[proc |-> p, effect |-> Effect(mode[p], tool, arg)]} ELSE changed
  /\ UNCHANGED <<mode, call, tries, art, shot, dirs, files, taken, given>>

\* No such tool, blocked in this mode, or refused for its arguments.
Refuse(p, tool, arg) ==
  /\ \/ ~Kept(tool) \/ RejectedEarly(tool, arg)
     \/ tool \notin Capturing /\ ~Permitted(mode[p], tool, arg)
  /\ Goto(p, "idle", "answer")
  /\ UNCHANGED <<mode, call, tries, art, shot, dirs, files, taken, given, changed>>

CallTool(p, tool, arg) ==
  \/ BeginCapture(p, tool, arg)
  \/ \E done \in BOOLEAN : RunTool(p, tool, arg, done)
  \/ Refuse(p, tool, arg)

-----------------------------------------------------------------------------
(* create_artifact_file.                                                   *)

\* Captures write below the configuration directory, whatever the mode.
ChangesArtifacts(p) == changed' = changed \cup {[proc |-> p, effect |-> "artifact"]}

\* create_dir_all, with the permissions the umask leaves.
Made(status) == IF status = "absent" THEN "open" ELSE status

\* Mutant of Restricted: set_permissions is forgotten.
LeftAsMade(status) == status

\* set_permissions(0o700).
Restricted(status) == "private"

\* The first half of ensure_private_dir.
MakeDir(p, d) ==
  /\ Goto(p, IF d = "config" THEN "make_config" ELSE "make_artifacts",
             IF d = "config" THEN "restrict_config" ELSE "restrict_artifacts")
  /\ dirs' = [dirs EXCEPT ![d] = Made(@)]
  /\ ChangesArtifacts(p)
  /\ UNCHANGED <<mode, call, tries, art, shot, files, taken, given>>

\* The second half.
RestrictDir(p, d) ==
  /\ Goto(p, IF d = "config" THEN "restrict_config" ELSE "restrict_artifacts",
             IF d = "config" THEN "make_artifacts" ELSE "create")
  /\ dirs' = [dirs EXCEPT ![d] = Restricted(@)]
  /\ ChangesArtifacts(p)
  /\ UNCHANGED <<mode, call, tries, art, shot, files, taken, given>>

\* Mutant of MayCreate: opened with create instead of create_new.
AlwaysCreate(id) == TRUE

\* create_new succeeds.
MayCreate(id) == ~files[id].exists

\* The identifier is new: an empty file that only its owner may read.
CreateFile(p, id) ==
  /\ MayCreate(id)
  /\ Goto(p, "create", "capture")
  /\ files' = [files EXCEPT ![id] = [exists |-> TRUE, data |-> 0, access |-> "private"]]
  /\ art' = [art EXCEPT ![p] = id]
  /\ ChangesArtifacts(p)
  /\ UNCHANGED <<mode, call, tries, shot, dirs, taken, given>>

\* AlreadyExists: try another identifier, 16 times in all.
Collide(p, id) ==
  /\ ~MayCreate(id)
  /\ Goto(p, "create", IF tries[p] + 1 = MaxTries THEN "answer" ELSE "create")
  /\ tries' = [tries EXCEPT ![p] = @ + 1]
  /\ UNCHANGED <<mode, call, art, shot, dirs, files, taken, given, changed>>

-----------------------------------------------------------------------------
(* The capture, image_result and screenshot_reference.                     *)

(* External: the backend writes the image to the file, perhaps by putting  *)
(* another file with ordinary permissions in its place.  If it fails, part *)
(* of the image may be there; an ephemeral capture is deleted again.  The  *)
(* backend is taken to report the path it was given, which is the one that *)
(* image_result goes on with.                                              *)
Capture(p, access, next) ==
  /\ call[p].arg # "invalid"
  /\ taken < MaxShots
  /\ Goto(p, "capture", next)
  /\ taken' = taken + 1
  /\ shot' = [shot EXCEPT ![p] = taken + 1]
  /\ files' = [files EXCEPT ![art[p]] =
                 [exists |-> TRUE, data |-> taken + 1, access |-> access]]
  /\ ChangesArtifacts(p)
  /\ UNCHANGED <<mode, call, tries, art, dirs, given>>

\* remove_file of the path the backend reported for an ephemeral capture, then
\* an error.
Discard(p) ==
  /\ Goto(p, "discard", "answer")
  /\ files' = [files EXCEPT ![art[p]] = NoFile]
  /\ art' = [art EXCEPT ![p] = NoId]
  /\ ChangesArtifacts(p)
  /\ UNCHANGED <<mode, call, tries, shot, dirs, taken, given>>

\* Mutant of AccessAfterRestrict: the permissions are not set.
AccessAsFound(id) == files[id].access

\* set_permissions(0o600) on the open file.
AccessAfterRestrict(id) == "private"

RestrictFile(p) ==
  /\ Goto(p, "restrict", "hash")
  /\ files' = [files EXCEPT ![art[p]].access = AccessAfterRestrict(art[p])]
  /\ ChangesArtifacts(p)
  /\ UNCHANGED <<mode, call, tries, art, shot, dirs, taken, given>>

\* The hash is taken and goes into the reply with the locator.
Hash(p) ==
  /\ Goto(p, "hash", "answer")
  /\ given' = given \cup
       {[id |-> art[p], hash |-> files[art[p]].data, shot |-> shot[p]]}
  /\ UNCHANGED <<mode, call, tries, art, shot, dirs, files, taken, changed>>

\* An I/O error, a file that is too large, a failed observation: the call ends
\* with an error and what it has made stays.
CaptureFails(p) ==
  /\ pc[p] \in Steps
  /\ pc' = [pc EXCEPT ![p] = "answer"]
  /\ UNCHANGED <<mode, call, tries, art, shot, dirs, files, taken, given, changed>>

CaptureStep(p) ==
  \/ \E d \in {"config", "artifacts"} : MakeDir(p, d) \/ RestrictDir(p, d)
  \/ \E id \in Ids : CreateFile(p, id) \/ Collide(p, id)
  \/ \E access \in {"open", "private"}, next \in {"restrict", "discard", "answer"} :
       Capture(p, access, next)
  \/ Discard(p) \/ RestrictFile(p) \/ Hash(p) \/ CaptureFails(p)

-----------------------------------------------------------------------------
\* The reply is handed to the transport and the call forgotten.
Answer(p) ==
  /\ Goto(p, "answer", "idle")
  /\ call' = [call EXCEPT ![p] = NoCall]
  /\ tries' = [tries EXCEPT ![p] = 0]
  /\ art' = [art EXCEPT ![p] = NoId]
  /\ shot' = [shot EXCEPT ![p] = 0]
  /\ UNCHANGED <<mode, dirs, files, taken, given, changed>>

\* The daemon ends, at any point of a call.
Die(p) ==
  /\ pc[p] # "dead"
  /\ pc' = [pc EXCEPT ![p] = "dead"]
  /\ UNCHANGED <<mode, call, tries, art, shot, dirs, files, taken, given, changed>>

-----------------------------------------------------------------------------
(* Properties.                                                             *)

(* An artifact named in a reply stays what the reply said: the file of the *)
(* locator holds the image this call took, which is the one it hashed, and *)
(* only its owner may read it.  No other daemon's capture, error or        *)
(* cleanup touches it, even when both come up with the same identifier.    *)
LocatorExact ==
  \A g \in given :
    /\ g.hash = g.shot
    /\ files[g.id] = [exists |-> TRUE, data |-> g.shot, access |-> "private"]

(* README.md:35, "files under the owner-only Folk Around artifact          *)
(* directory": from the moment an image is on disk, whole or in part, the  *)
(* directory keeps others out, though the capture backend may leave the    *)
(* file itself readable and a daemon may have died while it made the       *)
(* directory.                                                              *)
ImagesPrivate == \A id \in Ids : files[id].data # 0 => dirs["artifacts"] = "private"

(* The shell and mutation columns of README.md:105-109: in limited and     *)
(* sandbox mode nothing is changed but by allowlisted commands and, in the *)
(* artifact directory, by captures.  The handlers of windows and apps let  *)
(* focus changes through in every mode; only the filter keeps them away.   *)
(* The clipboard column is another matter: see ClipboardInEveryMode.       *)
MutationOnlyInFull ==
  \A c \in changed :
    mode[c.proc] = "full" \/ c.effect \in {"nothing", "safe command", "artifact"}

=============================================================================
