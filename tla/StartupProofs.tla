--------------------------- MODULE StartupProofs ----------------------------
(***************************************************************************)
(* Proofs about starting the daemon, for any number of processes and any   *)
(* command lines.  The credential: the file belongs to the one process     *)
(* that is writing it, a process that has checked it found it complete,    *)
(* and one that listens uses what is in it (TokenInv).  The pairing code:  *)
(* as long as starts neither overlap nor are cut short, the only process   *)
(* between load and save has loaded the last one (PairInv).                *)
(***************************************************************************)
EXTENDS Startup, TLAPS

LEMMA LoadType ==
  ASSUME NEW a \in Args, NEW conf \in Settings, NEW p \in Procs,
         ModeName(a, conf) \in Modes
  PROVE  [transport |-> Transport(a, conf), mode |-> ModeName(a, conf),
          room |-> IF Transport(a, conf) = "p2p" THEN Room(p, a, conf) ELSE None]
           \in [transport : Transports, mode : Modes, room : Rooms \cup {None}]
<1>1. Transport(a, conf) \in Transports
  BY StartupAssumption DEF Transport, Transports
<1>2. Room(p, a, conf) \in Rooms
  BY StartupAssumption DEF Room, OrElse, Settings
<1> QED
  BY <1>1, <1>2

LEMMA SaveType ==
  ASSUME TypeOK, NEW p \in Procs
  PROVE  /\ ToSave(p) \in Settings
         /\ Overlays(config, ToSave(p)) \subseteq Settings
         /\ [ToSave(p) EXCEPT !.mode = None] \in Settings
         /\ [ToSave(p) EXCEPT !.port = FALSE, !.mode = None] \in Settings
<1>1. ToSave(p) \in Settings
  BY DEF TypeOK, ToSave, Settings
<1>2. ASSUME NEW old \in Settings, NEW new \in Settings PROVE Overlays(old, new) \subseteq Settings
  BY DEF Overlays, OrElse, Settings
<1> QED
  BY <1>1, <1>2 DEF TypeOK, Settings

LEMMA InitType == Init => TypeOK
BY StartupAssumption DEF Init, TypeOK, Phases, NotRunning, NoSettings, NoToken, Settings, Transports

LEMMA NextType == TypeOK /\ [Next]_vars => TypeOK'
<1> SUFFICES ASSUME TypeOK, [Next]_vars PROVE TypeOK'
  OBVIOUS
<1>1. ASSUME NEW p \in Procs, Load(p) PROVE TypeOK'
  <2>1. args[p] \in Args /\ config \in Settings
    BY DEF TypeOK
  <2>2. saved' \in [Procs -> Settings]
    BY <1>1, <2>1 DEF Load, TypeOK
  <2>3. phase' \in [Procs -> Phases]
    BY <1>1 DEF Load, Goto, TypeOK, Phases
  <2>4. /\ run' \in [Procs -> [transport : Transports, mode : Modes, room : Rooms \cup {None}]]
        /\ lastMode' \in Modes \cup {None}
    <3> DEFINE a == args[p]
               new == [transport |-> Transport(a, config), mode |-> ModeName(a, config),
                       room |-> IF Transport(a, config) = "p2p" THEN Room(p, a, config)
                                                                ELSE None]
    <3>1. CASE ModeName(a, config) \in Modes
      <4>1. new \in [transport : Transports, mode : Modes, room : Rooms \cup {None}]
        BY <2>1, <3>1, LoadType
      <4>2. run' = [run EXCEPT ![p] = new] /\ lastMode' = ModeName(a, config)
        BY <1>1, <3>1 DEF Load, Parses
      <4> HIDE DEF new, a
      <4> QED
        BY <3>1, <4>1, <4>2 DEF TypeOK
    <3>2. CASE ModeName(a, config) \notin Modes
      BY <1>1, <3>2 DEF Load, Parses, TypeOK
    <3> QED
      BY <3>1, <3>2
  <2>5. clean' \in BOOLEAN
    BY <1>1 DEF Load, TypeOK
  <2> QED
    BY <1>1, <2>2, <2>3, <2>4, <2>5 DEF Load, TypeOK
<1>2. ASSUME NEW p \in Procs, Truncate(p) \/ Write(p) \/ TearWrite(p) PROVE TypeOK'
  <2>1. config' \in Settings
    <3>1. NoSettings \in Settings
      BY DEF NoSettings, Settings
    <3> QED
      BY <1>2, <3>1, SaveType DEF Truncate, Write, TearWrite
  <2>2. phase' \in [Procs -> Phases]
    BY <1>2 DEF Truncate, Write, TearWrite, Goto, TypeOK, Phases
  <2>3. lastRoom' \in Rooms \cup {None} /\ clean' \in BOOLEAN
    BY <1>2 DEF Truncate, Write, TearWrite, TypeOK
  <2> QED
    BY <1>2, <2>1, <2>2, <2>3 DEF Truncate, Write, TearWrite, TypeOK
<1>3. ASSUME NEW p \in Procs,
             CreateToken(p) \/ WriteToken(p) \/ FindToken(p) \/ CheckToken(p) \/ ReadToken(p)
      PROVE  TypeOK'
  <2>1. phase' \in [Procs -> Phases]
    BY <1>3 DEF CreateToken, WriteToken, FindToken, CheckToken, ReadToken, Goto, TypeOK, Phases
  <2>2. token' \in [by : Procs \cup {None}, complete : BOOLEAN]
    <3>1. \/ token' = token
          \/ token' = [by |-> p, complete |-> FALSE]
          \/ token' = [by |-> p, complete |-> TRUE]
      BY <1>3 DEF CreateToken, WriteToken, FindToken, CheckToken, ReadToken
    <3>2. \A b \in BOOLEAN :
            [by |-> p, complete |-> b] \in [by : Procs \cup {None}, complete : BOOLEAN]
      OBVIOUS
    <3>3. TRUE \in BOOLEAN /\ FALSE \in BOOLEAN
      OBVIOUS
    <3>4. token \in [by : Procs \cup {None}, complete : BOOLEAN]
      BY DEF TypeOK
    <3> QED
      BY <3>1, <3>2, <3>3, <3>4, Zenon
  <2>3. bearer' \in [Procs -> Procs \cup {None}]
    BY <1>3 DEF CreateToken, WriteToken, FindToken, CheckToken, ReadToken, TypeOK
  <2>4. UNCHANGED <<args, run, saved, config, clean, lastRoom, lastMode>>
    BY <1>3 DEF CreateToken, WriteToken, FindToken, CheckToken, ReadToken
  <2> QED
    BY <2>1, <2>2, <2>3, <2>4 DEF TypeOK
<1>4. ASSUME NEW p \in Procs, Die(p) PROVE TypeOK'
  BY <1>4 DEF Die, Goto, TypeOK, Phases
<1>5. CASE UNCHANGED vars
  BY <1>5 DEF vars, TypeOK
<1> QED
  BY <1>1, <1>2, <1>3, <1>4, <1>5 DEF Next

\* Settings, files and credentials keep their types; only valid modes are saved.
THEOREM TypeCorrect == Spec => []TypeOK
BY InitType, NextType, PTL DEF Spec

-----------------------------------------------------------------------------
(* The credential.                                                         *)

TokenInv ==
  /\ token.complete => token.by \in Procs
  /\ \A p \in Procs :
       /\ phase[p] = "creating" => token = [by |-> p, complete |-> FALSE]
       /\ phase[p] = "checked" => token.complete
       /\ phase[p] \in {"loaded", "truncated", "saved", "creating", "existing", "checked"} =>
            run[p].transport # "stdio"
       /\ phase[p] = "running" /\ run[p].transport # "stdio" =>
            token.complete /\ bearer[p] = token.by

LEMMA InitTokenInv == Init => TokenInv
BY DEF Init, TokenInv, NoToken

LEMMA NextTokenInv == TypeOK /\ TokenInv /\ [Next]_vars => TokenInv'
<1> SUFFICES ASSUME TypeOK, TokenInv, [Next]_vars PROVE TokenInv'
  OBVIOUS
<1> USE StartupAssumption
<1>1. ASSUME NEW p \in Procs, Load(p) PROVE TokenInv'
  <2>1. ASSUME NEW q \in Procs, q # p
        PROVE  phase'[q] = phase[q] /\ run'[q] = run[q]
    BY <1>1, <2>1 DEF Load, Goto, TypeOK
  <2>2. \/ phase'[p] = "running" /\ run'[p].transport = "stdio"
        \/ phase'[p] = "loaded" /\ run'[p].transport # "stdio"
        \/ phase'[p] = "ended"
    BY <1>1 DEF Load, Goto, TypeOK
  <2>3. UNCHANGED <<token, bearer>>
    BY <1>1 DEF Load
  <2> QED
    BY <2>1, <2>2, <2>3 DEF TokenInv
<1>2. ASSUME NEW p \in Procs, Truncate(p) \/ Write(p) \/ TearWrite(p) \/ Die(p)
      PROVE  TokenInv'
  BY <1>2 DEF Truncate, Write, TearWrite, Die, Goto, TypeOK, TokenInv
<1>3. ASSUME NEW p \in Procs, CreateToken(p) PROVE TokenInv'
  <2>1. ~token.complete /\ \A q \in Procs : phase[q] \notin {"creating", "checked"}
    BY <1>3 DEF CreateToken, MayCreate, TokenInv
  <2>2. \A q \in Procs : phase[q] = "running" => run[q].transport = "stdio"
    BY <2>1 DEF TokenInv
  <2>3. /\ phase' = [phase EXCEPT ![p] = "creating"] /\ phase[p] = "saved"
        /\ token' = [by |-> p, complete |-> FALSE]
        /\ UNCHANGED <<run, bearer>>
    BY <1>3 DEF CreateToken, Goto
  <2> QED
    BY <2>1, <2>2, <2>3 DEF TypeOK, TokenInv
<1>4. ASSUME NEW p \in Procs, WriteToken(p) PROVE TokenInv'
  BY <1>4 DEF WriteToken, Goto, TypeOK, TokenInv
<1>5. ASSUME NEW p \in Procs, FindToken(p) \/ CheckToken(p) PROVE TokenInv'
  BY <1>5 DEF FindToken, CheckToken, Goto, TypeOK, TokenInv
<1>6. ASSUME NEW p \in Procs, ReadToken(p) PROVE TokenInv'
  BY <1>6 DEF ReadToken, Goto, TypeOK, TokenInv
<1>7. CASE UNCHANGED vars
  BY <1>7 DEF vars, TokenInv
<1> QED
  BY <1>1, <1>2, <1>3, <1>4, <1>5, <1>6, <1>7 DEF Next

\* All HTTP listeners use the credential that is in the file.
THEOREM TokenAgreementHolds == Spec => []TokenAgreement
<1>1. TokenInv => TokenAgreement
  BY DEF TokenInv, TokenAgreement
<1> QED
  BY InitType, NextType, InitTokenInv, NextTokenInv, <1>1, PTL DEF Spec

\* A complete credential is never replaced.
THEOREM TokenStableHolds == Spec => TokenStable
<1>1. ASSUME TypeOK, TokenInv, [Next]_vars
      PROVE  [token.complete => token' = token]_vars
  <2>1. ASSUME NEW p \in Procs, CreateToken(p) PROVE ~token.complete
    BY <1>1, <2>1, StartupAssumption DEF CreateToken, MayCreate, TokenInv
  <2>2. ASSUME NEW p \in Procs, WriteToken(p) PROVE ~token.complete
    BY <1>1, <2>2 DEF WriteToken, TokenInv
  <2> QED
    BY <1>1, <2>1, <2>2
       DEF Next, Load, Truncate, Write, TearWrite, FindToken, CheckToken, ReadToken, Die
<1> QED
  BY InitType, NextType, InitTokenInv, NextTokenInv, <1>1, PTL DEF Spec, TokenStable

-----------------------------------------------------------------------------
(* The pairing code.                                                       *)

PairInv ==
  clean =>
    /\ \A p, q \in Procs : Saving(p) /\ Saving(q) => p = q
    /\ lastRoom # None =>
         config.room = lastRoom \/ \E p \in Procs : phase[p] = "truncated"
    /\ \A p \in Procs : Saving(p) /\ lastRoom # None => saved[p].room = lastRoom
    /\ \A p \in Procs : phase[p] = "truncated" => config = NoSettings

LEMMA NextPairInv == TypeOK /\ PairInv /\ [Next]_vars => PairInv'
<1> SUFFICES ASSUME TypeOK, PairInv, [Next]_vars, clean' PROVE PairInv'
  BY DEF PairInv
<1> USE DEF Saving
<1>1. ASSUME NEW p \in Procs, Load(p) PROVE PairInv'
  <2>1. clean /\ \A q \in Procs : ~Saving(q)
    BY <1>1 DEF Load
  <2>2. UNCHANGED <<config, lastRoom>> /\ saved' = [saved EXCEPT ![p] = config]
    BY <1>1 DEF Load
  <2>3. \A q \in Procs : /\ phase'[q] # "truncated"
                         /\ phase'[q] = "loaded" => q = p
    BY <1>1, <2>1 DEF Load, Goto, TypeOK
  <2> QED
    BY <2>1, <2>2, <2>3 DEF PairInv, TypeOK
<1>2. ASSUME NEW p \in Procs, Truncate(p) PROVE PairInv'
  BY <1>2 DEF Truncate, Goto, TypeOK, PairInv
<1>3. ASSUME NEW p \in Procs, Write(p) PROVE PairInv'
  <2>1. clean /\ phase[p] = "truncated" /\ config = NoSettings
    BY <1>3 DEF Write, PairInv
  <2>2. config' = ToSave(p)
    BY <1>3, <2>1 DEF Write, Overlays, OrElse, NoSettings, ToSave
  <2>3. \A q \in Procs : phase'[q] \notin {"loaded", "truncated"}
    BY <1>3, <2>1 DEF Write, Goto, TypeOK, PairInv
  <2>4. lastRoom' # None => config'.room = lastRoom'
    BY <1>3, <2>1, <2>2 DEF Write, ToSave, PairInv
  <2> QED
    BY <2>3, <2>4 DEF PairInv
<1>4. ASSUME NEW p \in Procs,
             CreateToken(p) \/ WriteToken(p) \/ FindToken(p) \/ CheckToken(p) \/ ReadToken(p)
      PROVE  PairInv'
  <2>1. /\ UNCHANGED <<saved, config, clean, lastRoom>>
        /\ phase[p] \notin {"loaded", "truncated"}
        /\ \E ph \in Phases \ {"loaded", "truncated"} : phase' = [phase EXCEPT ![p] = ph]
    BY <1>4 DEF CreateToken, WriteToken, FindToken, CheckToken, ReadToken, Goto, Phases
  <2>2. \A q \in Procs : /\ phase'[q] = "truncated" <=> phase[q] = "truncated"
                         /\ phase'[q] = "loaded" <=> phase[q] = "loaded"
    BY <2>1 DEF TypeOK
  <2> QED
    BY <2>1, <2>2 DEF PairInv
<1>5. ASSUME NEW p \in Procs, TearWrite(p) PROVE PairInv'
  BY <1>5 DEF TearWrite
<1>6. ASSUME NEW p \in Procs, Die(p) PROVE PairInv'
  <2>1. /\ UNCHANGED <<saved, config, lastRoom>> /\ clean
        /\ phase[p] \notin {"loaded", "truncated"}
        /\ phase' = [phase EXCEPT ![p] = "ended"]
    BY <1>6 DEF Die, Goto
  <2>2. \A q \in Procs : /\ phase'[q] = "truncated" <=> phase[q] = "truncated"
                         /\ phase'[q] = "loaded" <=> phase[q] = "loaded"
    BY <2>1 DEF TypeOK
  <2> QED
    BY <2>1, <2>2 DEF PairInv
<1>7. CASE UNCHANGED vars
  BY <1>7 DEF vars, PairInv
<1> QED
  BY <1>1, <1>2, <1>3, <1>4, <1>5, <1>6, <1>7 DEF Next

\* Undisturbed starts bring the pairing code of the last P2P run back.
THEOREM PairingKeptHolds == Spec => []PairingKept
<1>1. Init => PairInv
  BY DEF Init, PairInv, Saving
<1>2. PairInv => PairingKept
  BY DEF PairInv, PairingKept, Saving
<1> QED
  BY InitType, NextType, <1>1, NextPairInv, <1>2, PTL DEF Spec

=============================================================================
