------------------------- MODULE StdioServerProofs --------------------------
(***************************************************************************)
(* Proofs about the stdio daemons and the tools behind them, for any       *)
(* number of daemons, identifiers and images and whatever clients send.    *)
(*                                                                         *)
(* A step of StdioServer is a step of the tools or leaves them alone       *)
(* (StepIsHostStep), so the tools' invariant is about the variables of     *)
(* HostTools.  It adds to the properties who holds which file: a call that *)
(* has made its artifact and not yet ended holds it alone, no reply has    *)
(* named it, and from `restrict` on it is the image the call took          *)
(* (Holding).  A call that has got as far as creating a file has           *)
(* restricted the directory (DirReady).                                    *)
(*                                                                         *)
(* The transport's invariant (StdioInv) is about one daemon at a time:     *)
(*   Framed      the input is a prefix of the encoded messages: which      *)
(*               token may follow which, so that no more need be known of  *)
(*               FlattenSeq;                                               *)
(*   InPlace     the token read last fits the reader's state, and only     *)
(*               what is behind it is spoilt, or the next token if its     *)
(*               beginning has been read.  With right lengths the reader   *)
(*               looks for a message only behind the end of one, or behind *)
(*               a header line it took for one;                            *)
(*   Caught      what it has handled: only messages whose last token is    *)
(*               behind it and intact, all of these when the lengths are   *)
(*               right, and in any case a line that does not stick to a    *)
(*               body which was not handled;                               *)
(*   AnswersOK   what it has answered of what it has handled.              *)
(* FlattenSeq is recursive.  That it equals its recursive description is   *)
(* shown for the shortest sequence it could fail on (Least).               *)
(***************************************************************************)
EXTENDS StdioServer, SequenceTheorems, NaturalsInduction, WellFoundedInduction, TLAPS

\* The steps in which a call works on its own artifact file.
HoldingSteps == {"capture", "discard", "restrict", "hash"}

Holding ==
  /\ \A p \in Procs : pc[p] \in HoldingSteps =>
       /\ art[p] \in Ids /\ files[art[p]].exists
       /\ \A g \in given : g.id # art[p]
       /\ pc[p] # "capture" => files[art[p]].data = shot[p]
       /\ pc[p] = "hash" => files[art[p]].access = "private"
  /\ \A p, q \in Procs :
       p # q /\ pc[p] \in HoldingSteps /\ pc[q] \in HoldingSteps => art[p] # art[q]

DirReady ==
  \A p \in Procs : pc[p] \in HoldingSteps \cup {"create"} => dirs["artifacts"] = "private"

\* The part of HostTypeOK the argument needs.
CaptureTypes ==
  /\ pc \in [Procs -> Steps \cup {"idle", "answer", "dead"}]
  /\ art \in [Procs -> Ids \cup {NoId}]
  /\ shot \in [Procs -> Nat]
  /\ dirs \in [{"config", "artifacts"} -> {"absent", "open", "private"}]
  /\ files \in [Ids -> [exists : BOOLEAN, data : Nat, access : {"open", "private"}]]
  /\ taken \in Nat
  /\ given \subseteq [id : Ids, hash : Nat, shot : Nat]

HostInv == CaptureTypes /\ Holding /\ DirReady /\ LocatorExact /\ ImagesPrivate

-----------------------------------------------------------------------------
(* The steps of the tools, without the transport.                          *)

HostStep ==
  \E p \in Procs :
    \/ \E tool, arg : CallTool(p, tool, arg)
    \/ CaptureStep(p) \/ Answer(p) \/ Die(p)

LEMMA StepIsHostStep == [Next]_vars => HostStep \/ UNCHANGED hostVars
<1>1. ASSUME NEW p \in Procs, NEW n, HandleMessage(p, n)
      PROVE  HostStep \/ UNCHANGED hostVars
  BY <1>1 DEF HandleMessage, Quiet, HostStep
<1>2. ASSUME NEW p \in Procs, Reject(p) PROVE UNCHANGED hostVars
  BY <1>2 DEF Reject, Quiet
<1>3. ASSUME NEW p \in Procs, ReadFirst(p) PROVE HostStep \/ UNCHANGED hostVars
  BY <1>1, <1>2, <1>3 DEF ReadFirst, Quiet
<1>4. ASSUME NEW p \in Procs, ReadBody(p) PROVE HostStep \/ UNCHANGED hostVars
  BY <1>1, <1>2, <1>4 DEF ReadBody, Fail
<1>5. ASSUME NEW p \in Procs, ReadEnd(p) \/ ReadHeaders(p) \/ ReadInvalid(p)
      PROVE  UNCHANGED hostVars
  BY <1>5 DEF ReadEnd, ReadHeaders, ReadInvalid, Quiet, Fail
<1>6. ASSUME NEW p \in Procs, WriteAnswer(p) PROVE HostStep
  BY <1>6 DEF WriteAnswer, HostStep
<1> QED
  BY <1>3, <1>4, <1>5, <1>6 DEF Next, vars, HostStep

-----------------------------------------------------------------------------
(* The invariant.                                                          *)

LEMMA InitInv == Init => HostInv
<1> SUFFICES ASSUME Init PROVE HostInv
  OBVIOUS
<1>1. CaptureTypes
  BY HostAssumption DEF Init, HostInit, CaptureTypes, NoFile
<1> QED
  BY <1>1 DEF Init, HostInit, HostInv, Holding, DirReady, LocatorExact, ImagesPrivate,
              HoldingSteps, NoFile

\* A step after which the call holds no file and which touches no file.
LEMMA LetGo ==
  ASSUME HostInv, NEW p \in Procs, NEW to \in {"idle", "answer", "dead", "make_config"},
         pc' = [pc EXCEPT ![p] = to],
         \A q \in Procs : q # p => art'[q] = art[q] /\ shot'[q] = shot[q],
         art' \in [Procs -> Ids \cup {NoId}], shot' \in [Procs -> Nat],
         UNCHANGED <<dirs, files, taken, given>>
  PROVE  HostInv'
<1>1. CaptureTypes'
  BY DEF HostInv, CaptureTypes, Steps
<1>2. \A q \in Procs : pc'[q] = IF q = p THEN to ELSE pc[q]
  BY DEF HostInv, CaptureTypes
<1>3. Holding' /\ DirReady'
  BY <1>2 DEF HostInv, Holding, DirReady, HoldingSteps
<1> QED
  BY <1>1, <1>3 DEF HostInv, LocatorExact, ImagesPrivate

LEMMA CallInv ==
  ASSUME HostInv, NEW p \in Procs, NEW tool, NEW arg, CallTool(p, tool, arg)
  PROVE  HostInv'
<1>1. art \in [Procs -> Ids \cup {NoId}] /\ shot \in [Procs -> Nat]
  BY DEF HostInv, CaptureTypes
<1>2. PICK to \in {"answer", "make_config"} : pc' = [pc EXCEPT ![p] = to]
  BY DEF CallTool, BeginCapture, RunTool, Refuse, Goto
<1>3. UNCHANGED <<art, shot, dirs, files, taken, given>>
  BY DEF CallTool, BeginCapture, RunTool, Refuse
<1> QED
  BY <1>1, <1>2, <1>3, LetGo

LEMMA EndInv ==
  ASSUME HostInv, NEW p \in Procs,
         Answer(p) \/ Die(p) \/ CaptureFails(p) PROVE HostInv'
<1>1. /\ art \in [Procs -> Ids \cup {NoId}] /\ shot \in [Procs -> Nat]
      /\ UNCHANGED <<dirs, files, taken, given>>
  BY DEF HostInv, CaptureTypes, Answer, Die, CaptureFails
<1>2. PICK to \in {"idle", "answer", "dead"} : pc' = [pc EXCEPT ![p] = to]
  BY DEF Answer, Die, CaptureFails, Goto
<1>3. /\ art' \in [Procs -> Ids \cup {NoId}] /\ shot' \in [Procs -> Nat]
      /\ \A q \in Procs : q # p => art'[q] = art[q] /\ shot'[q] = shot[q]
  BY <1>1 DEF Answer, Die, CaptureFails
<1> QED
  BY <1>1, <1>2, <1>3, LetGo

\* Making and restricting a directory never opens one that is private.
LEMMA DirInv ==
  ASSUME HostInv, NEW p \in Procs, NEW d \in {"config", "artifacts"},
         MakeDir(p, d) \/ RestrictDir(p, d)
  PROVE  HostInv'
<1>1. /\ UNCHANGED <<art, shot, files, taken, given>>
      /\ CaptureTypes
  BY DEF HostInv, MakeDir, RestrictDir
<1>2. dirs["artifacts"] = "private" => dirs'["artifacts"] = "private"
  BY <1>1 DEF CaptureTypes, MakeDir, RestrictDir, Made, Restricted
<1>3. dirs' \in [{"config", "artifacts"} -> {"absent", "open", "private"}]
  BY <1>1 DEF CaptureTypes, MakeDir, RestrictDir, Made, Restricted
<1>4. PICK to \in {"restrict_config", "restrict_artifacts", "make_artifacts", "create"} :
        /\ pc' = [pc EXCEPT ![p] = to]
        /\ to = "create" => dirs'["artifacts"] = "private"
  BY <1>1 DEF CaptureTypes, MakeDir, RestrictDir, Goto, Restricted
<1>5. \A q \in Procs : pc'[q] = IF q = p THEN to ELSE pc[q]
  BY <1>1, <1>4 DEF CaptureTypes
<1>6. CaptureTypes'
  BY <1>1, <1>3, <1>4 DEF CaptureTypes, Steps
<1>7. Holding'
  BY <1>1, <1>5 DEF HostInv, Holding, HoldingSteps
<1>8. DirReady'
  BY <1>2, <1>4, <1>5 DEF HostInv, DirReady, HoldingSteps
<1>9. LocatorExact' /\ ImagesPrivate'
  BY <1>1, <1>2 DEF HostInv, LocatorExact, ImagesPrivate
<1> QED
  BY <1>6, <1>7, <1>8, <1>9 DEF HostInv

LEMMA CollideInv ==
  ASSUME HostInv, NEW p \in Procs, NEW id \in Ids, Collide(p, id) PROVE HostInv'
<1>1. UNCHANGED <<art, shot, dirs, files, taken, given>> /\ CaptureTypes
  BY DEF HostInv, Collide
<1>2. PICK to \in {"answer", "create"} : pc' = [pc EXCEPT ![p] = to]
  BY DEF Collide, Goto
<1>3. pc[p] = "create"
  BY DEF Collide, Goto
<1>4. \A q \in Procs : pc'[q] = IF q = p THEN to ELSE pc[q]
  BY <1>1, <1>2 DEF CaptureTypes
<1>5. CaptureTypes'
  BY <1>1, <1>2 DEF CaptureTypes, Steps
<1>6. Holding' /\ DirReady'
  BY <1>1, <1>3, <1>4 DEF HostInv, Holding, DirReady, HoldingSteps
<1> QED
  BY <1>1, <1>5, <1>6 DEF HostInv, LocatorExact, ImagesPrivate

\* A file that did not exist is in nobody's hands and in no reply.
LEMMA CreateInv ==
  ASSUME HostInv, NEW p \in Procs, NEW id \in Ids, CreateFile(p, id) PROVE HostInv'
<1> DEFINE file == [exists |-> TRUE, data |-> 0, access |-> "private"]
<1>1. /\ CaptureTypes /\ pc[p] = "create" /\ ~files[id].exists
      /\ UNCHANGED <<shot, dirs, taken, given>>
  BY DEF HostInv, CreateFile, Goto, MayCreate
<1>2. /\ \A q \in Procs : pc'[q] = IF q = p THEN "capture" ELSE pc[q]
      /\ \A q \in Procs : art'[q] = IF q = p THEN id ELSE art[q]
      /\ \A i \in Ids : files'[i] = IF i = id THEN file ELSE files[i]
  BY <1>1 DEF CreateFile, Goto, CaptureTypes
<1>3. CaptureTypes'
  BY <1>1 DEF CreateFile, Goto, CaptureTypes, Steps
<1>4. \A g \in given : g.id \in Ids /\ g.id # id
  <2> SUFFICES ASSUME NEW g \in given PROVE g.id \in Ids /\ g.id # id
    OBVIOUS
  <2>1. g \in [id : Ids, hash : Nat, shot : Nat]
    BY <1>1 DEF CaptureTypes
  <2>2. files[g.id] = [exists |-> TRUE, data |-> g.shot, access |-> "private"]
    BY DEF HostInv, LocatorExact
  <2>3. files[g.id].exists
    BY <2>2
  <2> QED
    BY <1>1, <2>1, <2>3
<1>5. \A q \in Procs : pc[q] \in HoldingSteps => art[q] \in Ids /\ art[q] # id
  BY <1>1 DEF HostInv, Holding
<1>6. Holding'
  BY <1>1, <1>2, <1>4, <1>5 DEF HostInv, Holding, HoldingSteps
<1>7. DirReady'
  BY <1>1, <1>2 DEF HostInv, DirReady, HoldingSteps
<1>8. LocatorExact'
  BY <1>1, <1>2, <1>4 DEF HostInv, LocatorExact
<1>9. ImagesPrivate'
  BY <1>1, <1>2 DEF HostInv, ImagesPrivate
<1> QED
  BY <1>3, <1>6, <1>7, <1>8, <1>9 DEF HostInv

(* A call changes the file it holds: nobody else holds it and no reply     *)
(* names it, so only what the call itself is about has to be shown.        *)
LEMMA OwnFile ==
  ASSUME HostInv, NEW p \in Procs, pc[p] \in HoldingSteps,
         NEW to \in {"discard", "restrict", "hash", "answer"},
         NEW file \in [exists : BOOLEAN, data : Nat, access : {"open", "private"}],
         NEW n \in Nat,
         pc' = [pc EXCEPT ![p] = to],
         files' = [files EXCEPT ![art[p]] = file],
         shot' = [shot EXCEPT ![p] = n],
         art' \in [Procs -> Ids \cup {NoId}],
         \A q \in Procs : q # p => art'[q] = art[q],
         to # "answer" => art'[p] = art[p] /\ file.exists /\ file.data = n,
         to = "hash" => file.access = "private",
         taken' \in Nat,
         UNCHANGED <<dirs, given>>
  PROVE  HostInv'
<1>1. CaptureTypes /\ art[p] \in Ids
  BY DEF HostInv, Holding
<1>2. /\ \A q \in Procs : pc'[q] = IF q = p THEN to ELSE pc[q]
      /\ \A q \in Procs : shot'[q] = IF q = p THEN n ELSE shot[q]
      /\ \A i \in Ids : files'[i] = IF i = art[p] THEN file ELSE files[i]
  BY <1>1 DEF CaptureTypes
<1>3. CaptureTypes'
  BY <1>1 DEF CaptureTypes, Steps
<1>4. \A g \in given : g.id \in Ids /\ g.id # art[p]
  BY <1>1 DEF HostInv, Holding, CaptureTypes
<1>5. \A q \in Procs : q # p /\ pc[q] \in HoldingSteps => art[q] \in Ids /\ art[q] # art[p]
  BY DEF HostInv, Holding
<1>6. Holding'
  <2>1. ASSUME NEW q \in Procs, pc'[q] \in HoldingSteps
        PROVE  /\ art'[q] \in Ids /\ files'[art'[q]].exists
               /\ \A g \in given : g.id # art'[q]
               /\ pc'[q] # "capture" => files'[art'[q]].data = shot'[q]
               /\ pc'[q] = "hash" => files'[art'[q]].access = "private"
    <3>1. CASE q = p
      BY <1>1, <1>2, <1>4, <2>1, <3>1 DEF HoldingSteps
    <3>2. CASE q # p
      <4>1. pc[q] = pc'[q] /\ art'[q] = art[q] /\ shot'[q] = shot[q]
        BY <1>2, <3>2
      <4>2. files'[art[q]] = files[art[q]]
        BY <1>2, <1>5, <2>1, <3>2, <4>1
      <4> QED
        BY <2>1, <4>1, <4>2 DEF HostInv, Holding
    <3> QED
      BY <3>1, <3>2
  <2>2. ASSUME NEW q \in Procs, NEW r \in Procs, q # r,
               pc'[q] \in HoldingSteps, pc'[r] \in HoldingSteps
        PROVE  art'[q] # art'[r]
    <3>1. \A x \in {q, r} : pc'[x] \in HoldingSteps => art'[x] = art[x] /\ pc[x] \in HoldingSteps
      BY <1>2 DEF HoldingSteps
    <3> QED
      BY <2>2, <3>1 DEF HostInv, Holding
  <2> QED
    BY <2>1, <2>2 DEF Holding
<1>7. DirReady' /\ dirs["artifacts"] = "private"
  BY <1>2 DEF HostInv, DirReady, HoldingSteps
<1>8. LocatorExact'
  <2> SUFFICES ASSUME NEW g \in given
               PROVE  /\ g.hash = g.shot
                      /\ files'[g.id] = [exists |-> TRUE, data |-> g.shot, access |-> "private"]
    BY DEF LocatorExact
  <2>1. files'[g.id] = files[g.id]
    BY <1>2, <1>4
  <2> QED
    BY <2>1 DEF HostInv, LocatorExact
<1>9. ImagesPrivate'
  BY <1>7 DEF ImagesPrivate
<1> QED
  BY <1>3, <1>6, <1>7, <1>8, <1>9 DEF HostInv

LEMMA FileInv ==
  ASSUME HostInv, NEW p \in Procs,
         \/ \E access \in {"open", "private"}, next \in {"restrict", "discard", "answer"} :
              Capture(p, access, next)
         \/ Discard(p) \/ RestrictFile(p)
  PROVE  HostInv'
<1>1. CaptureTypes
  BY DEF HostInv
<1>2. ASSUME NEW access \in {"open", "private"},
             NEW next \in {"restrict", "discard", "answer"}, Capture(p, access, next)
      PROVE  HostInv'
  <2> DEFINE file == [exists |-> TRUE, data |-> taken + 1, access |-> access]
  <2>1. /\ pc[p] \in HoldingSteps /\ pc' = [pc EXCEPT ![p] = next]
        /\ files' = [files EXCEPT ![art[p]] = file]
        /\ shot' = [shot EXCEPT ![p] = taken + 1]
        /\ taken' = taken + 1 /\ UNCHANGED <<art, dirs, given>>
    BY <1>2 DEF Capture, Goto, HoldingSteps
  <2>2. /\ file \in [exists : BOOLEAN, data : Nat, access : {"open", "private"}]
        /\ file.exists /\ file.data = taken + 1 /\ taken + 1 \in Nat
    BY <1>1 DEF CaptureTypes
  <2>3. art' \in [Procs -> Ids \cup {NoId}]
    BY <1>1, <2>1 DEF CaptureTypes
  <2> HIDE DEF file
  <2> QED
    BY <2>1, <2>2, <2>3, OwnFile
<1>3. CASE Discard(p)
  <2>1. /\ pc[p] \in HoldingSteps /\ pc' = [pc EXCEPT ![p] = "answer"]
        /\ files' = [files EXCEPT ![art[p]] = NoFile]
        /\ shot' = [shot EXCEPT ![p] = shot[p]] /\ shot[p] \in Nat
        /\ taken' \in Nat /\ UNCHANGED <<dirs, given>>
        /\ art' \in [Procs -> Ids \cup {NoId}]
        /\ \A q \in Procs : q # p => art'[q] = art[q]
    BY <1>1, <1>3 DEF Discard, Goto, HoldingSteps, CaptureTypes
  <2>2. NoFile \in [exists : BOOLEAN, data : Nat, access : {"open", "private"}]
    BY DEF NoFile
  <2> QED
    BY <2>1, <2>2, OwnFile
<1>4. CASE RestrictFile(p)
  <2> DEFINE file == [files[art[p]] EXCEPT !.access = "private"]
  <2>1. /\ pc[p] \in HoldingSteps /\ pc[p] = "restrict"
        /\ pc' = [pc EXCEPT ![p] = "hash"]
        /\ files' = [files EXCEPT ![art[p]].access = "private"]
        /\ shot' = [shot EXCEPT ![p] = shot[p]] /\ shot[p] \in Nat
        /\ taken' \in Nat /\ UNCHANGED <<art, dirs, given>>
        /\ art' \in [Procs -> Ids \cup {NoId}]
    BY <1>1, <1>4 DEF RestrictFile, Goto, HoldingSteps, CaptureTypes, AccessAfterRestrict
  <2>2. art[p] \in Ids /\ files[art[p]].exists /\ files[art[p]].data = shot[p]
    BY <2>1 DEF HostInv, Holding
  <2>3. /\ file \in [exists : BOOLEAN, data : Nat, access : {"open", "private"}]
        /\ file.exists /\ file.data = shot[p] /\ file.access = "private"
    BY <1>1, <2>2 DEF CaptureTypes
  <2>4. files' = [files EXCEPT ![art[p]] = file]
    BY <2>1, <2>2
  <2> HIDE DEF file
  <2> QED
    BY <2>1, <2>3, <2>4, OwnFile
<1> QED
  BY <1>2, <1>3, <1>4

LEMMA HashInv ==
  ASSUME HostInv, NEW p \in Procs, Hash(p) PROVE HostInv'
<1> DEFINE new == [id |-> art[p], hash |-> files[art[p]].data, shot |-> shot[p]]
<1>1. /\ CaptureTypes /\ pc[p] = "hash" /\ pc' = [pc EXCEPT ![p] = "answer"]
      /\ given' = given \cup {new} /\ UNCHANGED <<art, shot, dirs, files, taken>>
  BY DEF HostInv, Hash, Goto
<1>2. \A q \in Procs : pc'[q] = IF q = p THEN "answer" ELSE pc[q]
  BY <1>1 DEF CaptureTypes
<1>3. /\ art[p] \in Ids /\ files[art[p]].exists /\ files[art[p]].data = shot[p]
      /\ files[art[p]].access = "private"
  BY <1>1 DEF HostInv, Holding, HoldingSteps
<1>4. files[art[p]] = [exists |-> TRUE, data |-> shot[p], access |-> "private"]
  BY <1>1, <1>3 DEF CaptureTypes
<1>5. CaptureTypes'
  BY <1>1, <1>3 DEF CaptureTypes, Steps
<1>6. Holding'
  BY <1>1, <1>2 DEF HostInv, Holding, HoldingSteps
<1>7. DirReady'
  BY <1>1, <1>2 DEF HostInv, DirReady, HoldingSteps
<1>8. LocatorExact'
  <2> SUFFICES ASSUME NEW g \in given \cup {new}
               PROVE  /\ g.hash = g.shot
                      /\ files[g.id] = [exists |-> TRUE, data |-> g.shot, access |-> "private"]
    BY <1>1 DEF LocatorExact
  <2>1. CASE g \in given
    BY <2>1 DEF HostInv, LocatorExact
  <2>2. CASE g = new
    BY <1>3, <1>4, <2>2
  <2> QED
    BY <2>1, <2>2
<1>9. ImagesPrivate'
  BY <1>1 DEF HostInv, ImagesPrivate
<1> QED
  BY <1>5, <1>6, <1>7, <1>8, <1>9 DEF HostInv

LEMMA InvHolds == Spec => []HostInv
<1>1. ASSUME HostInv, [Next]_vars PROVE HostInv'
  <2>1. CASE HostStep
    <3>1. ASSUME NEW p \in Procs, CaptureStep(p) PROVE HostInv'
      BY <1>1, <3>1, DirInv, CreateInv, CollideInv, FileInv, HashInv, EndInv DEF CaptureStep
    <3> QED
      BY <1>1, <2>1, <3>1, CallInv, EndInv DEF HostStep
  <2>2. CASE UNCHANGED hostVars
    BY <1>1, <2>2 DEF hostVars, HostInv, CaptureTypes, Holding, DirReady, LocatorExact,
                      ImagesPrivate
  <2> QED
    BY <1>1, <2>1, <2>2, StepIsHostStep
<1> QED
  BY InitInv, <1>1, PTL DEF Spec

(* However captures, errors, deaths and identifier collisions of several   *)
(* daemons interleave, a locator and hash that a reply has named stay      *)
(* true of the file.                                                       *)
THEOREM LocatorExactHolds == Spec => []LocatorExact
<1>1. HostInv => LocatorExact
  BY DEF HostInv
<1> QED
  BY InvHolds, <1>1, PTL

\* No image is ever on disk in a directory that others can enter.
THEOREM ImagesPrivateHolds == Spec => []ImagesPrivate
<1>1. HostInv => ImagesPrivate
  BY DEF HostInv
<1> QED
  BY InvHolds, <1>1, PTL

-----------------------------------------------------------------------------
(* The modes.                                                              *)

\* What a tool that is in the table may do outside full mode.
LEMMA EffectOutsideFull ==
  ASSUME NEW m, m # "full", NEW arg, NEW tool \in Registered \ Capturing,
         Kept(tool), Permitted(m, tool, arg)
  PROVE  Effect(m, tool, arg) \in {"nothing", "safe command"}
<1>1. tool \notin Unsupported
  BY DEF Kept, Unsupported
<1>2. tool \notin Mutating
  BY DEF Permitted, EnsureMutation, Mutating
<1>3. CASE tool \in Observing
  BY <1>3 DEF Effect, Observing
<1>4. CASE tool = "folk_shell"
  BY <1>4 DEF Effect, Observing, Registered, Mixed
<1>5. CASE tool = "folk_permissions"
  BY <1>5 DEF Effect, Permitted, EnsureMutation, Mutating, Observing, Registered, Mixed
<1>6. tool # "folk_spawn"
  BY DEF Permitted, Mutating
<1> QED
  BY <1>1, <1>2, <1>3, <1>4, <1>5, <1>6 DEF Registered, Mixed, Unsupported

\* A capture changes nothing but directories and files of artifacts.
LEMMA CaptureChanges ==
  ASSUME NEW p \in Procs, CaptureStep(p)
  PROVE  mode' = mode /\ (changed' = changed \/ ChangesArtifacts(p))
BY DEF CaptureStep, MakeDir, RestrictDir, CreateFile, Collide, Capture, Discard,
       RestrictFile, Hash, CaptureFails

LEMMA ModeEffect ==
  ASSUME MutationOnlyInFull, NEW p, NEW effect, mode' = mode,
         \A c \in changed' : c \in changed \/ c = [proc |-> p, effect |-> effect],
         mode[p] = "full" \/ effect \in {"nothing", "safe command", "artifact"}
  PROVE  MutationOnlyInFull'
<1>1. ASSUME NEW c \in changed'
      PROVE  mode'[c.proc] = "full" \/ c.effect \in {"nothing", "safe command", "artifact"}
  <2>1. CASE c \in changed
    BY <2>1 DEF MutationOnlyInFull
  <2>2. CASE c = [proc |-> p, effect |-> effect]
    BY <2>2
  <2> QED
    BY <2>1, <2>2
<1> QED
  BY <1>1 DEF MutationOnlyInFull

\* mode never changes and every effect is recorded under its daemon.
LEMMA ModeInv ==
  ASSUME MutationOnlyInFull, HostStep
  PROVE  MutationOnlyInFull'
<1>1. PICK p \in Procs : \/ \E tool, arg : CallTool(p, tool, arg)
                         \/ CaptureStep(p) \/ Answer(p) \/ Die(p)
  BY DEF HostStep
<1>2. ASSUME UNCHANGED <<mode, changed>> PROVE MutationOnlyInFull'
  BY <1>2 DEF MutationOnlyInFull
<1>3. ASSUME NEW tool, NEW arg, NEW done \in BOOLEAN, RunTool(p, tool, arg, done)
      PROVE  MutationOnlyInFull'
  <2>1. UNCHANGED mode
    BY <1>3 DEF RunTool
  <2>2. \A c \in changed' :
          c \in changed \/ c = [proc |-> p, effect |-> Effect(mode[p], tool, arg)]
    BY <1>3 DEF RunTool
  <2>3. mode[p] = "full" \/ Effect(mode[p], tool, arg) \in {"nothing", "safe command"}
    BY <1>3, EffectOutsideFull DEF RunTool
  <2> QED
    BY <2>1, <2>2, <2>3, ModeEffect
<1>4. CASE CaptureStep(p)
  <2>1. mode' = mode /\ (changed' = changed \/ ChangesArtifacts(p))
    BY <1>4, CaptureChanges
  <2>2. \A c \in changed' : c \in changed \/ c = [proc |-> p, effect |-> "artifact"]
    BY <2>1 DEF ChangesArtifacts
  <2> QED
    BY <2>1, <2>2, ModeEffect
<1>5. CASE Answer(p) \/ Die(p)
  BY <1>2, <1>5 DEF Answer, Die
<1>6. ASSUME NEW tool, NEW arg, CallTool(p, tool, arg) PROVE MutationOnlyInFull'
  BY <1>2, <1>3, <1>6 DEF CallTool, BeginCapture, Refuse
<1> QED
  BY <1>1, <1>4, <1>5, <1>6

(* Outside full mode no call of a client changes the host but by an        *)
(* allowlisted command and, below the configuration directory, by a        *)
(* capture, for every set of runtime capabilities.                         *)
THEOREM MutationOnlyInFullHolds == Spec => []MutationOnlyInFull
<1>1. Init => MutationOnlyInFull
  BY DEF Init, HostInit, MutationOnlyInFull
<1>2. ASSUME MutationOnlyInFull, [Next]_vars PROVE MutationOnlyInFull'
  <2>1. CASE UNCHANGED hostVars
    BY <1>2, <2>1 DEF hostVars, MutationOnlyInFull
  <2> QED
    BY <1>2, <2>1, ModeInv, StepIsHostStep
<1> QED
  BY <1>1, <1>2, PTL DEF Spec

-----------------------------------------------------------------------------
(* What FlattenSeq computes.                                               *)

Less == {x \in Nat \X Nat : x[1] < x[2]}

LEMMA Least ==
  ASSUME NEW T \in SUBSET Nat, T # {}
  PROVE  \E m \in T : \A n \in T : m <= n
<1>1. OpToRel(<, Nat) = Less
  BY DEF OpToRel, Less
<1>2. PICK m \in T : \A n \in T : <<n, m>> \notin Less
  BY <1>1, NatLessThanWellFounded, WFMin
<1>3. ASSUME NEW n \in T PROVE m <= n
  <2>1. n \in Nat /\ m \in Nat
    OBVIOUS
  <2>2. n < m => <<n, m>> \in Less
    BY <2>1 DEF Less
  <2> QED
    BY <1>2, <2>1, <2>2
<1> QED
  BY <1>3

\* f[i] puts the first i of the sequences ss one behind the other.
Flattens(f, ss, n) ==
  f = [i \in 1 .. n |-> IF i = 1 THEN ss[i] ELSE f[i - 1] \o ss[i]]

LEMMA FlattenExists ==
  ASSUME NEW ss, NEW n \in Nat
  PROVE  \E f : Flattens(f, ss, n)
<1> DEFINE Bad == {k \in Nat : ~\E f : Flattens(f, ss, k)}
<1> SUFFICES ASSUME Bad # {} PROVE FALSE
  OBVIOUS
<1>1. PICK m \in Bad : \A k \in Bad : m <= k
  <2>1. Bad \in SUBSET Nat
    OBVIOUS
  <2> HIDE DEF Bad
  <2> QED
    BY <2>1, Least
<1>2. CASE m = 0
  <2> DEFINE g == [i \in 1 .. 0 |-> <<>>]
  <2>1. Flattens(g, ss, 0)
    BY DEF Flattens
  <2> QED
    BY <1>1, <1>2, <2>1
<1>3. CASE m # 0
  <2>1. m - 1 \in Nat /\ m - 1 \notin Bad
    BY <1>1, <1>3
  <2>2. PICK f : Flattens(f, ss, m - 1)
    BY <2>1
  <2> DEFINE new == IF m = 1 THEN ss[m] ELSE f[m - 1] \o ss[m]
             g == [i \in 1 .. m |-> IF i = m THEN new ELSE f[i]]
  <2>3. \A i \in 1 .. m - 1 : f[i] = IF i = 1 THEN ss[i] ELSE f[i - 1] \o ss[i]
    BY <2>2 DEF Flattens
  <2>4. \A i \in 1 .. m : g[i] = IF i = m THEN new ELSE f[i]
    OBVIOUS
  <2>5. \A i \in 1 .. m : g[i] = IF i = 1 THEN ss[i] ELSE g[i - 1] \o ss[i]
    <3> SUFFICES ASSUME NEW i \in 1 .. m
                 PROVE  g[i] = IF i = 1 THEN ss[i] ELSE g[i - 1] \o ss[i]
      OBVIOUS
    <3> HIDE DEF g
    <3>1. CASE i = 1
      BY <1>3, <2>1, <2>3, <2>4, <3>1
    <3>2. CASE i # 1
      <4>1. i - 1 \in 1 .. m /\ i - 1 # m /\ m # 1
        BY <2>1, <3>2
      <4>2. g[i - 1] = f[i - 1]
        BY <2>4, <4>1
      <4>3. CASE i = m
        BY <2>4, <3>2, <4>1, <4>2, <4>3
      <4>4. CASE i # m
        <5>1. i \in 1 .. m - 1
          BY <2>1, <4>4
        <5>2. f[i] = f[i - 1] \o ss[i]
          BY <2>3, <3>2, <5>1
        <5>3. g[i] = f[i]
          BY <2>4, <4>4
        <5> QED
          BY <3>2, <4>2, <5>2, <5>3
      <4> QED
        BY <4>3, <4>4
    <3> QED
      BY <3>1, <3>2
  <2>6. Flattens(g, ss, m)
    <3>1. g = [i \in 1 .. m |-> g[i]]
      OBVIOUS
    <3> HIDE DEF g
    <3> QED
      BY <2>5, <3>1 DEF Flattens
  <2> QED
    BY <1>1, <2>6
<1> QED
  BY <1>2, <1>3

LEMMA FlattenFacts ==
  ASSUME NEW X, NEW ss \in Seq(Seq(X)), ss # <<>>
  PROVE  \E f : /\ Flattens(f, ss, Len(ss))
                /\ FlattenSeq(ss) = f[Len(ss)]
<1>1. Len(ss) \in Nat /\ Len(ss) # 0
  OBVIOUS
<1>2. \E f : Flattens(f, ss, Len(ss))
  BY <1>1, FlattenExists
<1> QED
  BY <1>1, <1>2 DEF FlattenSeq, Flattens

-----------------------------------------------------------------------------
(* The input.                                                              *)

\* The token is the last one of its message.
Closes(x) == x.t \in {"line", "body"}

FirstType(framing) ==
  CASE framing = "line" -> "line"
    [] framing = "retyped" -> "extra"
    [] OTHER -> "header"

\* What follows a token of type t within a message.
NextType(framing, t) ==
  CASE t = "header" -> IF framing = "typed" THEN "extra" ELSE "blank"
    [] t = "extra" -> IF framing = "retyped" THEN "header" ELSE "blank"
    [] OTHER -> "body"

\* y may come next after x in what a client with script s writes.
Follows(s, x, y) ==
  IF Closes(x)
  THEN y.n = x.n + 1 /\ y.t = FirstType(s[y.n].framing)
  ELSE y.n = x.n /\ y.t = NextType(s[x.n].framing, x.t)

\* The message numbers of a sequence of tokens rise, message by message.
InOrder(q) ==
  \A i, j \in 1 .. Len(q) : i < j =>
    q[i].n <= q[j].n /\ (Closes(q[i]) => q[i].n < q[j].n)

Chained(s, q) == \A i \in 1 .. Len(q) - 1 : Follows(s, q[i], q[i + 1])

\* What the first n messages of s look like.
Encoded(s, q, n) ==
  /\ q \in Seq(Tokens) /\ Len(q) > 0
  /\ \A i \in 1 .. Len(q) : q[i].n \in 1 .. n
  /\ InOrder(q) /\ Chained(s, q)
  /\ q[1].n = 1 /\ q[1].t = FirstType(s[1].framing)
  /\ Closes(q[Len(q)]) /\ q[Len(q)].n = n

\* What message n looks like.
Piece(s, e, n) ==
  /\ e \in Seq(Tokens) /\ Len(e) > 0
  /\ \A i \in 1 .. Len(e) : e[i].n = n /\ (Closes(e[i]) <=> i = Len(e))
  /\ Chained(s, e)
  /\ e[1].t = FirstType(s[n].framing)

LEMMA EncodePiece ==
  ASSUME NEW s \in Seq(Messages), NEW n \in 1 .. Len(s)
  PROVE  Piece(s, Encode(s[n].framing, n), n)
<1> DEFINE framing == s[n].framing
           e == Encode(framing, n)
<1>1. framing \in Framings /\ n \in Nat
  <2>1. s[n] \in Messages /\ n \in Nat
    BY ElementOfSeq
  <2> QED
    BY <2>1 DEF Messages
<1>2. CASE framing = "line"
  <2>1. e = <<Token("line", n)>>
    BY <1>1, <1>2 DEF Encode
  <2>2. /\ e \in Seq(Tokens) /\ Len(e) = 1
        /\ e[1].t = "line"
        /\ \A i \in 1 .. 1 : e[i].n = n
    BY <1>1, <2>1 DEF Token, Tokens
  <2>3. 1 .. 1 = {1} /\ 1 .. 1 - 1 = {}
    OBVIOUS
  <2> HIDE DEF e
  <2>4. \A i \in 1 .. 1 : (Closes(e[i]) <=> i = 1)
    BY <1>2, <2>2, <2>3 DEF Closes
  <2>5. \A i \in 1 .. 1 - 1 : Follows(s, e[i], e[i + 1])
    BY <1>2, <2>2, <2>3, <2>4 DEF Follows, NextType
  <2>6. e[1].t = FirstType(framing)
    BY <1>1, <1>2, <2>2 DEF FirstType
  <2>7. Len(e) > 0 /\ Chained(s, e)
    BY <2>2, <2>5 DEF Chained
  <2>8. \A i \in 1 .. Len(e) : e[i].n = n /\ (Closes(e[i]) <=> i = Len(e))
    BY <2>2, <2>4
  <2>9. Piece(s, e, n)
    BY <2>2, <2>6, <2>7, <2>8 DEF Piece
  <2> QED
    BY <2>9 DEF e
<1>3. CASE framing = "typed"
  <2>1. e = <<Token("header", n), Token("extra", n), Token("blank", n), Token("body", n)>>
    BY <1>1, <1>3 DEF Encode
  <2>2. /\ e \in Seq(Tokens) /\ Len(e) = 4
        /\ e[1].t = "header" /\ e[2].t = "extra" /\ e[3].t = "blank" /\ e[4].t = "body"
        /\ \A i \in 1 .. 4 : e[i].n = n
    BY <1>1, <2>1 DEF Token, Tokens
  <2>3. 1 .. 4 = {1, 2, 3, 4} /\ 1 .. 4 - 1 = {1, 2, 3}
    OBVIOUS
  <2> HIDE DEF e
  <2>4. \A i \in 1 .. 4 : (Closes(e[i]) <=> i = 4)
    BY <1>3, <2>2, <2>3 DEF Closes
  <2>5. \A i \in 1 .. 4 - 1 : Follows(s, e[i], e[i + 1])
    BY <1>3, <2>2, <2>3, <2>4 DEF Follows, NextType
  <2>6. e[1].t = FirstType(framing)
    BY <1>1, <1>3, <2>2 DEF FirstType
  <2>7. Len(e) > 0 /\ Chained(s, e)
    BY <2>2, <2>5 DEF Chained
  <2>8. \A i \in 1 .. Len(e) : e[i].n = n /\ (Closes(e[i]) <=> i = Len(e))
    BY <2>2, <2>4
  <2>9. Piece(s, e, n)
    BY <2>2, <2>6, <2>7, <2>8 DEF Piece
  <2> QED
    BY <2>9 DEF e
<1>4. CASE framing = "retyped"
  <2>1. e = <<Token("extra", n), Token("header", n), Token("blank", n), Token("body", n)>>
    BY <1>1, <1>4 DEF Encode
  <2>2. /\ e \in Seq(Tokens) /\ Len(e) = 4
        /\ e[1].t = "extra" /\ e[2].t = "header" /\ e[3].t = "blank" /\ e[4].t = "body"
        /\ \A i \in 1 .. 4 : e[i].n = n
    BY <1>1, <2>1 DEF Token, Tokens
  <2>3. 1 .. 4 = {1, 2, 3, 4} /\ 1 .. 4 - 1 = {1, 2, 3}
    OBVIOUS
  <2> HIDE DEF e
  <2>4. \A i \in 1 .. 4 : (Closes(e[i]) <=> i = 4)
    BY <1>4, <2>2, <2>3 DEF Closes
  <2>5. \A i \in 1 .. 4 - 1 : Follows(s, e[i], e[i + 1])
    BY <1>4, <2>2, <2>3, <2>4 DEF Follows, NextType
  <2>6. e[1].t = FirstType(framing)
    BY <1>1, <1>4, <2>2 DEF FirstType
  <2>7. Len(e) > 0 /\ Chained(s, e)
    BY <2>2, <2>5 DEF Chained
  <2>8. \A i \in 1 .. Len(e) : e[i].n = n /\ (Closes(e[i]) <=> i = Len(e))
    BY <2>2, <2>4
  <2>9. Piece(s, e, n)
    BY <2>2, <2>6, <2>7, <2>8 DEF Piece
  <2> QED
    BY <2>9 DEF e
<1>5. CASE framing \notin {"line", "typed", "retyped"}
  <2>1. e = <<Token("header", n), Token("blank", n), Token("body", n)>>
    BY <1>1, <1>5 DEF Encode
  <2>2. /\ e \in Seq(Tokens) /\ Len(e) = 3
        /\ e[1].t = "header" /\ e[2].t = "blank" /\ e[3].t = "body"
        /\ \A i \in 1 .. 3 : e[i].n = n
    BY <1>1, <2>1 DEF Token, Tokens
  <2>3. 1 .. 3 = {1, 2, 3} /\ 1 .. 3 - 1 = {1, 2}
    OBVIOUS
  <2> HIDE DEF e
  <2>4. \A i \in 1 .. 3 : (Closes(e[i]) <=> i = 3)
    BY <1>5, <2>2, <2>3 DEF Closes
  <2>5. \A i \in 1 .. 3 - 1 : Follows(s, e[i], e[i + 1])
    BY <1>5, <2>2, <2>3, <2>4 DEF Follows, NextType
  <2>6. e[1].t = FirstType(framing)
    BY <1>1, <1>5, <2>2 DEF FirstType
  <2>7. Len(e) > 0 /\ Chained(s, e)
    BY <2>2, <2>5 DEF Chained
  <2>8. \A i \in 1 .. Len(e) : e[i].n = n /\ (Closes(e[i]) <=> i = Len(e))
    BY <2>2, <2>4
  <2>9. Piece(s, e, n)
    BY <2>2, <2>6, <2>7, <2>8 DEF Piece
  <2> QED
    BY <2>9 DEF e
<1> QED
  BY <1>2, <1>3, <1>4, <1>5

LEMMA CatFacts ==
  ASSUME NEW S, NEW q \in Seq(S), NEW e \in Seq(S)
  PROVE  /\ q \o e \in Seq(S)
         /\ Len(q \o e) = Len(q) + Len(e) /\ Len(q) \in Nat /\ Len(e) \in Nat
         /\ \A i \in 1 .. Len(q) : (q \o e)[i] = q[i]
         /\ \A i \in 1 .. Len(e) : (q \o e)[Len(q) + i] = e[i]
         /\ \A i \in 1 .. Len(q \o e) : i > Len(q) =>
              i - Len(q) \in 1 .. Len(e) /\ (q \o e)[i] = e[i - Len(q)]
OBVIOUS

LEMMA EncodedCat ==
  ASSUME NEW s, NEW n \in Nat \ {0}, NEW q, NEW e, Encoded(s, q, n), Piece(s, e, n + 1)
  PROVE  Encoded(s, q \o e, n + 1)
<1> DEFINE r == q \o e
           N == Len(q)
<1>1. /\ q \in Seq(Tokens) /\ e \in Seq(Tokens) /\ N > 0 /\ Len(e) > 0
      /\ \A i \in 1 .. N : q[i].n \in 1 .. n
      /\ \A i \in 1 .. Len(e) :
           e[i].n = n + 1 /\ (Closes(e[i]) <=> i = Len(e))
  BY DEF Encoded, Piece
<1>2. /\ r \in Seq(Tokens) /\ Len(r) = N + Len(e) /\ N \in Nat /\ Len(e) \in Nat
      /\ \A i \in 1 .. N : r[i] = q[i]
      /\ \A i \in 1 .. Len(r) : i > N => i - N \in 1 .. Len(e) /\ r[i] = e[i - N]
  BY <1>1, CatFacts
<1> HIDE DEF r, N
<1>3. \A i \in 1 .. Len(r) : r[i].n \in 1 .. n + 1
  <2> SUFFICES ASSUME NEW i \in 1 .. Len(r) PROVE r[i].n \in 1 .. n + 1
    OBVIOUS
  <2>1. CASE i <= N
    <3>1. i \in 1 .. N
      BY <1>2, <2>1
    <3>2. r[i] = q[i] /\ q[i].n \in 1 .. n
      BY <1>1, <1>2, <3>1
    <3> QED
      BY <3>2
  <2>2. CASE i > N
    <3>1. r[i] = e[i - N] /\ e[i - N].n = n + 1
      BY <1>1, <1>2, <2>2
    <3> QED
      BY <3>1
  <2> QED
    BY <1>2, <2>1, <2>2
<1>4. InOrder(r)
  <2> SUFFICES ASSUME NEW i \in 1 .. Len(r), NEW j \in 1 .. Len(r), i < j
               PROVE  r[i].n <= r[j].n /\ (Closes(r[i]) => r[i].n < r[j].n)
    BY DEF InOrder
  <2>1. CASE j <= N
    <3>1. i \in 1 .. N /\ j \in 1 .. N
      BY <1>2, <2>1
    <3>2. q[i].n <= q[j].n /\ (Closes(q[i]) => q[i].n < q[j].n)
      BY <3>1 DEF Encoded, InOrder, N
    <3> QED
      BY <1>2, <3>1, <3>2
  <2>2. CASE i <= N /\ j > N
    <3>1. r[i] = q[i] /\ q[i].n \in 1 .. n
      BY <1>1, <1>2, <2>2
    <3>2. r[j] = e[j - N] /\ e[j - N].n = n + 1
      BY <1>1, <1>2, <2>2
    <3> QED
      BY <3>1, <3>2
  <2>3. CASE i > N
    <3>1. r[i] = e[i - N] /\ r[j] = e[j - N] /\ i - N \in 1 .. Len(e) /\ j - N \in 1 .. Len(e)
      BY <1>2, <2>3
    <3>2. e[i - N].n = n + 1 /\ e[j - N].n = n + 1 /\ ~Closes(e[i - N])
      BY <1>1, <1>2, <3>1
    <3> QED
      BY <3>1, <3>2
  <2> QED
    BY <1>2, <2>1, <2>2, <2>3
<1>5. Chained(s, r)
  <2> SUFFICES ASSUME NEW i \in 1 .. Len(r) - 1 PROVE Follows(s, r[i], r[i + 1])
    BY DEF Chained
  <2>1. i \in 1 .. Len(r) /\ i + 1 \in 1 .. Len(r)
    BY <1>2
  <2>2. CASE i < N
    <3>1. r[i] = q[i] /\ r[i + 1] = q[i + 1] /\ i \in 1 .. N - 1
      BY <1>2, <2>1, <2>2
    <3> QED
      BY <3>1 DEF Encoded, Chained, N
  <2>3. CASE i = N
    <3>1. r[i] = q[N] /\ Closes(q[N]) /\ q[N].n = n
      BY <1>2, <2>1, <2>3 DEF Encoded, N
    <3>2. r[i + 1] = e[1] /\ e[1].n = n + 1 /\ e[1].t = FirstType(s[n + 1].framing)
      <4>1. i + 1 > N /\ i + 1 - N = 1 /\ 1 \in 1 .. Len(e)
        BY <1>1, <1>2, <2>3
      <4> QED
        BY <1>1, <1>2, <2>1, <4>1 DEF Piece
    <3> QED
      BY <3>1, <3>2 DEF Follows
  <2>4. CASE i > N
    <3>1. /\ r[i] = e[i - N] /\ r[i + 1] = e[i + 1 - N] /\ i + 1 - N = (i - N) + 1
          /\ i - N \in 1 .. Len(e) - 1
      <4>1. i \in Nat /\ N \in Nat /\ Len(e) \in Nat /\ i < N + Len(e)
        BY <1>2, <2>1
      <4>2. i + 1 > N /\ i + 1 - N = (i - N) + 1 /\ i - N \in 1 .. Len(e) - 1
        BY <2>4, <4>1
      <4>3. r[i] = e[i - N] /\ r[i + 1] = e[i + 1 - N]
        BY <1>2, <2>1, <2>4, <4>2
      <4> QED
        BY <4>2, <4>3
    <3> QED
      BY <3>1 DEF Piece, Chained
  <2> QED
    BY <1>2, <2>2, <2>3, <2>4
<1>6. r[1].n = 1 /\ r[1].t = FirstType(s[1].framing)
  <2>1. r[1] = q[1]
    BY <1>1, <1>2
  <2> QED
    BY <2>1 DEF Encoded
<1>7. Closes(r[Len(r)]) /\ r[Len(r)].n = n + 1
  <2>1. Len(r) \in 1 .. Len(r) /\ Len(r) > N /\ Len(r) - N = Len(e) /\ Len(e) \in 1 .. Len(e)
    BY <1>1, <1>2
  <2>2. r[Len(r)] = e[Len(e)]
    BY <1>2, <2>1
  <2> QED
    BY <1>1, <2>1, <2>2
<1>8. Encoded(s, r, n + 1)
  BY <1>1, <1>2, <1>3, <1>4, <1>5, <1>6, <1>7 DEF Encoded
<1> QED
  BY <1>8 DEF r

LEMMA EncodedPiece ==
  ASSUME NEW s, NEW e, Piece(s, e, 1)
  PROVE  Encoded(s, e, 1)
<1>1. /\ e \in Seq(Tokens) /\ Len(e) > 0 /\ Len(e) \in Nat
      /\ \A i \in 1 .. Len(e) : e[i].n = 1 /\ (Closes(e[i]) <=> i = Len(e))
  BY DEF Piece
<1>2. InOrder(e)
  BY <1>1 DEF InOrder
<1> QED
  BY <1>1, <1>2 DEF Encoded, Piece

LEMMA EncodeAllFacts ==
  ASSUME NEW s \in Seq(Messages), s # <<>>
  PROVE  Encoded(s, EncodeAll(s), Len(s))
<1> DEFINE ss == [n \in DOMAIN s |-> Encode(s[n].framing, n)]
           N == Len(s)
<1>1. N \in Nat /\ N # 0 /\ DOMAIN s = 1 .. N
  OBVIOUS
<1>2. \A n \in 1 .. N : ss[n] = Encode(s[n].framing, n) /\ Piece(s, ss[n], n)
  BY <1>1, EncodePiece
<1>3. ss \in Seq(Seq(Tokens)) /\ Len(ss) = N /\ ss # <<>>
  <2>1. ss \in [1 .. N -> Seq(Tokens)]
    BY <1>1, <1>2 DEF Piece
  <2> HIDE DEF ss
  <2> QED
    BY <1>1, <2>1
<1>4. EncodeAll(s) = FlattenSeq(ss)
  BY DEF EncodeAll
<1> HIDE DEF ss, N
<1>5. PICK f : Flattens(f, ss, N) /\ FlattenSeq(ss) = f[N]
  BY <1>3, FlattenFacts
<1>6. \A i \in 1 .. N : f[i] = IF i = 1 THEN ss[i] ELSE f[i - 1] \o ss[i]
  <2> DEFINE Next1(i) == IF i = 1 THEN ss[i] ELSE f[i - 1] \o ss[i]
  <2>1. f = [i \in 1 .. N |-> Next1(i)]
    BY <1>5 DEF Flattens
  <2> HIDE DEF Next1
  <2>2. \A i \in 1 .. N : f[i] = Next1(i)
    BY <2>1
  <2> QED
    BY <2>2 DEF Next1
<1> DEFINE Bad == {i \in 1 .. N : ~Encoded(s, f[i], i)}
<1>7. Bad = {}
  <2> SUFFICES ASSUME Bad # {} PROVE FALSE
    OBVIOUS
  <2>1. PICK m \in Bad : \A k \in Bad : m <= k
    <3>1. Bad \in SUBSET Nat
      BY <1>1
    <3> HIDE DEF Bad
    <3> QED
      BY <3>1, Least
  <2>2. m \in 1 .. N /\ ~Encoded(s, f[m], m)
    BY <2>1
  <2>3. m # 1
    <3> SUFFICES ASSUME m = 1 PROVE FALSE
      OBVIOUS
    <3>1. f[1] = ss[1] /\ Piece(s, ss[1], 1)
      BY <1>2, <1>6, <2>2
    <3> QED
      BY <2>2, <3>1, EncodedPiece
  <2>4. m - 1 \in 1 .. N /\ m - 1 \notin Bad /\ m - 1 \in Nat \ {0} /\ (m - 1) + 1 = m
    BY <1>1, <2>1, <2>2, <2>3
  <2>5. Encoded(s, f[m - 1], m - 1) /\ Piece(s, ss[m], (m - 1) + 1)
    BY <1>2, <2>2, <2>4
  <2>6. Encoded(s, f[m - 1] \o ss[m], (m - 1) + 1)
    BY <2>4, <2>5, EncodedCat
  <2> QED
    BY <1>6, <2>2, <2>3, <2>4, <2>6
<1>8. N \in 1 .. N
  BY <1>1
<1> QED
  BY <1>4, <1>5, <1>7, <1>8 DEF N

\* The input of a client with script s.
Framed(s, q) ==
  /\ q \in Seq(Tokens)
  /\ \A i \in 1 .. Len(q) : q[i].n \in 1 .. Len(s)
  /\ InOrder(q) /\ Chained(s, q)
  /\ Len(q) > 0 => q[1].n = 1 /\ q[1].t = FirstType(s[1].framing)

LEMMA PrefixFacts ==
  ASSUME NEW S, NEW q \in Seq(S), NEW n \in 0 .. Len(q)
  PROVE  /\ SubSeq(q, 1, n) \in Seq(S)
         /\ Len(SubSeq(q, 1, n)) = n
         /\ \A i \in 1 .. n : i \in 1 .. Len(q) /\ SubSeq(q, 1, n)[i] = q[i]
OBVIOUS

LEMMA InputFramed ==
  ASSUME NEW s \in Seq(Messages), NEW c \in Nat, c <= Len(EncodeAll(s))
  PROVE  Framed(s, SubSeq(EncodeAll(s), 1, c))
<1> DEFINE all == EncodeAll(s)
           q == SubSeq(all, 1, c)
<1>1. CASE s = <<>>
  <2>1. DOMAIN s = {}
    BY <1>1
  <2>2. all = <<>>
    <3> DEFINE ss == [n \in DOMAIN s |-> Encode(s[n].framing, n)]
    <3>1. ss = <<>>
      BY <2>1
    <3>2. all = FlattenSeq(ss)
      BY DEF EncodeAll
    <3> HIDE DEF ss
    <3> QED
      BY <3>1, <3>2 DEF FlattenSeq
  <2>3. c = 0
    BY <2>2
  <2>4. q = <<>> /\ q \in Seq(Tokens) /\ Len(q) = 0
    BY <2>2, <2>3
  <2> QED
    BY <2>4 DEF Framed, InOrder, Chained
<1>2. CASE s # <<>>
  <2>1. Encoded(s, all, Len(s))
    BY <1>2, EncodeAllFacts
  <2> HIDE DEF all
  <2>2. all \in Seq(Tokens) /\ c \in 0 .. Len(all)
    BY <2>1 DEF Encoded, all
  <2>3. /\ q \in Seq(Tokens) /\ Len(q) = c
        /\ \A i \in 1 .. c : i \in 1 .. Len(all) /\ q[i] = all[i]
    BY <2>2, PrefixFacts
  <2> HIDE DEF q
  <2>4. \A i \in 1 .. c : q[i].n \in 1 .. Len(s)
    BY <2>1, <2>3 DEF Encoded
  <2>5. InOrder(q)
    <3> SUFFICES ASSUME NEW i \in 1 .. c, NEW j \in 1 .. c, i < j
                 PROVE  q[i].n <= q[j].n /\ (Closes(q[i]) => q[i].n < q[j].n)
      BY <2>3 DEF InOrder
    <3> QED
      BY <2>1, <2>3 DEF Encoded, InOrder
  <2>6. Chained(s, q)
    <3> SUFFICES ASSUME NEW i \in 1 .. c - 1 PROVE Follows(s, q[i], q[i + 1])
      BY <2>3 DEF Chained
    <3>1. i \in 1 .. c /\ i + 1 \in 1 .. c /\ i \in 1 .. Len(all) - 1
      BY <2>2
    <3> QED
      BY <2>1, <2>3, <3>1 DEF Encoded, Chained
  <2>7. Len(q) > 0 => q[1].n = 1 /\ q[1].t = FirstType(s[1].framing)
    BY <2>1, <2>3 DEF Encoded
  <2>8. Framed(s, q)
    BY <2>3, <2>4, <2>5, <2>6, <2>7 DEF Framed
  <2> QED
    BY <2>8 DEF q, all
<1> QED
  BY <1>1, <1>2

-----------------------------------------------------------------------------
(* The reader, as a relation between what it has read and what it has      *)
(* handled: script s, input q, which ends within its last token if b, i    *)
(* tokens read and the beginning of the next one if c, state r of          *)
(* read_stdio_message, tokens S spoilt and messages h handled.             *)

Increasing(h) == \A i \in 2 .. Len(h) : h[i - 1] < h[i]

RightLengths(s) == \A n \in DOMAIN s : s[n].framing \notin {"zero", "short", "long"}

\* The token read last fits the state of read_stdio_message.
InPlace(s, q, i, c, r, S) ==
  /\ i \in 0 .. Len(q)
  /\ S \subseteq 1 .. i + 1
  /\ i + 1 \in S <=> c
  /\ c => i < Len(q) /\ r = "first" /\ ~RightLengths(s)
  /\ r = "headers" =>
       /\ i > 0
       /\ q[i].t = "header" \/ (q[i].t = "extra" /\ s[q[i].n].framing = "typed")
  /\ r = "body" => i > 0 /\ q[i].t = "blank"
  /\ r = "first" /\ RightLengths(s) =>
       \/ i = 0 \/ i = Len(q)
       \/ Closes(q[i])
       \/ q[i].t = "extra" /\ s[q[i].n].framing = "retyped"

\* No byte is missing of token j, which ends a message.
Good(q, b, S, j) == Closes(q[j]) /\ ~(b /\ j = Len(q)) /\ j \notin S

\* Token j does not stick to a body that was not handled.
Clear(q, h, j) == j > 1 /\ q[j - 1].t = "body" => q[j - 1].n \in Range(h)

\* Token j is a message that must not be lost.
MustHandle(q, b, S, h, j) == Good(q, b, S, j) /\ q[j].t = "line" /\ Clear(q, h, j)

Caught(s, q, b, i, S, h) ==
  /\ \A n \in Range(h) : \E j \in 1 .. i : Good(q, b, S, j) /\ q[j].n = n
  /\ RightLengths(s) => \A j \in 1 .. i : Good(q, b, S, j) => q[j].n \in Range(h)
  /\ \A j \in 1 .. i : MustHandle(q, b, S, h, j) => q[j].n \in Range(h)

ReaderOK(s, q, b, i, c, r, S, h) ==
  /\ Framed(s, q) /\ InPlace(s, q, i, c, r, S)
  /\ h \in Seq(Nat) /\ Increasing(h) /\ Caught(s, q, b, i, S, h)

LEMMA ReaderParts ==
  ASSUME NEW s, NEW q, NEW b, NEW i, NEW c, NEW r, NEW S, NEW h,
         ReaderOK(s, q, b, i, c, r, S, h)
  PROVE  /\ q \in Seq(Tokens) /\ Len(q) \in Nat /\ i \in 0 .. Len(q)
         /\ Framed(s, q) /\ InPlace(s, q, i, c, r, S)
         /\ h \in Seq(Nat) /\ Increasing(h) /\ Caught(s, q, b, i, S, h)
<1>1. q \in Seq(Tokens) /\ Len(q) \in Nat
  BY DEF ReaderOK, Framed
<1> QED
  BY <1>1 DEF ReaderOK, InPlace

\* The reader goes on without a message.
LEMMA SkipOK ==
  ASSUME NEW s, NEW q, NEW b, NEW i, NEW c, NEW r, NEW S, NEW h,
         ReaderOK(s, q, b, i, c, r, S, h),
         NEW k \in Nat, NEW cut, NEW to, NEW T, InPlace(s, q, i + k, cut, to, T),
         \A j \in 1 .. i : j \in T <=> j \in S,
         RightLengths(s) => \A j \in i + 1 .. i + k : ~Good(q, b, T, j),
         \A j \in i + 1 .. i + k : ~MustHandle(q, b, T, h, j)
  PROVE  ReaderOK(s, q, b, i + k, cut, to, T, h)
<1>1. /\ i \in Nat /\ Framed(s, q) /\ h \in Seq(Nat) /\ Increasing(h)
      /\ Caught(s, q, b, i, S, h)
  BY ReaderParts
<1>2. \A j \in 1 .. i + k : j \in 1 .. i \/ j \in i + 1 .. i + k
  BY <1>1
<1>3. \A j \in 1 .. i : Good(q, b, T, j) <=> Good(q, b, S, j)
  BY DEF Good
<1>4. \A n \in Range(h) : \E j \in 1 .. i + k : Good(q, b, T, j) /\ q[j].n = n
  <2> SUFFICES ASSUME NEW n \in Range(h)
               PROVE  \E j \in 1 .. i + k : Good(q, b, T, j) /\ q[j].n = n
    OBVIOUS
  <2>1. PICK j \in 1 .. i : Good(q, b, S, j) /\ q[j].n = n
    BY <1>1 DEF Caught
  <2> QED
    BY <1>1, <1>3, <2>1
<1>5. RightLengths(s) => \A j \in 1 .. i + k : Good(q, b, T, j) => q[j].n \in Range(h)
  BY <1>1, <1>2, <1>3 DEF Caught
<1>6. \A j \in 1 .. i + k : MustHandle(q, b, T, h, j) => q[j].n \in Range(h)
  <2> SUFFICES ASSUME NEW j \in 1 .. i + k, MustHandle(q, b, T, h, j) PROVE q[j].n \in Range(h)
    OBVIOUS
  <2>1. j \in 1 .. i
    BY <1>2
  <2>2. MustHandle(q, b, S, h, j)
    BY <1>3, <2>1 DEF MustHandle
  <2> QED
    BY <1>1, <2>1, <2>2 DEF Caught
<1> QED
  BY <1>1, <1>4, <1>5, <1>6 DEF ReaderOK, Caught

LEMMA AppendFacts ==
  ASSUME NEW h \in Seq(Nat), NEW n \in Nat
  PROVE  /\ Append(h, n) \in Seq(Nat)
         /\ Len(Append(h, n)) = Len(h) + 1 /\ Len(h) \in Nat
         /\ \A i \in 1 .. Len(h) : Append(h, n)[i] = h[i]
         /\ Append(h, n)[Len(h) + 1] = n
         /\ Range(Append(h, n)) = Range(h) \cup {n}
<1> DEFINE g == Append(h, n)
<1>1. /\ g \in Seq(Nat)
      /\ Len(g) = Len(h) + 1 /\ Len(h) \in Nat
      /\ \A i \in 1 .. Len(h) : g[i] = h[i]
      /\ g[Len(h) + 1] = n
  OBVIOUS
<1>2. DOMAIN h = 1 .. Len(h) /\ DOMAIN g = 1 .. Len(g)
  BY <1>1
<1> HIDE DEF g
<1>3. ASSUME NEW x PROVE x \in Range(g) <=> x \in Range(h) \cup {n}
  <2>1. ASSUME x \in Range(g) PROVE x \in Range(h) \cup {n}
    <3>1. PICK i \in 1 .. Len(g) : g[i] = x
      BY <1>2, <2>1 DEF Range
    <3>2. i \in 1 .. Len(h) \/ i = Len(h) + 1
      BY <1>1, <3>1
    <3> QED
      BY <1>1, <1>2, <3>1, <3>2 DEF Range
  <2>2. ASSUME x \in Range(h) \cup {n} PROVE x \in Range(g)
    <3>1. CASE x = n
      BY <1>1, <1>2, <3>1 DEF Range
    <3>2. CASE x \in Range(h)
      <4>1. PICK i \in 1 .. Len(h) : h[i] = x
        BY <1>2, <3>2 DEF Range
      <4>2. i \in 1 .. Len(g) /\ g[i] = x
        BY <1>1, <4>1
      <4> QED
        BY <1>2, <4>2 DEF Range
    <3> QED
      BY <2>2, <3>1, <3>2
  <2> QED
    BY <2>1, <2>2
<1>4. Range(g) = Range(h) \cup {n}
  BY <1>3
<1> QED
  BY <1>1, <1>4 DEF g

\* A sequence stays increasing when something larger than everything in it comes.
LEMMA IncreasingAppend ==
  ASSUME NEW h \in Seq(Nat), Increasing(h), NEW n \in Nat, \A m \in Range(h) : m < n
  PROVE  Increasing(Append(h, n))
<1> DEFINE g == Append(h, n)
<1>1. /\ g \in Seq(Nat)
      /\ Len(g) = Len(h) + 1 /\ Len(h) \in Nat
      /\ \A i \in 1 .. Len(h) : g[i] = h[i]
      /\ g[Len(h) + 1] = n
  BY AppendFacts
<1> HIDE DEF g
<1> SUFFICES ASSUME NEW i \in 2 .. Len(g) PROVE g[i - 1] < g[i]
  BY DEF Increasing, g
<1>2. i - 1 \in 1 .. Len(h) /\ g[i - 1] = h[i - 1]
  <2>1. i \in 2 .. Len(h) + 1 /\ Len(h) \in Nat
    BY <1>1
  <2>2. i - 1 \in 1 .. Len(h)
    BY <2>1
  <2> QED
    BY <1>1, <2>2
<1>3. CASE i <= Len(h)
  <2>1. i \in 2 .. Len(h) /\ g[i] = h[i]
    BY <1>1, <1>3
  <2> QED
    BY <1>2, <2>1 DEF Increasing
<1>4. CASE i = Len(h) + 1
  <2>1. h[i - 1] \in Range(h)
    BY <1>2 DEF Range
  <2> QED
    BY <1>1, <1>2, <1>4, <2>1
<1> QED
  BY <1>1, <1>3, <1>4

\* The messages handled came before a token that closes one and is still to be read.
LEMMA HandledBefore ==
  ASSUME NEW s, NEW q, NEW b, NEW i, NEW c, NEW r, NEW S, NEW h,
         ReaderOK(s, q, b, i, c, r, S, h), NEW j \in i + 1 .. Len(q)
  PROVE  \A m \in Range(h) : m < q[j].n
<1>1. /\ Len(q) \in Nat /\ i \in 0 .. Len(q) /\ Framed(s, q) /\ Caught(s, q, b, i, S, h)
  BY ReaderParts
<1> SUFFICES ASSUME NEW m \in Range(h) PROVE m < q[j].n
  OBVIOUS
<1>2. PICK l \in 1 .. i : Good(q, b, S, l) /\ q[l].n = m
  BY <1>1 DEF Caught
<1>3. l \in 1 .. Len(q) /\ j \in 1 .. Len(q) /\ l < j /\ Closes(q[l])
  BY <1>1, <1>2 DEF Good
<1> QED
  BY <1>1, <1>2, <1>3 DEF Framed, InOrder

\* Nothing is missing of the next token.
NextWhole(q, b, i, c) == ~(b /\ i + 1 = Len(q)) /\ ~c

\* The next token is the last one of a message, nothing of it is missing, and the
\* message is handled.
LEMMA HandleOK ==
  ASSUME NEW s, NEW q, NEW b, NEW i, NEW c, NEW r, NEW S, NEW h,
         ReaderOK(s, q, b, i, c, r, S, h),
         i < Len(q), Closes(q[i + 1]), NextWhole(q, b, i, c)
  PROVE  /\ ReaderOK(s, q, b, i + 1, FALSE, "first", S, Append(h, q[i + 1].n))
         /\ q[i + 1].n \in 1 .. Len(s)
         /\ \A m \in Range(h) : m < q[i + 1].n
<1> DEFINE n == q[i + 1].n
           g == Append(h, n)
<1>1. /\ q \in Seq(Tokens) /\ Len(q) \in Nat /\ i \in Nat /\ i + 1 \in 1 .. Len(q)
      /\ Framed(s, q) /\ InPlace(s, q, i, c, r, S)
      /\ h \in Seq(Nat) /\ Increasing(h) /\ Caught(s, q, b, i, S, h)
  BY ReaderParts
<1>2. n \in 1 .. Len(s) /\ n \in Nat
  <2>1. q[i + 1] \in Tokens
    BY <1>1, ElementOfSeq
  <2> QED
    BY <1>1, <2>1 DEF Framed, Tokens
<1> HIDE DEF n
<1>3. \A m \in Range(h) : m < n
  <2>1. i + 1 \in i + 1 .. Len(q)
    BY <1>1
  <2> QED
    BY <2>1, HandledBefore DEF n
<1>4. Range(g) = Range(h) \cup {n} /\ g \in Seq(Nat)
  BY <1>1, <1>2, AppendFacts
<1>5. Increasing(g)
  BY <1>1, <1>2, <1>3, IncreasingAppend
<1> HIDE DEF g
<1>6. S \subseteq 1 .. i /\ Good(q, b, S, i + 1)
  BY <1>1 DEF InPlace, Good, NextWhole
<1>7. Caught(s, q, b, i + 1, S, g)
  <2>1. \A j \in 1 .. i + 1 : j \in 1 .. i \/ j = i + 1
    BY <1>1
  <2>2. \A m \in Range(g) : \E j \in 1 .. i + 1 : Good(q, b, S, j) /\ q[j].n = m
    <3> SUFFICES ASSUME NEW m \in Range(g)
                 PROVE  \E j \in 1 .. i + 1 : Good(q, b, S, j) /\ q[j].n = m
      OBVIOUS
    <3>1. CASE m = n
      BY <1>1, <1>6, <3>1 DEF n
    <3>2. CASE m \in Range(h)
      <4>1. PICK j \in 1 .. i : Good(q, b, S, j) /\ q[j].n = m
        BY <1>1, <3>2 DEF Caught
      <4> QED
        BY <1>1, <4>1
    <3> QED
      BY <1>4, <3>1, <3>2
  <2>3. RightLengths(s) => \A j \in 1 .. i + 1 : Good(q, b, S, j) => q[j].n \in Range(g)
    BY <1>1, <1>4, <2>1 DEF Caught, n
  <2>4. ASSUME NEW j \in 1 .. i + 1, MustHandle(q, b, S, g, j) PROVE q[j].n \in Range(g)
    <3>1. CASE j = i + 1
      BY <1>4, <3>1 DEF n
    <3>2. CASE j \in 1 .. i
      <4>1. Clear(q, h, j)
        <5> SUFFICES ASSUME j > 1, q[j - 1].t = "body" PROVE q[j - 1].n \in Range(h)
          BY DEF Clear
        <5>1. q[j - 1].n \in Range(g)
          BY <2>4 DEF MustHandle, Clear
        <5>2. j - 1 \in 1 .. Len(q) /\ j - 1 < i + 1 /\ Closes(q[j - 1])
          BY <1>1, <3>2 DEF Closes
        <5>3. q[j - 1].n < n
          BY <1>1, <5>2 DEF Framed, InOrder, n
        <5> QED
          BY <1>2, <1>4, <5>1, <5>3
      <4>2. MustHandle(q, b, S, h, j)
        BY <2>4, <4>1 DEF MustHandle
      <4> QED
        BY <1>1, <1>4, <3>2, <4>2 DEF Caught
    <3> QED
      BY <2>1, <3>1, <3>2
  <2> QED
    BY <2>2, <2>3, <2>4 DEF Caught
<1>8. InPlace(s, q, i + 1, FALSE, "first", S)
  BY <1>1, <1>6 DEF InPlace
<1>9. ReaderOK(s, q, b, i + 1, FALSE, "first", S, g)
  BY <1>1, <1>4, <1>5, <1>7, <1>8 DEF ReaderOK
<1> QED
  BY <1>2, <1>3, <1>9 DEF g, n

\* read_line takes k tokens.
LineEnd(q, i, k) ==
  /\ k \in 1 .. Len(q) - i
  /\ \A m \in 1 .. k - 1 : ~EndsLine(q[i + m])
  /\ EndsLine(q[i + k]) \/ i + k = Len(q)

LEMMA LineLengthFacts ==
  ASSUME NEW p, input[p] \in Seq(Tokens), pos[p] \in 0 .. Len(input[p]), ~AtEnd(p)
  PROVE  LineEnd(input[p], pos[p], LineLength(p))
<1> DEFINE q == input[p]
           i == pos[p]
           T == {k \in 1 .. Len(q) - i : EndsLine(q[i + k]) \/ i + k = Len(q)}
<1>1. Len(q) \in Nat /\ i \in Nat /\ i < Len(q)
  BY DEF AtEnd
<1>2. T \in SUBSET Nat /\ Len(q) - i \in T
  BY <1>1
<1>3. PICK k \in T : \A m \in T : k <= m
  <2> HIDE DEF T
  <2> QED
    BY <1>2, Least
<1>4. \A m \in 1 .. k - 1 : ~EndsLine(q[i + m])
  <2> SUFFICES ASSUME NEW m \in 1 .. k - 1, EndsLine(q[i + m]) PROVE FALSE
    OBVIOUS
  <2>1. m \in 1 .. Len(q) - i /\ m < k
    BY <1>1, <1>3
  <2>2. m \in T
    BY <2>1
  <2> QED
    BY <1>3, <2>1, <2>2
<1>5. \E l \in 1 .. Len(q) - i : LineEnd(q, i, l)
  BY <1>3, <1>4 DEF LineEnd
<1> QED
  BY <1>5 DEF LineLength, LineEnd

\* A token that ends with a newline is a line of its own.
LEMMA OneToken ==
  ASSUME NEW q \in Seq(Tokens), NEW i \in Nat, NEW k, LineEnd(q, i, k), EndsLine(q[i + 1])
  PROVE  k = 1
<1>1. k \in Nat /\ k >= 1
  BY DEF LineEnd
<1>2. k > 1 => 1 \in 1 .. k - 1
  BY <1>1
<1> QED
  BY <1>1, <1>2 DEF LineEnd

\* Where a client that states its lengths right has the reader look for a message.
LEMMA RightToken ==
  ASSUME NEW s, NEW q, NEW b, NEW i, NEW c, NEW S, NEW h,
         ReaderOK(s, q, b, i, c, "first", S, h), RightLengths(s), i < Len(q)
  PROVE  /\ q[i + 1].t \in {"line", "header", "extra"}
         /\ q[i + 1].t = "extra" => s[q[i + 1].n].framing = "retyped"
<1>1. /\ q \in Seq(Tokens) /\ i \in 0 .. Len(q) /\ Len(q) \in Nat
      /\ \/ i = 0
         \/ Closes(q[i])
         \/ q[i].t = "extra" /\ s[q[i].n].framing = "retyped"
  BY ReaderParts DEF InPlace
<1>2. \A f : FirstType(f) \in {"line", "header", "extra"} /\ (FirstType(f) = "extra" => f = "retyped")
  BY DEF FirstType
<1>3. CASE i = 0
  <2>1. q[1].t = FirstType(s[1].framing) /\ q[1].n = 1
    BY <1>1, <1>3 DEF ReaderOK, Framed
  <2> QED
    BY <1>2, <1>3, <2>1
<1>4. CASE i # 0
  <2>1. Follows(s, q[i], q[i + 1])
    BY <1>1, <1>4 DEF ReaderOK, Framed, Chained
  <2>2. CASE Closes(q[i])
    BY <1>2, <2>1, <2>2 DEF Follows
  <2>3. CASE q[i].t = "extra" /\ s[q[i].n].framing = "retyped"
    <3>1. ~Closes(q[i]) /\ NextType(s[q[i].n].framing, q[i].t) = "header"
      BY <2>3 DEF Closes, NextType
    <3>2. q[i + 1].t = "header"
      BY <2>1, <3>1 DEF Follows
    <3> QED
      BY <3>2
  <2> QED
    BY <1>1, <1>4, <2>2, <2>3
<1> QED
  BY <1>3, <1>4

\* A line that is no message of its own: a header, another line or what was left over.
LEMMA FirstSkips ==
  ASSUME NEW s, NEW q, NEW b, NEW i, NEW c, NEW S, NEW h,
         ReaderOK(s, q, b, i, c, "first", S, h),
         i < Len(q), NEW k, LineEnd(q, i, k),
         ~(k = 1 /\ NextWhole(q, b, i, c) /\ q[i + 1].t \in {"line", "body"})
  PROVE  ReaderOK(s, q, b, i + k, FALSE,
                  IF NextWhole(q, b, i, c) /\ q[i + 1].t = "header" THEN "headers" ELSE "first",
                  S, h)
<1> DEFINE w == NextWhole(q, b, i, c)
           to == IF w /\ q[i + 1].t = "header" THEN "headers" ELSE "first"
<1>1. /\ q \in Seq(Tokens) /\ i \in Nat /\ Len(q) \in Nat /\ k \in Nat /\ k >= 1 /\ i + k <= Len(q)
      /\ InPlace(s, q, i, c, "first", S)
  BY ReaderParts DEF LineEnd
<1>2. q[i + 1].t \in {"line", "header", "extra", "blank", "body"}
  <2>1. i + 1 \in 1 .. Len(q)
    BY <1>1
  <2>2. q[i + 1] \in Tokens
    BY <1>1, <2>1, ElementOfSeq
  <2> QED
    BY <2>2 DEF Tokens
<1>3. EndsLine(q[i + 1]) => k = 1
  BY <1>1, OneToken
<1>4. i + 1 .. i + 1 = {i + 1}
  BY <1>1
<1>5. S \subseteq 1 .. i + k /\ S \subseteq 1 .. i + k + 1 /\ i + k + 1 \notin S /\ i + k \in 0 .. Len(q)
  BY <1>1 DEF InPlace
<1>6. ASSUME ~w PROVE ~Good(q, b, S, i + 1)
  BY <1>1, <1>6 DEF InPlace, NextWhole, Good
<1>7. ASSUME ~w, RightLengths(s) PROVE i + 1 = Len(q)
  BY <1>1, <1>7 DEF InPlace, NextWhole
<1>8. ASSUME k = 1, InPlace(s, q, i + 1, FALSE, to, S), ~Good(q, b, S, i + 1)
      PROVE  ReaderOK(s, q, b, i + k, FALSE, to, S, h)
  <2>1. ~MustHandle(q, b, S, h, i + 1)
    BY <1>8 DEF MustHandle
  <2> HIDE DEF to, w
  <2> QED
    BY <1>4, <1>8, <2>1, SkipOK
<1>9. CASE q[i + 1].t = "header"
  <2>1. k = 1
    BY <1>3, <1>9 DEF EndsLine
  <2>2. InPlace(s, q, i + 1, FALSE, to, S)
    <3>1. CASE w
      BY <1>1, <1>5, <1>9, <2>1, <3>1 DEF InPlace
    <3>2. CASE ~w
      BY <1>1, <1>5, <1>7, <2>1, <3>2 DEF InPlace
    <3> QED
      BY <3>1, <3>2
  <2>3. ~Good(q, b, S, i + 1)
    BY <1>9 DEF Good, Closes
  <2> QED
    BY <1>8, <2>1, <2>2, <2>3
<1>10. CASE q[i + 1].t \in {"extra", "blank"}
  <2>1. k = 1 /\ to = "first"
    BY <1>3, <1>10 DEF EndsLine
  <2>2. InPlace(s, q, i + 1, FALSE, to, S)
    <3>1. RightLengths(s) => q[i + 1].t = "extra" /\ s[q[i + 1].n].framing = "retyped"
      BY <1>10, RightToken
    <3> QED
      BY <1>1, <1>5, <2>1, <3>1 DEF InPlace
  <2>3. ~Good(q, b, S, i + 1)
    BY <1>10 DEF Good, Closes
  <2> QED
    BY <1>8, <2>1, <2>2, <2>3
<1>11. CASE q[i + 1].t = "line"
  <2>1. k = 1 /\ to = "first" /\ ~w
    BY <1>3, <1>11 DEF EndsLine
  <2>2. Closes(q[i + 1])
    BY <1>11 DEF Closes
  <2>3. InPlace(s, q, i + 1, FALSE, to, S)
    BY <1>1, <1>5, <2>1, <2>2 DEF InPlace
  <2> QED
    BY <1>6, <1>8, <2>1, <2>3
<1>12. CASE q[i + 1].t = "body"
  <2>1. ~RightLengths(s) /\ to = "first"
    BY <1>12, RightToken
  <2>2. InPlace(s, q, i + k, FALSE, "first", S)
    BY <1>1, <1>5, <2>1 DEF InPlace
  <2>3. ASSUME NEW j \in i + 1 .. i + k PROVE ~MustHandle(q, b, S, h, j)
    <3>1. CASE j = i + 1
      BY <1>12, <3>1 DEF MustHandle
    <3>2. CASE j # i + 1
      <4>1. j - i - 1 \in 1 .. k - 1 /\ i + (j - i - 1) = j - 1 /\ j - 1 \in i + 1 .. Len(q) /\ j > 1
        <5>1. i \in Nat /\ k \in Nat /\ Len(q) \in Nat /\ i + k <= Len(q)
          BY <1>1
        <5>2. j \in Nat /\ i + 1 < j /\ j <= i + k
          BY <3>2, <5>1
        <5>3. j - i - 1 \in 1 .. k - 1 /\ i + (j - i - 1) = j - 1
          BY <5>1, <5>2
        <5> QED
          BY <5>1, <5>2, <5>3
      <4>2. q[j - 1].t = "body"
        <5>1. ~EndsLine(q[i + (j - i - 1)])
          BY <4>1 DEF LineEnd
        <5> QED
          BY <4>1, <5>1 DEF EndsLine
      <4>3. q[j - 1].n \notin Range(h)
        <5>1. \A m \in Range(h) : m < q[j - 1].n
          BY <4>1, HandledBefore
        <5>2. q[j - 1] \in Tokens
          <6>1. j - 1 \in 1 .. Len(q)
            BY <1>1, <4>1
          <6> QED
            BY <1>1, <6>1, ElementOfSeq
        <5>3. q[j - 1].n \in Nat
          BY <5>2 DEF Tokens
        <5> QED
          BY <5>1, <5>3
      <4> QED
        BY <4>1, <4>2, <4>3 DEF MustHandle, Clear
    <3> QED
      BY <3>1, <3>2
  <2> QED
    BY <1>1, <2>1, <2>2, <2>3, SkipOK
<1> QED
  BY <1>2, <1>9, <1>10, <1>11, <1>12

LEMMA HeadersGoOn ==
  ASSUME NEW s, NEW q, NEW b, NEW i, NEW c, NEW S, NEW h,
         ReaderOK(s, q, b, i, c, "headers", S, h), i < Len(q), NEW k, LineEnd(q, i, k)
  PROVE  ReaderOK(s, q, b, i + k, FALSE,
                  IF q[i + 1].t = "blank" THEN "body" ELSE "headers", S, h)
<1> DEFINE to == IF q[i + 1].t = "blank" THEN "body" ELSE "headers"
<1>1. /\ q \in Seq(Tokens) /\ i \in Nat /\ Len(q) \in Nat /\ i > 0 /\ i + 1 \in 0 .. Len(q)
      /\ InPlace(s, q, i, c, "headers", S)
  <2>1. /\ q \in Seq(Tokens) /\ i \in 0 .. Len(q) /\ Len(q) \in Nat
        /\ InPlace(s, q, i, c, "headers", S)
    BY ReaderParts
  <2> QED
    BY <2>1 DEF InPlace
<1>2. Follows(s, q[i], q[i + 1])
  BY <1>1 DEF ReaderOK, Framed, Chained
<1>3. /\ q[i].t = "header" \/ (q[i].t = "extra" /\ s[q[i].n].framing = "typed")
      /\ S \subseteq 1 .. i
  BY <1>1 DEF InPlace
<1>4. /\ q[i + 1].n = q[i].n
      /\ q[i + 1].t = "blank" \/ (q[i + 1].t = "extra" /\ s[q[i].n].framing = "typed")
  BY <1>2, <1>3 DEF Follows, Closes, NextType
<1>5. k = 1
  BY <1>1, <1>4, OneToken DEF EndsLine
<1>6. S \subseteq 1 .. i + 1 + 1 /\ i + 1 + 1 \notin S
  BY <1>1, <1>3
<1>7. InPlace(s, q, i + 1, FALSE, to, S)
  BY <1>1, <1>4, <1>6 DEF InPlace
<1>8. ~Good(q, b, S, i + 1) /\ ~MustHandle(q, b, S, h, i + 1) /\ i + 1 .. i + 1 = {i + 1}
  BY <1>1, <1>4 DEF Closes, Good, MustHandle
<1> HIDE DEF to
<1>9. ReaderOK(s, q, b, i + 1, FALSE, to, S, h)
  BY <1>1, <1>7, <1>8, SkipOK
<1> QED
  BY <1>5, <1>9 DEF to

\* At the empty line behind the headers, what comes next is the body.
LEMMA BodyNext ==
  ASSUME NEW s, NEW q, NEW b, NEW i, NEW c, NEW S, NEW h,
         ReaderOK(s, q, b, i, c, "body", S, h)
  PROVE  /\ q \in Seq(Tokens) /\ Len(q) \in Nat /\ i \in 1 .. Len(q) /\ ~c
         /\ q[i].n \in 1 .. Len(s)
         /\ i < Len(q) => q[i + 1].n = q[i].n /\ q[i + 1].t = "body"
<1>1. /\ q \in Seq(Tokens) /\ i \in Nat /\ Len(q) \in Nat /\ i \in 1 .. Len(q) /\ q[i].t = "blank"
      /\ ~c
  <2>1. /\ q \in Seq(Tokens) /\ i \in 0 .. Len(q) /\ Len(q) \in Nat
        /\ InPlace(s, q, i, c, "body", S)
    BY ReaderParts
  <2> QED
    BY <2>1 DEF InPlace
<1>2. q[i].n \in 1 .. Len(s)
  BY <1>1 DEF ReaderOK, Framed
<1>3. ASSUME i < Len(q)
      PROVE  q[i + 1].n = q[i].n /\ q[i + 1].t = "body"
  <2>1. Follows(s, q[i], q[i + 1])
    BY <1>1, <1>3 DEF ReaderOK, Framed, Chained
  <2> QED
    BY <1>1, <1>3, <2>1 DEF Follows, Closes, NextType
<1> QED
  BY <1>1, <1>2, <1>3

\* A wrong length: k tokens are read, and the beginning of another if cut.
LEMMA BodySkips ==
  ASSUME NEW s, DOMAIN s = 1 .. Len(s), NEW q, NEW b, NEW i, NEW c, NEW S, NEW h,
         ReaderOK(s, q, b, i, c, "body", S, h),
         s[q[i].n].framing \in {"zero", "short", "long"},
         NEW k \in Nat, NEW cut, i + k <= Len(q), cut => i + k < Len(q)
  PROVE  ReaderOK(s, q, b, i + k, cut, "first",
                  S \cup (i + 1 .. i + k + (IF cut THEN 1 ELSE 0)), h)
<1> DEFINE T == S \cup (i + 1 .. i + k + (IF cut THEN 1 ELSE 0))
<1>1. /\ q \in Seq(Tokens) /\ Len(q) \in Nat /\ i \in 1 .. Len(q)
      /\ q[i].n \in 1 .. Len(s) /\ ~c
  BY BodyNext
<1>2. ~RightLengths(s)
  BY <1>1 DEF RightLengths
<1>3. S \subseteq 1 .. i
  BY <1>1, ReaderParts DEF InPlace
<1>4. /\ T \subseteq 1 .. i + k + 1 /\ (i + k + 1 \in T <=> cut)
      /\ \A j \in 1 .. i : j \in T <=> j \in S
      /\ \A j \in i + 1 .. i + k : j \in T
  BY <1>1, <1>3
<1> HIDE DEF T
<1>5. InPlace(s, q, i + k, cut, "first", T)
  BY <1>1, <1>2, <1>4 DEF InPlace
<1>6. \A j \in i + 1 .. i + k : ~MustHandle(q, b, T, h, j)
  BY <1>4 DEF MustHandle, Good
<1> QED
  BY <1>2, <1>4, <1>5, <1>6, SkipOK DEF T

-----------------------------------------------------------------------------
(* The steps of the reader.                                                *)

StdioTypes ==
  /\ script \in [Procs -> Seq(Messages)]
  /\ input \in [Procs -> Seq(Tokens)]
  /\ torn \in [Procs -> BOOLEAN]
  /\ pos \in [Procs -> Nat]
  /\ part \in [Procs -> BOOLEAN]
  /\ rd \in [Procs -> {"first", "headers", "body"}]
  /\ spoilt \in [Procs -> SUBSET Nat]
  /\ handled \in [Procs -> Seq(Nat)]
  /\ replied \in [Procs -> Seq(Nat)]
  /\ exit \in [Procs -> {"running", "ok", "error"}]

\* What p's reader would have read and handled.
ReaderAt(p, i, c, r, S, h) == ReaderOK(script[p], input[p], torn[p], i, c, r, S, h)

ReaderInv ==
  \A p \in Procs :
    /\ ReaderAt(p, pos[p], part[p], rd[p], spoilt[p], handled[p])
    /\ exit[p] = "ok" => pos[p] = Len(input[p])

\* p has i tokens of its input behind it, is in state r and so on.
Advance(p, i, c, r, S) ==
  /\ UNCHANGED clientVars
  /\ pos' = [pos EXCEPT ![p] = i]
  /\ part' = [part EXCEPT ![p] = c]
  /\ rd' = [rd EXCEPT ![p] = r]
  /\ spoilt' = [spoilt EXCEPT ![p] = S]
  /\ i \in Nat /\ c \in BOOLEAN /\ r \in {"first", "headers", "body"} /\ S \in SUBSET Nat

\* ... and has handled nothing,
Skipped(p, i, c, r, S) ==
  /\ Advance(p, i, c, r, S)
  /\ ReaderAt(p, i, c, r, S, handled[p])
  /\ UNCHANGED <<handled, replied>> /\ UNCHANGED hostVars
  /\ \/ exit' = exit
     \/ exit' = [exit EXCEPT ![p] = "error"]
     \/ exit' = [exit EXCEPT ![p] = "ok"] /\ i = Len(input[p])

\* ... or message n.
Took(p, i, c, r, S, n) ==
  /\ Advance(p, i, c, r, S)
  /\ ReaderAt(p, i, c, r, S, Append(handled[p], n))
  /\ n \in 1 .. Len(script[p]) /\ \A m \in Range(handled[p]) : m < n
  /\ HandleMessage(p, n)

Reads(p) ==
  \E i, c, r, S : Skipped(p, i, c, r, S) \/ \E n : Took(p, i, c, r, S, n)

LEMMA ReaderFacts ==
  ASSUME StdioTypes, ReaderInv, NEW p \in Procs
  PROVE  /\ script[p] \in Seq(Messages) /\ DOMAIN script[p] = 1 .. Len(script[p])
         /\ input[p] \in Seq(Tokens) /\ Len(input[p]) \in Nat
         /\ pos[p] \in 0 .. Len(input[p]) /\ part[p] \in BOOLEAN
         /\ rd[p] \in {"first", "headers", "body"} /\ spoilt[p] \in SUBSET Nat
         /\ handled[p] \in Seq(Nat)
         /\ ReaderAt(p, pos[p], part[p], rd[p], spoilt[p], handled[p])
         /\ pos = [pos EXCEPT ![p] = pos[p]]
         /\ part = [part EXCEPT ![p] = part[p]]
         /\ rd = [rd EXCEPT ![p] = rd[p]]
         /\ spoilt = [spoilt EXCEPT ![p] = spoilt[p]]
<1>1. /\ script[p] \in Seq(Messages) /\ input[p] \in Seq(Tokens)
      /\ part[p] \in BOOLEAN /\ spoilt[p] \in SUBSET Nat
      /\ rd[p] \in {"first", "headers", "body"} /\ handled[p] \in Seq(Nat)
      /\ ReaderAt(p, pos[p], part[p], rd[p], spoilt[p], handled[p])
  BY DEF StdioTypes, ReaderInv
<1>2. pos[p] \in 0 .. Len(input[p])
  BY <1>1, ReaderParts DEF ReaderAt
<1>3. /\ pos = [pos EXCEPT ![p] = pos[p]]
      /\ part = [part EXCEPT ![p] = part[p]]
      /\ rd = [rd EXCEPT ![p] = rd[p]]
      /\ spoilt = [spoilt EXCEPT ![p] = spoilt[p]]
  BY DEF StdioTypes
<1> QED
  BY <1>1, <1>2, <1>3

\* run_stdio returns; nothing has been read.
LEMMA StaysReads ==
  ASSUME StdioTypes, ReaderInv, NEW p \in Procs, UNCHANGED <<clientVars, readerVars>>,
         UNCHANGED <<handled, replied>>, UNCHANGED hostVars,
         \/ exit' = [exit EXCEPT ![p] = "error"]
         \/ exit' = [exit EXCEPT ![p] = "ok"] /\ pos[p] = Len(input[p])
  PROVE  Reads(p)
<1>1. Advance(p, pos[p], part[p], rd[p], spoilt[p])
  <2>1. UNCHANGED <<pos, part, rd, spoilt>>
    BY DEF readerVars
  <2> QED
    BY <2>1, ReaderFacts DEF Advance
<1>2. Skipped(p, pos[p], part[p], rd[p], spoilt[p])
  BY <1>1, ReaderFacts DEF Skipped
<1> QED
  BY <1>2 DEF Reads

LEMMA ReadEndReads ==
  ASSUME StdioTypes, ReaderInv, NEW p \in Procs, ReadEnd(p) \/ ReadInvalid(p)
  PROVE  Reads(p)
BY StaysReads DEF ReadEnd, ReadInvalid, AtEnd, Fail

LEMMA ReadFirstReads ==
  ASSUME StdioTypes, ReaderInv, NEW p \in Procs, ReadFirst(p)
  PROVE  Reads(p)
<1> DEFINE s == script[p]
           q == input[p]
           b == torn[p]
           i == pos[p]
           c == part[p]
           S == spoilt[p]
           h == handled[p]
           k == LineLength(p)
           w == NextWhole(q, b, i, c)
           r == IF w /\ q[i + 1].t = "header" THEN "headers" ELSE "first"
<1>1. /\ q \in Seq(Tokens) /\ Len(q) \in Nat /\ i \in 0 .. Len(q) /\ S \in SUBSET Nat
      /\ rd[p] = "first" /\ ReaderOK(s, q, b, i, c, "first", S, h)
      /\ spoilt = [spoilt EXCEPT ![p] = S] /\ ~AtEnd(p)
  BY ReaderFacts DEF ReadFirst, ReaderAt
<1>2. LineEnd(q, i, k) /\ k \in Nat /\ i < Len(q) /\ i + k \in Nat
  <2>1. LineEnd(q, i, k)
    BY <1>1, LineLengthFacts
  <2>2. k \in 1 .. Len(q) - i /\ i < Len(q)
    BY <1>1, <2>1 DEF LineEnd, AtEnd
  <2> QED
    BY <1>1, <2>1, <2>2
<1>3. Whole(p, i + 1) <=> w
  BY DEF Whole, Torn, NextWhole
<1>4. Advance(p, i + k, FALSE, r, S)
  <2>1. /\ UNCHANGED clientVars /\ UNCHANGED spoilt
        /\ pos' = [pos EXCEPT ![p] = i + k] /\ part' = [part EXCEPT ![p] = FALSE]
        /\ rd' = [rd EXCEPT ![p] = r]
    BY <1>3 DEF ReadFirst, Consume, Head1
  <2> QED
    BY <1>1, <1>2, <2>1 DEF Advance
<1>5. CASE k = 1 /\ w /\ q[i + 1].t \in {"line", "body"}
  <2>1. HandleMessage(p, q[i + 1].n)
    BY <1>3, <1>5 DEF ReadFirst, Head1
  <2>2. Closes(q[i + 1]) /\ r = "first" /\ NextWhole(q, b, i, c)
    BY <1>5 DEF Closes
  <2>3. /\ ReaderOK(s, q, b, i + 1, FALSE, "first", S, Append(h, q[i + 1].n))
        /\ q[i + 1].n \in 1 .. Len(s)
        /\ \A m \in Range(h) : m < q[i + 1].n
    BY <1>1, <1>2, <2>2, HandleOK
  <2>4. Took(p, i + k, FALSE, r, S, q[i + 1].n)
    BY <1>4, <1>5, <2>1, <2>2, <2>3 DEF Took, ReaderAt
  <2> QED
    BY <2>4 DEF Reads
<1>6. CASE ~(k = 1 /\ w /\ q[i + 1].t \in {"line", "body"})
  <2>1. UNCHANGED <<handled, replied, exit>> /\ UNCHANGED hostVars
    BY <1>3, <1>6 DEF ReadFirst, Head1, Quiet, Reject
  <2>2. ReaderOK(s, q, b, i + k, FALSE, r, S, h)
    BY <1>1, <1>2, <1>6, FirstSkips
  <2>3. Skipped(p, i + k, FALSE, r, S)
    BY <1>4, <2>1, <2>2 DEF Skipped, ReaderAt
  <2> QED
    BY <2>3 DEF Reads
<1> QED
  BY <1>5, <1>6

LEMMA ReadHeadersReads ==
  ASSUME StdioTypes, ReaderInv, NEW p \in Procs, ReadHeaders(p)
  PROVE  Reads(p)
<1> DEFINE s == script[p]
           q == input[p]
           b == torn[p]
           i == pos[p]
           c == part[p]
           S == spoilt[p]
           h == handled[p]
           k == LineLength(p)
           r == IF q[i + 1].t = "blank" THEN "body" ELSE "headers"
<1>1. /\ q \in Seq(Tokens) /\ Len(q) \in Nat /\ i \in 0 .. Len(q) /\ S \in SUBSET Nat
      /\ rd[p] = "headers" /\ ReaderOK(s, q, b, i, c, "headers", S, h)
      /\ spoilt = [spoilt EXCEPT ![p] = S] /\ ~AtEnd(p)
  BY ReaderFacts DEF ReadHeaders, ReaderAt
<1>2. LineEnd(q, i, k) /\ k \in Nat /\ i < Len(q) /\ i + k \in Nat
  <2>1. LineEnd(q, i, k)
    BY <1>1, LineLengthFacts
  <2>2. k \in 1 .. Len(q) - i /\ i < Len(q)
    BY <1>1, <2>1 DEF LineEnd, AtEnd
  <2> QED
    BY <1>1, <2>1, <2>2
<1>3. Advance(p, i + k, FALSE, r, S)
  <2>1. /\ UNCHANGED clientVars /\ UNCHANGED spoilt
        /\ pos' = [pos EXCEPT ![p] = i + k] /\ part' = [part EXCEPT ![p] = FALSE]
        /\ rd' = [rd EXCEPT ![p] = r]
    BY DEF ReadHeaders, Consume, Head1
  <2> QED
    BY <1>1, <1>2, <2>1 DEF Advance
<1>4. UNCHANGED <<handled, replied, exit>> /\ UNCHANGED hostVars
  BY DEF ReadHeaders, Quiet
<1>5. ReaderOK(s, q, b, i + k, FALSE, r, S, h)
  BY <1>1, <1>2, HeadersGoOn
<1>6. Skipped(p, i + k, FALSE, r, S)
  BY <1>3, <1>4, <1>5 DEF Skipped, ReaderAt
<1> QED
  BY <1>6 DEF Reads

LEMMA ReadBodyReads ==
  ASSUME StdioTypes, ReaderInv, NEW p \in Procs, ReadBody(p)
  PROVE  Reads(p)
<1> DEFINE s == script[p]
           q == input[p]
           b == torn[p]
           i == pos[p]
           c == part[p]
           S == spoilt[p]
           h == handled[p]
           n == q[i].n
<1>1. /\ q \in Seq(Tokens) /\ Len(q) \in Nat /\ DOMAIN s = 1 .. Len(s) /\ S \in SUBSET Nat
      /\ rd[p] = "body" /\ ReaderOK(s, q, b, i, c, "body", S, h)
      /\ spoilt = [spoilt EXCEPT ![p] = S]
  BY ReaderFacts DEF ReadBody, ReaderAt
<1>2. /\ i \in 1 .. Len(q) /\ i \in Nat /\ n \in 1 .. Len(s) /\ ~c
      /\ i < Len(q) => q[i + 1].n = n /\ q[i + 1].t = "body"
  BY <1>1, BodyNext
<1>3. UNCHANGED clientVars
  BY DEF ReadBody
<1>4. CASE Fail(p) /\ UNCHANGED readerVars
  BY <1>3, <1>4, StaysReads DEF Fail
<1>5. ASSUME NEW e \in Extents(p, n),
             Consume(p, e.k, e.cut), rd' = [rd EXCEPT ![p] = "first"],
             \/ e = Own /\ HandleMessage(p, n) /\ UNCHANGED spoilt
             \/ /\ e # Own /\ Reject(p)
                /\ spoilt' = [spoilt EXCEPT ![p] = @ \cup Touched(p, e)]
      PROVE  Reads(p)
  <2>1. /\ e.k \in Nat /\ e.cut \in BOOLEAN /\ i + e.k <= Len(q) /\ i + e.k \in Nat
        /\ e.cut => i + e.k < Len(q)
    BY <1>1, <1>2, <1>5 DEF Extents
  <2>2. /\ s[n].framing \notin {"zero", "short", "long"} => e = Own /\ ~(b /\ i + 1 = Len(q))
        /\ s[n].framing \in {"zero", "short", "long"} => e # Own
    <3>1. CASE s[n].framing = "zero"
      BY <1>5, <3>1 DEF Extents, Framing, Own
    <3>2. CASE s[n].framing = "short"
      BY <1>5, <3>2 DEF Extents, Framing, Own
    <3>3. CASE s[n].framing = "long"
      BY <1>5, <3>3 DEF Extents, Framing
    <3>4. CASE s[n].framing \notin {"zero", "short", "long"}
      BY <1>5, <3>4 DEF Extents, Framing, Torn
    <3> QED
      BY <3>1, <3>2, <3>3, <3>4
  <2>3. CASE e = Own
    <3>1. HandleMessage(p, n) /\ UNCHANGED spoilt
      BY <1>5, <2>3
    <3>2. e.k = 1 /\ e.cut = FALSE
      BY <2>3 DEF Own
    <3>3. Advance(p, i + 1, FALSE, "first", S)
      BY <1>1, <1>3, <1>5, <2>1, <3>1, <3>2 DEF Advance, Consume
    <3>4. i < Len(q) /\ Closes(q[i + 1]) /\ q[i + 1].n = n /\ NextWhole(q, b, i, c)
      <4>1. i < Len(q)
        BY <1>1, <1>2, <2>1, <3>2
      <4> QED
        BY <1>2, <2>2, <2>3, <4>1 DEF Closes, NextWhole
    <3>5. /\ ReaderOK(s, q, b, i + 1, FALSE, "first", S, Append(h, n))
          /\ \A m \in Range(h) : m < n
      <4>1. /\ ReaderOK(s, q, b, i + 1, FALSE, "first", S, Append(h, q[i + 1].n))
            /\ \A m \in Range(h) : m < q[i + 1].n
        BY <1>1, <3>4, HandleOK
      <4>2. q[i + 1].n = n
        BY <3>4
      <4> HIDE DEF n
      <4> QED
        BY <4>1, <4>2
    <3>6. Took(p, i + 1, FALSE, "first", S, n)
      BY <1>2, <3>1, <3>3, <3>5 DEF Took, ReaderAt
    <3> QED
      BY <3>6 DEF Reads
  <2>4. CASE e # Own
    <3> DEFINE T == S \cup Touched(p, e)
    <3>1. Reject(p) /\ spoilt' = [spoilt EXCEPT ![p] = T]
      BY <1>5, <2>4
    <3>2. T = S \cup (i + 1 .. i + e.k + (IF e.cut THEN 1 ELSE 0)) /\ T \in SUBSET Nat
      BY <1>1, <1>2, <2>1 DEF Touched
    <3> HIDE DEF T
    <3>3. Advance(p, i + e.k, e.cut, "first", T)
      BY <1>3, <1>5, <2>1, <3>1, <3>2 DEF Advance, Consume
    <3>4. ReaderOK(s, q, b, i + e.k, e.cut, "first", T, h)
      BY <1>1, <2>1, <2>2, <2>4, <3>2, BodySkips
    <3>5. Skipped(p, i + e.k, e.cut, "first", T)
      BY <3>1, <3>3, <3>4 DEF Skipped, ReaderAt, Reject, Quiet
    <3> QED
      BY <3>5 DEF Reads
  <2> QED
    BY <2>3, <2>4
<1> QED
  BY <1>4, <1>5 DEF ReadBody

-----------------------------------------------------------------------------
(* The answers, as a relation between the messages h handled and those     *)
(* answered, a, where c is the value of pc and x that of exit.             *)

Asked(s, h) == {n \in Range(h) : s[n].kind \in {"call", "request"}}

AnswersOK(s, h, a, c, x) ==
  /\ \A m \in Range(h) : m <= Last(h)
  /\ Increasing(a)
  /\ Range(a) \subseteq Asked(s, h)
  /\ \A n \in Asked(s, h) \ Range(a) : ~(c = "idle" /\ x = "running") /\ n = Last(h)
  /\ c \notin {"idle", "dead"} => h # <<>> /\ Last(h) \in Asked(s, h) \ Range(a)

AnswersInv ==
  \A p \in Procs : AnswersOK(script[p], handled[p], replied[p], pc[p], exit[p])

LEMMA AnswersInvExact == AnswersInv => AnswersExact
<1>1. \A p \in Procs : Due(p) = Asked(script[p], handled[p])
  BY DEF Due, Asked
<1> QED
  BY <1>1 DEF AnswersInv, AnswersOK, AnswersExact, Increasing, Reading

\* A message is handled that is newer than all before it.
LEMMA AskedAppend ==
  ASSUME NEW s, NEW h \in Seq(Nat), NEW n \in Nat, \A m \in Range(h) : m < n
  PROVE  /\ Last(Append(h, n)) = n /\ Append(h, n) # <<>>
         /\ Range(Append(h, n)) = Range(h) \cup {n}
         /\ \A m \in Range(Append(h, n)) : m <= n
         /\ Asked(s, Append(h, n)) =
              IF s[n].kind \in {"call", "request"} THEN Asked(s, h) \cup {n} ELSE Asked(s, h)
         /\ n \notin Asked(s, h)
<1> DEFINE g == Append(h, n)
<1>1. /\ g \in Seq(Nat) /\ Len(g) = Len(h) + 1 /\ g[Len(h) + 1] = n /\ Len(h) \in Nat
      /\ Range(g) = Range(h) \cup {n}
  BY AppendFacts
<1>2. \A m \in Range(h) : m \in Nat
  BY DEF Range
<1>3. g # <<>>
  BY <1>1
<1> HIDE DEF g
<1>4. Last(g) = n
  BY <1>1 DEF Last
<1>5. \A m \in Range(g) : m <= n
  BY <1>1, <1>2
<1>6. Asked(s, g) = IF s[n].kind \in {"call", "request"} THEN Asked(s, h) \cup {n} ELSE Asked(s, h)
  BY <1>1 DEF Asked
<1>7. n \notin Asked(s, h)
  BY <1>2 DEF Asked
<1> QED
  BY <1>1, <1>3, <1>4, <1>5, <1>6, <1>7 DEF g

LEMMA SilentOK ==
  ASSUME NEW s, NEW h \in Seq(Nat), NEW a, AnswersOK(s, h, a, "idle", "running"),
         NEW n \in Nat, \A m \in Range(h) : m < n, s[n].kind \notin {"call", "request"}
  PROVE  AnswersOK(s, Append(h, n), a, "idle", "running")
BY AskedAppend DEF AnswersOK

LEMMA RequestOK ==
  ASSUME NEW s, NEW h \in Seq(Nat), NEW a \in Seq(Nat), AnswersOK(s, h, a, "idle", "running"),
         NEW n \in Nat, \A m \in Range(h) : m < n, s[n].kind \in {"call", "request"}
  PROVE  AnswersOK(s, Append(h, n), Append(a, n), "idle", "running")
<1>1. \A m \in Range(a) : m < n
  BY DEF AnswersOK, Asked
<1>2. Increasing(Append(a, n)) /\ Range(Append(a, n)) = Range(a) \cup {n}
  BY <1>1, IncreasingAppend, AppendFacts DEF AnswersOK
<1>3. /\ Last(Append(h, n)) = n /\ \A m \in Range(Append(h, n)) : m <= n
      /\ Asked(s, Append(h, n)) = Asked(s, h) \cup {n}
  BY AskedAppend
<1>4. Asked(s, h) \subseteq Range(a) /\ Range(a) \subseteq Asked(s, h)
  BY DEF AnswersOK
<1>5. Asked(s, Append(h, n)) = Range(Append(a, n))
  BY <1>2, <1>3, <1>4
<1> QED
  BY <1>2, <1>3, <1>5 DEF AnswersOK

\* A tool is called, or the answer cannot be written.
LEMMA PendingOK ==
  ASSUME NEW s, NEW h \in Seq(Nat), NEW a, AnswersOK(s, h, a, "idle", "running"),
         NEW n \in Nat, \A m \in Range(h) : m < n, s[n].kind \in {"call", "request"},
         NEW c, NEW x, ~(c = "idle" /\ x = "running")
  PROVE  AnswersOK(s, Append(h, n), a, c, x)
<1>1. Asked(s, h) \subseteq Range(a) /\ Range(a) \subseteq Asked(s, h) /\ Increasing(a)
  BY DEF AnswersOK
<1>2. Asked(s, Append(h, n)) = Asked(s, h) \cup {n} /\ n \notin Asked(s, h)
  BY AskedAppend
<1> QED
  BY <1>1, <1>2, AskedAppend DEF AnswersOK

LEMMA WrittenOK ==
  ASSUME NEW s, NEW h \in Seq(Nat), NEW a \in Seq(Nat), NEW x, AnswersOK(s, h, a, "answer", x)
  PROVE  /\ AnswersOK(s, h, Append(a, Last(h)), "idle", x)
         /\ Last(h) \in Nat
<1>1. h # <<>> /\ Last(h) \in Asked(s, h) \ Range(a)
  BY DEF AnswersOK
<1>2. Last(h) \in Nat /\ \A m \in Range(h) : m \in Nat
  BY <1>1 DEF Asked, Range
<1>3. \A m \in Range(a) : m < Last(h)
  <2> SUFFICES ASSUME NEW m \in Range(a) PROVE m < Last(h)
    OBVIOUS
  <2>1. m \in Range(h) /\ m <= Last(h) /\ m # Last(h)
    BY <1>1 DEF AnswersOK, Asked
  <2> QED
    BY <1>2, <2>1
<1>4. /\ Increasing(Append(a, Last(h)))
      /\ Range(Append(a, Last(h))) = Range(a) \cup {Last(h)}
  BY <1>2, <1>3, IncreasingAppend, AppendFacts DEF AnswersOK
<1> QED
  BY <1>1, <1>2, <1>4 DEF AnswersOK

LEMMA HandleEffects ==
  ASSUME StdioTypes, NEW p \in Procs, NEW n \in 1 .. Len(script[p]), HandleMessage(p, n)
  PROVE  /\ n \in Nat /\ script[p][n] \in Messages
         /\ handled' = [handled EXCEPT ![p] = Append(handled[p], n)]
         /\ \/ /\ script[p][n].kind \notin {"call", "request"}
               /\ UNCHANGED <<replied, exit>> /\ UNCHANGED hostVars
            \/ /\ script[p][n].kind \in {"call", "request"} /\ UNCHANGED hostVars
               /\ \/ replied' = [replied EXCEPT ![p] = Append(replied[p], n)] /\ exit' = exit
                  \/ replied' = replied /\ exit' = [exit EXCEPT ![p] = "error"]
            \/ /\ script[p][n].kind \in {"call", "request"} /\ UNCHANGED <<replied, exit>>
               /\ script[p][n].tool # "none"
               /\ CallTool(p, script[p][n].tool, script[p][n].arg)
<1> DEFINE m == script[p][n]
<1>1. m \in Messages /\ n \in Nat
  BY ElementOfSeq DEF StdioTypes
<1>2. m.kind \in {"call", "request"} <=> ~Silent(m)
  BY <1>1 DEF Silent, Messages, Kinds
<1> HIDE DEF m
<1>3. handled' = [handled EXCEPT ![p] = Append(handled[p], n)]
  BY DEF HandleMessage, Handled
<1>4. \/ Silent(m) /\ Quiet
      \/ ~Silent(m) /\ Reply(p, n) /\ UNCHANGED hostVars
      \/ ~Silent(m) /\ m.tool # "none" /\ CallTool(p, m.tool, m.arg) /\ UNCHANGED <<replied, exit>>
  BY DEF HandleMessage, m
<1>5. CASE Silent(m) /\ Quiet
  BY <1>1, <1>2, <1>3, <1>5 DEF Quiet, m
<1>6. CASE ~Silent(m) /\ Reply(p, n) /\ UNCHANGED hostVars
  BY <1>1, <1>2, <1>3, <1>6 DEF Reply, m
<1>7. CASE ~Silent(m) /\ m.tool # "none" /\ CallTool(p, m.tool, m.arg) /\ UNCHANGED <<replied, exit>>
  BY <1>1, <1>2, <1>3, <1>7 DEF m
<1> QED
  BY <1>4, <1>5, <1>6, <1>7

-----------------------------------------------------------------------------
(* The invariant of the transport.                                         *)

StdioInv == StdioTypes /\ ReaderInv /\ AnswersInv

\* A step of p, with what it leaves.
Becomes(p, i, c, r, S, h, a, x, at) ==
  /\ Advance(p, i, c, r, S)
  /\ h \in Seq(Nat) /\ a \in Seq(Nat) /\ x \in {"running", "ok", "error"}
  /\ handled' = [handled EXCEPT ![p] = h]
  /\ replied' = [replied EXCEPT ![p] = a] /\ exit' = [exit EXCEPT ![p] = x]
  /\ pc' = [pc EXCEPT ![p] = at]
  /\ ReaderAt(p, i, c, r, S, h) /\ (x = "ok" => i = Len(input[p]))
  /\ AnswersOK(script[p], h, a, at, x)

LEMMA OneDaemon ==
  ASSUME pc \in [Procs -> Steps \cup {"idle", "answer", "dead"}], StdioInv, NEW p \in Procs,
         NEW i, NEW c, NEW r, NEW S, NEW h, NEW a, NEW x, NEW at,
         Becomes(p, i, c, r, S, h, a, x, at)
  PROVE  StdioInv'
<1>1. StdioTypes /\ ReaderInv /\ AnswersInv
  BY DEF StdioInv
<1>2. /\ UNCHANGED <<script, input, torn>>
      /\ pos' = [pos EXCEPT ![p] = i] /\ part' = [part EXCEPT ![p] = c]
      /\ rd' = [rd EXCEPT ![p] = r] /\ spoilt' = [spoilt EXCEPT ![p] = S]
      /\ handled' = [handled EXCEPT ![p] = h]
      /\ replied' = [replied EXCEPT ![p] = a] /\ exit' = [exit EXCEPT ![p] = x]
      /\ pc' = [pc EXCEPT ![p] = at]
      /\ i \in Nat /\ c \in BOOLEAN /\ r \in {"first", "headers", "body"} /\ S \in SUBSET Nat
      /\ h \in Seq(Nat) /\ a \in Seq(Nat) /\ x \in {"running", "ok", "error"}
      /\ ReaderAt(p, i, c, r, S, h) /\ (x = "ok" => i = Len(input[p]))
      /\ AnswersOK(script[p], h, a, at, x)
  BY DEF Becomes, Advance, clientVars
<1>3. StdioTypes'
  BY <1>1, <1>2 DEF StdioTypes
<1>4. /\ pos'[p] = i /\ part'[p] = c /\ rd'[p] = r /\ spoilt'[p] = S /\ handled'[p] = h
      /\ replied'[p] = a /\ exit'[p] = x /\ pc'[p] = at
      /\ \A d \in Procs \ {p} :
           /\ pos'[d] = pos[d] /\ part'[d] = part[d] /\ rd'[d] = rd[d] /\ spoilt'[d] = spoilt[d]
           /\ handled'[d] = handled[d]
           /\ replied'[d] = replied[d] /\ exit'[d] = exit[d] /\ pc'[d] = pc[d]
  BY <1>1, <1>2 DEF StdioTypes
<1>5. ReaderInv'
  <2> SUFFICES ASSUME NEW d \in Procs
               PROVE  /\ ReaderAt(d, pos'[d], part'[d], rd'[d], spoilt'[d], handled'[d])
                      /\ exit'[d] = "ok" => pos'[d] = Len(input[d])
    BY <1>2 DEF ReaderInv, ReaderAt
  <2>1. CASE d = p
    BY <1>2, <1>4, <2>1
  <2>2. CASE d # p
    BY <1>1, <1>4, <2>2 DEF ReaderInv
  <2> QED
    BY <2>1, <2>2
<1>6. AnswersInv'
  <2> SUFFICES ASSUME NEW d \in Procs
               PROVE  AnswersOK(script[d], handled'[d], replied'[d], pc'[d], exit'[d])
    BY <1>2 DEF AnswersInv
  <2>1. CASE d = p
    BY <1>2, <1>4, <2>1
  <2>2. CASE d # p
    BY <1>1, <1>4, <2>2 DEF AnswersInv
  <2> QED
    BY <2>1, <2>2
<1> QED
  BY <1>3, <1>5, <1>6 DEF StdioInv

\* What a daemon has before a step.
LEMMA DaemonFacts ==
  ASSUME pc \in [Procs -> Steps \cup {"idle", "answer", "dead"}], StdioInv, NEW p \in Procs
  PROVE  /\ handled[p] \in Seq(Nat) /\ replied[p] \in Seq(Nat)
         /\ exit[p] \in {"running", "ok", "error"}
         /\ ReaderAt(p, pos[p], part[p], rd[p], spoilt[p], handled[p])
         /\ exit[p] = "ok" => pos[p] = Len(input[p])
         /\ AnswersOK(script[p], handled[p], replied[p], pc[p], exit[p])
         /\ handled = [handled EXCEPT ![p] = handled[p]]
         /\ replied = [replied EXCEPT ![p] = replied[p]] /\ exit = [exit EXCEPT ![p] = exit[p]]
         /\ pc = [pc EXCEPT ![p] = pc[p]]
         /\ UNCHANGED <<clientVars, readerVars>> => Advance(p, pos[p], part[p], rd[p], spoilt[p])
<1>1. StdioTypes /\ ReaderInv /\ AnswersInv
  BY DEF StdioInv
<1>2. /\ ReaderAt(p, pos[p], part[p], rd[p], spoilt[p], handled[p])
      /\ exit[p] = "ok" => pos[p] = Len(input[p])
      /\ AnswersOK(script[p], handled[p], replied[p], pc[p], exit[p])
  BY <1>1 DEF ReaderInv, AnswersInv
<1>3. UNCHANGED <<clientVars, readerVars>> => Advance(p, pos[p], part[p], rd[p], spoilt[p])
  <2> SUFFICES ASSUME UNCHANGED <<clientVars, readerVars>>
               PROVE  Advance(p, pos[p], part[p], rd[p], spoilt[p])
    OBVIOUS
  <2>1. UNCHANGED <<pos, part, rd, spoilt>>
    BY DEF readerVars
  <2> QED
    BY <1>1, <2>1, ReaderFacts DEF Advance
<1> QED
  BY <1>1, <1>2, <1>3 DEF StdioTypes

\* A call that works on an artifact goes on until it is answered.
LEMMA CaptureGoes ==
  ASSUME NEW p \in Procs, CaptureStep(p)
  PROVE  pc[p] \in Steps /\ \E c \in Steps \cup {"answer"} : pc' = [pc EXCEPT ![p] = c]
BY DEF CaptureStep, MakeDir, RestrictDir, CreateFile, Collide, Capture, Discard,
       RestrictFile, Hash, CaptureFails, Goto, Steps

LEMMA CallGoes ==
  ASSUME NEW p \in Procs, NEW tool, NEW arg, CallTool(p, tool, arg)
  PROVE  \E c \in {"make_config", "answer"} : pc' = [pc EXCEPT ![p] = c]
BY DEF CallTool, BeginCapture, RunTool, Refuse, Goto

LEMMA ReadsInv ==
  ASSUME pc \in [Procs -> Steps \cup {"idle", "answer", "dead"}], StdioInv, NEW p \in Procs,
         Reading(p), Reads(p)
  PROVE  StdioInv'
<1> DEFINE s == script[p]
           h == handled[p]
           a == replied[p]
<1>1. /\ StdioTypes /\ pc[p] = "idle" /\ exit[p] = "running"
      /\ h \in Seq(Nat) /\ a \in Seq(Nat)
      /\ AnswersOK(s, h, a, "idle", "running")
      /\ handled = [handled EXCEPT ![p] = h] /\ replied = [replied EXCEPT ![p] = a]
      /\ exit = [exit EXCEPT ![p] = "running"] /\ pc = [pc EXCEPT ![p] = "idle"]
  BY DaemonFacts DEF StdioInv, Reading
<1>2. ASSUME NEW i, NEW c, NEW r, NEW S, Skipped(p, i, c, r, S) PROVE StdioInv'
  <2>1. Advance(p, i, c, r, S) /\ ReaderAt(p, i, c, r, S, h)
    BY <1>2 DEF Skipped
  <2>2. /\ handled' = [handled EXCEPT ![p] = h] /\ replied' = [replied EXCEPT ![p] = a]
        /\ pc' = [pc EXCEPT ![p] = "idle"]
    BY <1>1, <1>2 DEF Skipped, hostVars
  <2>3. PICK x \in {"running", "ok", "error"} :
          exit' = [exit EXCEPT ![p] = x] /\ (x = "ok" => i = Len(input[p]))
    BY <1>1, <1>2 DEF Skipped
  <2>4. AnswersOK(s, h, a, "idle", x)
    BY <1>1 DEF AnswersOK
  <2>5. Becomes(p, i, c, r, S, h, a, x, "idle")
    BY <1>1, <2>1, <2>2, <2>3, <2>4 DEF Becomes
  <2> QED
    BY <2>5, OneDaemon
<1>3. ASSUME NEW i, NEW c, NEW r, NEW S, NEW n, Took(p, i, c, r, S, n) PROVE StdioInv'
  <2> DEFINE g == Append(h, n)
  <2>1. /\ Advance(p, i, c, r, S) /\ ReaderAt(p, i, c, r, S, g)
        /\ n \in 1 .. Len(s) /\ \A m \in Range(h) : m < n
        /\ HandleMessage(p, n)
    BY <1>3 DEF Took
  <2>2. /\ n \in Nat
        /\ handled' = [handled EXCEPT ![p] = g]
        /\ \/ /\ s[n].kind \notin {"call", "request"}
              /\ UNCHANGED <<replied, exit>> /\ UNCHANGED hostVars
           \/ /\ s[n].kind \in {"call", "request"} /\ UNCHANGED hostVars
              /\ \/ replied' = [replied EXCEPT ![p] = Append(a, n)] /\ exit' = exit
                 \/ replied' = replied /\ exit' = [exit EXCEPT ![p] = "error"]
           \/ /\ s[n].kind \in {"call", "request"} /\ UNCHANGED <<replied, exit>>
              /\ s[n].tool # "none"
              /\ CallTool(p, s[n].tool, s[n].arg)
    BY <1>1, <2>1, HandleEffects
  <2>3. g \in Seq(Nat) /\ Append(a, n) \in Seq(Nat)
    BY <1>1, <2>2, AppendFacts
  <2>4. ASSUME NEW b \in Seq(Nat), NEW x \in {"running", "error"}, NEW at,
               replied' = [replied EXCEPT ![p] = b], exit' = [exit EXCEPT ![p] = x],
               pc' = [pc EXCEPT ![p] = at], AnswersOK(s, g, b, at, x)
        PROVE  StdioInv'
    <3> HIDE DEF g
    <3>1. Becomes(p, i, c, r, S, g, b, x, at)
      BY <2>1, <2>2, <2>3, <2>4 DEF Becomes
    <3> QED
      BY <3>1, OneDaemon
  <2>5. CASE /\ s[n].kind \notin {"call", "request"}
             /\ UNCHANGED <<replied, exit>> /\ UNCHANGED hostVars
    <3>1. AnswersOK(s, g, a, "idle", "running")
      BY <1>1, <2>1, <2>2, <2>5, SilentOK
    <3>2. pc' = pc
      BY <2>5 DEF hostVars
    <3> HIDE DEF g
    <3> QED
      BY <1>1, <2>4, <2>5, <3>1, <3>2
  <2>6. CASE /\ s[n].kind \in {"call", "request"} /\ UNCHANGED hostVars
             /\ replied' = [replied EXCEPT ![p] = Append(a, n)] /\ exit' = exit
    <3>1. AnswersOK(s, g, Append(a, n), "idle", "running")
      BY <1>1, <2>1, <2>2, <2>6, RequestOK
    <3>2. pc' = pc
      BY <2>6 DEF hostVars
    <3> HIDE DEF g
    <3> QED
      BY <1>1, <2>3, <2>4, <2>6, <3>1, <3>2
  <2>7. CASE /\ s[n].kind \in {"call", "request"} /\ UNCHANGED hostVars
             /\ replied' = replied /\ exit' = [exit EXCEPT ![p] = "error"]
    <3>1. AnswersOK(s, g, a, "idle", "error")
      BY <1>1, <2>1, <2>2, <2>7, PendingOK
    <3>2. pc' = pc
      BY <2>7 DEF hostVars
    <3> HIDE DEF g
    <3> QED
      BY <1>1, <2>4, <2>7, <3>1, <3>2
  <2>8. CASE /\ s[n].kind \in {"call", "request"} /\ UNCHANGED <<replied, exit>>
             /\ CallTool(p, s[n].tool, s[n].arg)
    <3>1. PICK at \in {"make_config", "answer"} : pc' = [pc EXCEPT ![p] = at]
      BY <2>8, CallGoes
    <3>2. AnswersOK(s, g, a, at, "running")
      BY <1>1, <2>1, <2>2, <2>8, PendingOK
    <3> HIDE DEF g
    <3> QED
      BY <1>1, <2>4, <2>8, <3>1, <3>2
  <2> QED
    BY <2>2, <2>5, <2>6, <2>7, <2>8
<1> QED
  BY <1>2, <1>3 DEF Reads

LEMMA WriteInv ==
  ASSUME pc \in [Procs -> Steps \cup {"idle", "answer", "dead"}], StdioInv, NEW p \in Procs,
         WriteAnswer(p)
  PROVE  StdioInv'
<1> DEFINE h == handled[p]
           a == replied[p]
<1>1. /\ Advance(p, pos[p], part[p], rd[p], spoilt[p])
      /\ handled' = [handled EXCEPT ![p] = h]
      /\ pc[p] = "answer" /\ pc' = [pc EXCEPT ![p] = "idle"] /\ exit[p] = "running"
      /\ \/ replied' = [replied EXCEPT ![p] = Append(a, Last(h))] /\ exit' = exit
         \/ replied' = replied /\ exit' = [exit EXCEPT ![p] = "error"]
  BY DaemonFacts DEF WriteAnswer, Answer, Goto, Reply
<1>2. AnswersOK(script[p], h, a, "answer", "running") /\ h \in Seq(Nat) /\ a \in Seq(Nat)
  BY <1>1, DaemonFacts
<1>3. /\ AnswersOK(script[p], h, Append(a, Last(h)), "idle", "running")
      /\ Last(h) \in Nat /\ Append(a, Last(h)) \in Seq(Nat)
  BY <1>2, WrittenOK, AppendFacts
<1>4. CASE replied' = [replied EXCEPT ![p] = Append(a, Last(h))] /\ exit' = exit
  <2>1. Becomes(p, pos[p], part[p], rd[p], spoilt[p], h, Append(a, Last(h)), "running", "idle")
    BY <1>1, <1>2, <1>3, <1>4, DaemonFacts DEF Becomes
  <2> QED
    BY <2>1, OneDaemon
<1>5. CASE replied' = replied /\ exit' = [exit EXCEPT ![p] = "error"]
  <2>1. AnswersOK(script[p], h, a, "idle", "error")
    BY <1>2 DEF AnswersOK
  <2>2. Becomes(p, pos[p], part[p], rd[p], spoilt[p], h, a, "error", "idle")
    BY <1>1, <1>2, <1>5, <2>1, DaemonFacts DEF Becomes
  <2> QED
    BY <2>2, OneDaemon
<1> QED
  BY <1>1, <1>4, <1>5

LEMMA HostOnlyInv ==
  ASSUME pc \in [Procs -> Steps \cup {"idle", "answer", "dead"}], StdioInv, NEW p \in Procs,
         CaptureStep(p) \/ Die(p), UNCHANGED stdioVars
  PROVE  StdioInv'
<1>1. UNCHANGED <<clientVars, readerVars>> /\ UNCHANGED <<handled, replied, exit>>
  BY DEF stdioVars
<1>2. PICK c \in Steps \cup {"answer", "dead"} :
        pc' = [pc EXCEPT ![p] = c] /\ (c # "dead" => pc[p] \in Steps)
  BY CaptureGoes DEF Die
<1>3. AnswersOK(script[p], handled[p], replied[p], pc[p], exit[p])
  BY DaemonFacts
<1>4. AnswersOK(script[p], handled[p], replied[p], c, exit[p])
  BY <1>2, <1>3 DEF AnswersOK, Steps
<1>5. Becomes(p, pos[p], part[p], rd[p], spoilt[p], handled[p], replied[p], exit[p], c)
  BY <1>1, <1>2, <1>4, DaemonFacts DEF Becomes
<1> QED
  BY <1>5, OneDaemon

LEMMA NextStdio ==
  ASSUME pc \in [Procs -> Steps \cup {"idle", "answer", "dead"}], StdioInv, [Next]_vars
  PROVE  StdioInv'
<1>1. ASSUME NEW p \in Procs,
             ReadEnd(p) \/ ReadFirst(p) \/ ReadInvalid(p) \/ ReadHeaders(p) \/ ReadBody(p)
      PROVE  StdioInv'
  <2>1. Reading(p)
    BY <1>1 DEF ReadEnd, ReadFirst, ReadInvalid, ReadHeaders, ReadBody
  <2>2. Reads(p)
    BY <1>1, ReadEndReads, ReadFirstReads, ReadHeadersReads, ReadBodyReads DEF StdioInv
  <2> QED
    BY <2>1, <2>2, ReadsInv
<1>2. CASE UNCHANGED vars
  <2>1. /\ UNCHANGED <<script, input, torn, pos, part, rd, spoilt>>
        /\ UNCHANGED <<handled, replied, exit, pc>>
    BY <1>2 DEF vars, stdioVars, clientVars, readerVars, hostVars
  <2> QED
    BY <2>1 DEF StdioInv, StdioTypes, ReaderInv, ReaderAt, AnswersInv
<1> QED
  BY <1>1, <1>2, WriteInv, HostOnlyInv DEF Next

LEMMA InitStdio == Init => StdioInv
<1> SUFFICES ASSUME Init PROVE StdioInv
  OBVIOUS
<1>1. PICK start \in Starts :
        /\ script = [p \in Procs |-> start[p].script]
        /\ input = [p \in Procs |-> SubSeq(EncodeAll(start[p].script), 1, start[p].cut)]
        /\ torn = [p \in Procs |-> start[p].torn]
  BY DEF Init
<1>2. \A p \in Procs : /\ start[p].script \in Seq(Messages) /\ start[p].cut \in Nat
                       /\ start[p].cut <= Len(EncodeAll(start[p].script))
                       /\ start[p].torn \in BOOLEAN
  BY StdioAssumption
<1>3. \A p \in Procs : Framed(script[p], input[p]) /\ input[p] \in Seq(Tokens)
  <2> SUFFICES ASSUME NEW p \in Procs PROVE Framed(script[p], input[p]) /\ input[p] \in Seq(Tokens)
    OBVIOUS
  <2>1. Framed(start[p].script, SubSeq(EncodeAll(start[p].script), 1, start[p].cut))
    BY <1>2, InputFramed
  <2>2. Framed(script[p], input[p])
    BY <1>1, <2>1
  <2> QED
    BY <2>2 DEF Framed
<1>4. /\ pos = [p \in Procs |-> 0] /\ rd = [p \in Procs |-> "first"]
      /\ part = [p \in Procs |-> FALSE] /\ spoilt = [p \in Procs |-> {}]
      /\ handled = [p \in Procs |-> <<>>] /\ replied = [p \in Procs |-> <<>>]
      /\ exit = [p \in Procs |-> "running"] /\ pc = [p \in Procs |-> "idle"]
  BY DEF Init, HostInit
<1>5. StdioTypes
  <2>1. /\ script \in [Procs -> Seq(Messages)] /\ input \in [Procs -> Seq(Tokens)]
        /\ torn \in [Procs -> BOOLEAN]
    BY <1>1, <1>2, <1>3
  <2> QED
    BY <1>4, <2>1 DEF StdioTypes
<1>6. /\ <<>> \in Seq(Nat) /\ Range(<<>>) = {} /\ Increasing(<<>>)
      /\ 1 .. 0 = {}
  BY DEF Range, Increasing
<1>7. ReaderInv
  <2> SUFFICES ASSUME NEW p \in Procs
               PROVE  ReaderAt(p, 0, FALSE, "first", {}, <<>>) /\ exit[p] # "ok"
    BY <1>4 DEF ReaderInv
  <2>1. InPlace(script[p], input[p], 0, FALSE, "first", {})
    BY <1>3 DEF InPlace
  <2>2. Caught(script[p], input[p], torn[p], 0, {}, <<>>)
    BY <1>6 DEF Caught
  <2> QED
    BY <1>3, <1>4, <1>6, <2>1, <2>2 DEF ReaderAt, ReaderOK
<1>8. AnswersInv
  <2> SUFFICES ASSUME NEW p \in Procs PROVE AnswersOK(script[p], <<>>, <<>>, "idle", "running")
    BY <1>4 DEF AnswersInv
  <2> QED
    BY <1>6 DEF AnswersOK, Asked
<1> QED
  BY <1>5, <1>7, <1>8 DEF StdioInv

LEMMA StdioInvHolds == Spec => []StdioInv
<1>1. HostInv => pc \in [Procs -> Steps \cup {"idle", "answer", "dead"}]
  BY DEF HostInv, CaptureTypes
<1>2. HostInv /\ StdioInv /\ [Next]_vars => StdioInv'
  BY <1>1, NextStdio
<1> QED
  BY InitStdio, InvHolds, <1>2, PTL DEF Spec

\* Caught speaks of the tokens and messages of the properties.
LEMMA CaughtFacts ==
  ASSUME StdioInv, NEW p \in Procs
  PROVE  /\ Passed(p) = 1 .. pos[p]
         /\ Increasing(handled[p])
         /\ Caught(script[p], input[p], torn[p], pos[p], spoilt[p], handled[p])
         /\ \A i : Intact(p, i) <=> Good(input[p], torn[p], spoilt[p], i)
         /\ \A n : IsHandled(p, n) <=> n \in Range(handled[p])
<1>1. /\ ReaderAt(p, pos[p], part[p], rd[p], spoilt[p], handled[p])
      /\ exit[p] = "ok" => pos[p] = Len(input[p])
  BY DEF StdioInv, ReaderInv
<1>2. /\ Increasing(handled[p])
      /\ Caught(script[p], input[p], torn[p], pos[p], spoilt[p], handled[p])
  BY <1>1, ReaderParts DEF ReaderAt
<1>3. Passed(p) = 1 .. pos[p]
  BY <1>1 DEF Passed
<1>4. \A i : Intact(p, i) <=> Good(input[p], torn[p], spoilt[p], i)
  BY DEF Intact, Torn, Good, Closes
<1>5. \A n : IsHandled(p, n) <=> n \in Range(handled[p])
  BY DEF IsHandled, Range
<1> QED
  BY <1>2, <1>3, <1>4, <1>5

(* Whatever lengths a client states, and wherever its input ends, no       *)
(* message is handled twice or out of order, and none of which a byte was  *)
(* lost or counted to another.  With lengths that are right no message     *)
(* sent in full is lost.                                                   *)
THEOREM StdioExactHolds == Spec => []StdioExact
<1>1. StdioInv => StdioExact
  <2> SUFFICES ASSUME StdioInv, NEW p \in Procs
               PROVE  /\ \A i \in 2 .. Len(handled[p]) : handled[p][i - 1] < handled[p][i]
                      /\ \A n \in Range(handled[p]) :
                           \E i \in 1 .. pos[p] : Intact(p, i) /\ input[p][i].n = n
                      /\ (\A n \in DOMAIN script[p] : RightLength(p, n)) =>
                           \A i \in Passed(p) : Intact(p, i) => IsHandled(p, input[p][i].n)
    BY DEF StdioExact
  <2>1. (\A n \in DOMAIN script[p] : RightLength(p, n)) => RightLengths(script[p])
    BY DEF RightLength, RightLengths, Framing
  <2>2. \A n \in Range(handled[p]) : \E i \in 1 .. pos[p] : Intact(p, i) /\ input[p][i].n = n
    BY CaughtFacts DEF Caught
  <2>3. RightLengths(script[p]) =>
          \A i \in Passed(p) : Intact(p, i) => IsHandled(p, input[p][i].n)
    BY CaughtFacts DEF Caught
  <2> QED
    BY <2>1, <2>2, <2>3, CaughtFacts DEF Increasing
<1> QED
  BY StdioInvHolds, <1>1, PTL

(* A wrong length, however wrong, costs the messages whose bytes it counts *)
(* to its own and a line that sticks to what is left of a body.  Every     *)
(* other line the reader has passed is handled, after any number of wrong  *)
(* lengths, unless run_stdio has returned with an error.                   *)
THEOREM LinesResynchroniseHolds == Spec => []LinesResynchronise
<1>1. StdioInv => LinesResynchronise
  <2> SUFFICES ASSUME StdioInv, NEW p \in Procs, NEW i \in Passed(p),
                      Intact(p, i), input[p][i].t = "line",
                      i > 1 /\ input[p][i - 1].t = "body" => IsHandled(p, input[p][i - 1].n)
               PROVE  IsHandled(p, input[p][i].n)
    BY DEF LinesResynchronise
  <2>1. MustHandle(input[p], torn[p], spoilt[p], handled[p], i)
    BY CaughtFacts DEF MustHandle, Clear
  <2> QED
    BY <2>1, CaughtFacts DEF Caught
<1> QED
  BY StdioInvHolds, <1>1, PTL

(* Whatever the tools do and wherever the daemon ends, the answers are the *)
(* requests handled, each once and in order, but at most for the last one. *)
THEOREM AnswersExactHolds == Spec => []AnswersExact
<1>1. StdioInv => AnswersExact
  BY AnswersInvExact DEF StdioInv
<1> QED
  BY StdioInvHolds, <1>1, PTL

-----------------------------------------------------------------------------
(* Types.                                                                  *)

\* The rest of HostTypeOK, and that a call that may still try has tries left.
CallTypes ==
  /\ mode \in [Procs -> Modes]
  /\ call \in [Procs -> [tool : Registered, arg : Args] \cup {NoCall}]
  /\ tries \in [Procs -> 0 .. MaxTries]
  /\ \A p \in Procs : pc[p] \notin {"answer", "dead"} => tries[p] < MaxTries
  /\ changed \subseteq [proc : Procs, effect : {"command", "safe command", "process",
                                    "clipboard", "permissions", "desktop", "artifact", "nothing"}]

\* Only arguments that a script may hold reach the tools.
TypedHostStep ==
  \E p \in Procs :
    \/ \E tool : \E arg \in Args : CallTool(p, tool, arg)
    \/ CaptureStep(p) \/ Answer(p) \/ Die(p)

LEMMA TypedStep ==
  ASSUME pc \in [Procs -> Steps \cup {"idle", "answer", "dead"}], StdioInv, [Next]_vars
  PROVE  UNCHANGED hostVars \/ TypedHostStep
<1>1. ASSUME NEW p \in Procs,
             ReadEnd(p) \/ ReadFirst(p) \/ ReadInvalid(p) \/ ReadHeaders(p) \/ ReadBody(p)
      PROVE  UNCHANGED hostVars \/ TypedHostStep
  <2>1. StdioTypes /\ Reads(p)
    BY <1>1, ReadEndReads, ReadFirstReads, ReadHeadersReads, ReadBodyReads DEF StdioInv
  <2>2. PICK i, c, r, S : Skipped(p, i, c, r, S) \/ \E n : Took(p, i, c, r, S, n)
    BY <2>1 DEF Reads
  <2>3. CASE Skipped(p, i, c, r, S)
    BY <2>3 DEF Skipped
  <2>4. ASSUME NEW n, Took(p, i, c, r, S, n) PROVE UNCHANGED hostVars \/ TypedHostStep
    <3>1. n \in 1 .. Len(script[p]) /\ HandleMessage(p, n)
      BY <2>4 DEF Took
    <3>2. script[p][n] \in Messages
      BY <2>1, <3>1, HandleEffects
    <3>3. UNCHANGED hostVars \/ CallTool(p, script[p][n].tool, script[p][n].arg)
      BY <2>1, <3>1, HandleEffects
    <3> QED
      BY <3>2, <3>3 DEF Messages, TypedHostStep
  <2> QED
    BY <2>2, <2>3, <2>4
<1>2. ASSUME NEW p \in Procs, WriteAnswer(p) PROVE TypedHostStep
  BY <1>2 DEF WriteAnswer, TypedHostStep
<1>3. ASSUME NEW p \in Procs, CaptureStep(p) \/ Die(p) PROVE TypedHostStep
  BY <1>3 DEF TypedHostStep
<1> QED
  BY <1>1, <1>2, <1>3 DEF Next, vars

LEMMA NextCallTypes ==
  ASSUME CaptureTypes, CallTypes, UNCHANGED hostVars \/ TypedHostStep
  PROVE  CallTypes'
<1>1. /\ pc \in [Procs -> Steps \cup {"idle", "answer", "dead"}]
      /\ mode \in [Procs -> Modes]
      /\ call \in [Procs -> [tool : Registered, arg : Args] \cup {NoCall}]
      /\ tries \in [Procs -> 0 .. MaxTries] /\ MaxTries \in Nat \ {0}
      /\ \A p \in Procs : pc[p] \notin {"answer", "dead"} => tries[p] < MaxTries
  BY HostAssumption DEF CaptureTypes, CallTypes
<1>2. ASSUME NEW p \in Procs, NEW from, NEW to, from \notin {"answer", "dead"},
             Goto(p, from, to), UNCHANGED <<mode, call, tries, changed>>
      PROVE  CallTypes'
  BY <1>1, <1>2 DEF Goto, CallTypes
<1>3. ASSUME NEW p \in Procs, NEW to \in {"answer", "dead"}, pc' = [pc EXCEPT ![p] = to],
             UNCHANGED <<mode, call, tries, changed>>
      PROVE  CallTypes'
  BY <1>1, <1>3 DEF CallTypes
<1>4. ASSUME NEW p \in Procs, NEW tool, NEW arg \in Args, CallTool(p, tool, arg) PROVE CallTypes'
  <2>1. CASE BeginCapture(p, tool, arg)
    <3>1. tool \in Registered /\ Goto(p, "idle", "make_config") /\ UNCHANGED <<mode, tries, changed>>
          /\ call' = [call EXCEPT ![p] = [tool |-> tool, arg |-> arg]]
      BY <2>1 DEF BeginCapture, Registered
    <3>2. call' \in [Procs -> [tool : Registered, arg : Args] \cup {NoCall}]
      BY <1>1, <3>1
    <3> QED
      BY <1>1, <3>1, <3>2 DEF Goto, CallTypes
  <2>2. ASSUME NEW done \in BOOLEAN, RunTool(p, tool, arg, done) PROVE CallTypes'
    <3>1. Effect(mode[p], tool, arg) \in {"command", "safe command", "process",
                                    "clipboard", "permissions", "desktop", "artifact", "nothing"}
      BY DEF Effect
    <3>2. changed' \subseteq [proc : Procs, effect : {"command", "safe command", "process",
                                    "clipboard", "permissions", "desktop", "artifact", "nothing"}]
      <4> DEFINE new == [proc |-> p, effect |-> Effect(mode[p], tool, arg)]
      <4>1. new \in [proc : Procs, effect : {"command", "safe command", "process",
                                    "clipboard", "permissions", "desktop", "artifact", "nothing"}]
        BY <3>1
      <4>2. changed' = changed \/ changed' = changed \cup {new}
        BY <2>2 DEF RunTool
      <4> HIDE DEF new
      <4> QED
        BY <4>1, <4>2 DEF CallTypes
    <3> QED
      BY <1>1, <2>2, <3>2 DEF RunTool, Goto, CallTypes
  <2>3. CASE Refuse(p, tool, arg)
    BY <1>2, <2>3 DEF Refuse
  <2> QED
    BY <1>4, <2>1, <2>2, <2>3 DEF CallTool
<1>5. ASSUME NEW p \in Procs, CaptureStep(p) PROVE CallTypes'
  <2>1. CASE \E id \in Ids : Collide(p, id)
    <3>1. /\ pc[p] = "create" /\ tries' = [tries EXCEPT ![p] = tries[p] + 1]
          /\ pc' = [pc EXCEPT ![p] = IF tries[p] + 1 = MaxTries THEN "answer" ELSE "create"]
          /\ UNCHANGED <<mode, call, changed>>
      BY <2>1 DEF Collide, Goto
    <3>2. tries[p] < MaxTries /\ tries[p] \in Nat
      BY <1>1, <3>1
    <3>3. tries' \in [Procs -> 0 .. MaxTries]
      BY <1>1, <3>1, <3>2
    <3>4. ASSUME NEW d \in Procs, pc'[d] \notin {"answer", "dead"} PROVE tries'[d] < MaxTries
      BY <1>1, <3>1, <3>2, <3>4
    <3> QED
      BY <3>1, <3>3, <3>4 DEF CallTypes
  <2>2. CASE ~\E id \in Ids : Collide(p, id)
    <3>1. UNCHANGED <<mode, call, tries>>
      BY <1>5, <2>2 DEF CaptureStep, MakeDir, RestrictDir, CreateFile, Capture, Discard,
                        RestrictFile, Hash, CaptureFails
    <3>3. changed' \subseteq [proc : Procs, effect : {"command", "safe command", "process",
                                    "clipboard", "permissions", "desktop", "artifact", "nothing"}]
      <4> DEFINE new == [proc |-> p, effect |-> "artifact"]
      <4>1. new \in [proc : Procs, effect : {"command", "safe command", "process",
                                    "clipboard", "permissions", "desktop", "artifact", "nothing"}]
        OBVIOUS
      <4>2. changed' = changed \/ changed' = changed \cup {new}
        BY <1>5, CaptureChanges DEF ChangesArtifacts
      <4> HIDE DEF new
      <4> QED
        BY <4>1, <4>2 DEF CallTypes
    <3>2. pc[p] \in Steps /\ \E c \in Steps \cup {"answer"} : pc' = [pc EXCEPT ![p] = c]
      BY <1>5, CaptureGoes
    <3> QED
      BY <1>1, <3>1, <3>2, <3>3 DEF Steps, CallTypes
  <2> QED
    BY <2>1, <2>2
<1>6. ASSUME NEW p \in Procs, Answer(p) PROVE CallTypes'
  <2>1. /\ pc' = [pc EXCEPT ![p] = "idle"] /\ call' = [call EXCEPT ![p] = NoCall]
        /\ tries' = [tries EXCEPT ![p] = 0] /\ UNCHANGED <<mode, changed>>
    BY <1>6 DEF Answer, Goto
  <2>2. /\ call' \in [Procs -> [tool : Registered, arg : Args] \cup {NoCall}]
        /\ tries' \in [Procs -> 0 .. MaxTries]
    BY <1>1, <2>1
  <2>3. ASSUME NEW d \in Procs, pc'[d] \notin {"answer", "dead"} PROVE tries'[d] < MaxTries
    BY <1>1, <2>1, <2>3
  <2> QED
    BY <2>1, <2>2, <2>3 DEF CallTypes
<1>7. ASSUME NEW p \in Procs, Die(p) PROVE CallTypes'
  BY <1>3, <1>7 DEF Die
<1>8. CASE UNCHANGED hostVars
  BY <1>8 DEF hostVars, CallTypes
<1> QED
  BY <1>4, <1>5, <1>6, <1>7, <1>8 DEF TypedHostStep

(* What the daemons read, handle and answer, and the state of their calls  *)
(* and of the artifact files, has its type: the reader never runs past the *)
(* end of its input, and no artifact is tried more than MaxTries times.    *)
THEOREM TypeCorrect == Spec => []TypeOK
<1>1. Init => CallTypes
  BY HostAssumption DEF Init, HostInit, CallTypes
<1>2. HostInv /\ StdioInv /\ CallTypes /\ [Next]_vars => CallTypes'
  BY TypedStep, NextCallTypes DEF HostInv, CaptureTypes
<1>3. HostInv /\ StdioInv /\ CallTypes => TypeOK
  <2> SUFFICES ASSUME HostInv, StdioInv, CallTypes PROVE TypeOK
    OBVIOUS
  <2>1. HostTypeOK
    BY DEF HostInv, CaptureTypes, CallTypes, HostTypeOK
  <2>2. StdioTypes /\ \A p \in Procs : pos[p] <= Len(input[p]) /\ (part[p] => ~AtEnd(p))
    <3>1. StdioTypes /\ ReaderInv
      BY DEF StdioInv
    <3>2. ASSUME NEW p \in Procs PROVE pos[p] <= Len(input[p]) /\ (part[p] => ~AtEnd(p))
      <4>1. /\ pos[p] \in 0 .. Len(input[p]) /\ Len(input[p]) \in Nat
            /\ ReaderAt(p, pos[p], part[p], rd[p], spoilt[p], handled[p])
        BY <3>1, ReaderFacts
      <4> QED
        BY <4>1 DEF ReaderAt, ReaderOK, InPlace, AtEnd
    <3> QED
      BY <3>1, <3>2
  <2> QED
    BY <2>1, <2>2 DEF StdioTypes, TypeOK
<1> QED
  BY InvHolds, StdioInvHolds, <1>1, <1>2, <1>3, PTL DEF Spec

=============================================================================
