------------------------- MODULE SyncContextProofs -------------------------
(***************************************************************************)
(* Proofs about SyncContext for every number of runs, inodes, glossaries,  *)
(* texts and modes, and for both answers of the platform constants.        *)
(***************************************************************************)
EXTENDS SyncContext, TLAPS

\* A run that is inside read_regular_target holds the inodes it looked at, and
\* how far its temporary is follows from where the run is.
Holds(p) ==
  /\ pc[p] \in {"name", "open", "lstat2", "read"} => run[p].info \in Inodes
  /\ Open(p) => run[p].fd \in Inodes
  /\ pc[p] \in {"idle", "ended"} => temp[p] \in {"none", "leaked"}
  /\ pc[p] \in {"lstat", "name", "open", "lstat2", "read"} =>
       temp[p] \in {"none", "complete"}
  /\ pc[p] = "mkstemp" => temp[p] = "none"
  /\ pc[p] = "fill" => temp[p] = "partial"
  /\ pc[p] = "replace" => Rechecking(p)

\* What a recheck has established so far, unless somebody changed the target
\* behind it: first the name, then the mode, then the entry, then everything.
Looked(p) ==
  Rechecking(p) /\ p \notin late =>
    /\ pc[p] \in {"open", "lstat2", "read"} => spelled
    /\ Open(p) => files[run[p].fd].mode = run[p].fdMode
    /\ pc[p] = "read" => entry = run[p].fd /\ files[entry].kind = "file"
    /\ pc[p] = "replace" => TargetAsRead(p)

\* The inductive invariant.
IInv == TypeOK /\ \A p \in Procs : Holds(p) /\ Looked(p)

(***************************************************************************)
(* The values the actions build have their types.                          *)
(***************************************************************************)
\* A run starts with well-typed locals.
LEMMA BlankType == ASSUME NEW g \in Glossaries PROVE Blank(g) \in Run
  BY BlockAssumption DEF Blank, Run, Outcomes

\* Closing the descriptor keeps the locals well-typed.
LEMMA ClosedType == ASSUME NEW r \in Run PROVE Closed(r) \in Run
  BY BlockAssumption DEF Closed, Run

\* What a run writes is something a file can hold.
LEMMA SplicedType ==
  ASSUME NEW c \in Contents \cup {None}, NEW g \in Glossaries
  PROVE  Spliced(c, g) \in Contents
  <1>1. (IF c = None THEN Empty ELSE c.outside) \in Outsides
    BY BlockAssumption DEF Contents
  <1>2. g # None
    BY BlockAssumption
  <1> QED
    BY <1>1, <1>2, BlockAssumption DEF Spliced, Contents, WellFormed

\* A successful run reports one of the named outcomes.
LEMMA OutcomeType ==
  ASSUME NEW c, NEW g PROVE OutcomeOf(c, g) \in Outcomes
  BY DEF OutcomeOf, Outcomes

\* The content of a foreign file is something a file can hold.
LEMMA ForeignType == ForeignContent \in Contents
  BY BlockAssumption DEF ForeignContent, Contents, WellFormed

(***************************************************************************)
(* The initial states.                                                     *)
(***************************************************************************)
\* The inductive invariant holds initially.
LEMMA InitIInv == Init => IInv
  <1> SUFFICES ASSUME Init PROVE IInv
    OBVIOUS
  <1>1. files \in [Inodes -> File]
    BY ForeignType, BlockAssumption DEF Init, File
  <1>2. run \in [Procs -> Run]
    BY BlankType DEF Init
  <1>3. TypeOK
    BY <1>1, <1>2 DEF Init, TypeOK, Locations
  <1>4. \A p \in Procs : Holds(p) /\ Looked(p)
    BY DEF Init, Holds, Looked, Open, Rechecking
  <1> QED
    BY <1>3, <1>4 DEF IInv

(***************************************************************************)
(* The environment.                                                        *)
(***************************************************************************)
\* Editors and saves keep the types.
LEMMA EnvironmentType == ASSUME TypeOK, Environment PROVE TypeOK'
  <1>1. ASSUME NEW g \in Glossaries, SaveGlossary(g) PROVE TypeOK'
    BY <1>1 DEF SaveGlossary, TypeOK
  <1>2. ASSUME NEW c \in Contents, RewriteInPlace(c) PROVE TypeOK'
    <2>1. files' \in [Inodes -> File]
      BY <1>2 DEF RewriteInPlace, TypeOK, File
    <2> QED
      BY <1>2, <2>1 DEF RewriteInPlace, TypeOK, AfterBytesCheck, Passed
  <1>3. ASSUME NEW m \in Modes, ChangeMode(m) PROVE TypeOK'
    <2>1. files' \in [Inodes -> File]
      BY <1>3 DEF ChangeMode, TypeOK, File
    <2> QED
      BY <1>3, <2>1 DEF ChangeMode, TypeOK, AfterModeCheck, Passed
  <1>4. ASSUME NEW f \in File, NEW exact \in BOOLEAN, PutFile(f, exact) PROVE TypeOK'
    <2> PICK i \in Free : entry' = i /\ files' = [files EXCEPT ![i] = f]
      BY <1>4 DEF PutFile
    <2>1. i \in Inodes
      BY DEF Free
    <2>2. late' \subseteq Procs
      BY <1>4 DEF PutFile, TypeOK, AfterEntryCheck, AfterNameCheck, Passed
    <2> QED
      BY <1>4, <2>1, <2>2 DEF PutFile, TypeOK
  <1>5. ASSUME RemoveTarget PROVE TypeOK'
    BY <1>5 DEF RemoveTarget, TypeOK, AfterEntryCheck, Passed
  <1>6. ASSUME Respell PROVE TypeOK'
    BY <1>6 DEF Respell, TypeOK, AfterNameCheck, Passed
  <1> QED
    BY <1>1, <1>2, <1>3, <1>4, <1>5, <1>6 DEF Environment

\* A change of the target outside a run leaves what the run knows intact, or
\* the run is late.
LEMMA EnvironmentLooked ==
  ASSUME IInv, Environment, NEW p \in Procs PROVE (Holds(p) /\ Looked(p))'
  <1> USE DEF IInv
  <1>0. Holds(p)'
    BY DEF Environment, SaveGlossary, RewriteInPlace, ChangeMode, PutFile,
           RemoveTarget, Respell, Holds, Open, Rechecking
  <1>1. ASSUME NEW g \in Glossaries, SaveGlossary(g) PROVE Looked(p)'
    BY <1>1 DEF SaveGlossary, Looked, Rechecking, Open, TargetAsRead
  <1>2. ASSUME NEW c \in Contents, RewriteInPlace(c) PROVE Looked(p)'
    BY <1>2 DEF RewriteInPlace, Looked, Rechecking, Open, AfterBytesCheck,
                Passed, Holds, TypeOK
  <1>3. ASSUME NEW m \in Modes, ChangeMode(m) PROVE Looked(p)'
    BY <1>3 DEF ChangeMode, Looked, Rechecking, Open, AfterModeCheck, Passed,
                Holds, TypeOK
  <1>4. ASSUME NEW f \in File, NEW exact \in BOOLEAN, PutFile(f, exact)
        PROVE  Looked(p)'
    <2> PICK i \in Free : entry' = i /\ files' = [files EXCEPT ![i] = f]
      BY <1>4 DEF PutFile
    <2>1. i \in Inodes /\ (Open(p) => i # run[p].fd)
      BY DEF Free
    <2> QED
      BY <1>4, <2>1 DEF PutFile, Looked, Rechecking, Open, AfterEntryCheck,
                        AfterNameCheck, Passed, Holds, TypeOK
  <1>5. ASSUME RemoveTarget PROVE Looked(p)'
    BY <1>5 DEF RemoveTarget, Looked, Rechecking, Open, AfterEntryCheck, Passed
  <1>6. ASSUME Respell PROVE Looked(p)'
    BY <1>6 DEF Respell, Looked, Rechecking, Open, AfterNameCheck, Passed,
                TargetAsRead, TypeOK
  <1> QED
    BY <1>0, <1>1, <1>2, <1>3, <1>4, <1>5, <1>6 DEF Environment

(***************************************************************************)
(* The steps of a run: its own types.                                      *)
(***************************************************************************)
\* Refusing keeps the types.
LEMMA RefuseType == ASSUME TypeOK, NEW p \in Procs, Refuse(p) PROVE TypeOK'
  <1>1. [Blank(run[p].loaded) EXCEPT !.outcome = "refused"] \in Run
    BY BlankType DEF TypeOK, Run, Blank, Outcomes
  <1> QED
    BY <1>1 DEF Refuse, TypeOK, shared, Locations

\* A satisfied recheck keeps the types.
LEMMA ReadyType == ASSUME TypeOK, NEW p \in Procs, Ready(p) PROVE TypeOK'
  <1>1. Closed(run[p]) \in Run
    BY ClosedType DEF TypeOK
  <1> QED
    BY <1>1 DEF Ready, Go, TypeOK, shared, Locations

\* Planning keeps the types.
LEMMA PlanType ==
  ASSUME TypeOK, NEW p \in Procs, NEW c \in Contents \cup {None},
         NEW i \in Inodes \cup {None}, NEW m \in Modes, Plan(p, c, i, m)
  PROVE  TypeOK'
  <1> DEFINE g == run[p].loaded
  <1>1. CASE Refuses(c, g, run[p].force)
    BY <1>1, RefuseType DEF Plan
  <1>2. CASE ~Refuses(c, g, run[p].force) /\ StatusOf(c, g) = "current"
    <2>1. [Blank(g) EXCEPT !.outcome = "current"] \in Run
      BY BlankType DEF TypeOK, Run, Blank, Outcomes
    <2> QED
      BY <1>2, <2>1 DEF Plan, Go, TypeOK, shared, Locations
  <1>3. CASE ~Refuses(c, g, run[p].force) /\ StatusOf(c, g) # "current"
    <2>1. Closed(run[p]) \in Run
      BY ClosedType DEF TypeOK
    <2>2. [Closed(run[p]) EXCEPT !.base = c, !.baseInode = i, !.baseMode = m] \in Run
      BY <2>1 DEF Run
    <2> QED
      BY <1>3, <2>2 DEF Plan, Go, TypeOK, shared, Locations
  <1> QED
    BY <1>1, <1>2, <1>3

\* Using the answer of a read keeps the types.
LEMMA GotType ==
  ASSUME TypeOK, NEW p \in Procs, NEW c \in Contents \cup {None},
         NEW i \in Inodes \cup {None}, NEW m \in Modes, Got(p, c, i, m)
  PROVE  TypeOK'
  BY PlanType, RefuseType, ReadyType DEF Got, Recheck

\* Every step of a run keeps the types.
LEMMA RunType ==
  ASSUME IInv, NEW p \in Procs, Begin(p) \/ Step(p) \/ Crash(p) PROVE TypeOK'
  <1> USE DEF IInv
  <1>1. ASSUME NEW force \in BOOLEAN, Start(p, force) PROVE TypeOK'
    <2>1. [Blank(glossary) EXCEPT !.force = force] \in Run
      BY BlankType DEF TypeOK, Run, Blank
    <2> QED
      BY <1>1, <2>1 DEF Start, Go, TypeOK, shared, Locations
  <1>2. CASE Lstat(p)
    <2>1. CASE entry = None
      BY <1>2, <2>1, GotType, BlockAssumption DEF Lstat
    <2>2. CASE entry # None /\ Refuse(p)
      BY <2>2, RefuseType
    <2>3. CASE /\ entry # None
               /\ run' = [run EXCEPT ![p].info = entry]
               /\ Go(p, "name")
               /\ UNCHANGED <<shared, temp, late>>
      <3>1. run' \in [Procs -> Run]
        BY <2>3, SMTT(30) DEF TypeOK, Run
      <3> QED
        BY <2>3, <3>1 DEF Go, TypeOK, shared, Locations
    <2> QED
      BY <1>2, <2>1, <2>2, <2>3 DEF Lstat
  <1>3. CASE NameConfirmed(p)
    BY <1>3 DEF NameConfirmed, Go, TypeOK, shared, Locations
  <1>4. CASE NameUnconfirmed(p) \/ SystemError(p)
    BY <1>4, RefuseType DEF NameUnconfirmed, SystemError
  <1>5. CASE OpenTarget(p)
    <2> DEFINE i == IF files[entry].kind = "link" THEN Elsewhere ELSE entry
    <2>1. CASE entry # None /\ ~Refuse(p)
      <3>1. i \in Inodes /\ files[i].mode \in Modes
        BY <2>1, SyncAssumption DEF TypeOK, File
      <3>2. run' = [run EXCEPT ![p] = [run[p] EXCEPT !.fd = i, !.fdMode = files[i].mode]]
        BY <1>5, <2>1 DEF OpenTarget
      <3>3. [run[p] EXCEPT !.fd = i, !.fdMode = files[i].mode] \in Run
        BY <3>1, ZenonT(30) DEF TypeOK, Run
      <3> QED
        BY <1>5, <2>1, <3>2, <3>3 DEF OpenTarget, Go, TypeOK, shared, Locations
    <2> QED
      BY <1>5, <2>1, RefuseType DEF OpenTarget
  <1>6. CASE LstatAgain(p)
    <2>1. CASE Refuse(p)
      BY <2>1, RefuseType
    <2> QED
      BY <1>6, <2>1 DEF LstatAgain, Go, TypeOK, shared, Locations
  <1>7. CASE ReadBytes(p)
    <2>1. run[p].fd \in Inodes
      BY <1>7 DEF ReadBytes, Holds, Open, Rechecking
    <2>2. files[run[p].fd].content \in Contents /\ run[p].fdMode \in Modes
      BY <2>1 DEF TypeOK, File, Run
    <2> QED
      BY <1>7, <2>1, <2>2, GotType, RefuseType DEF ReadBytes
  <1>8. CASE MakeTemporary(p)
    BY <1>8 DEF MakeTemporary, Go, TypeOK, shared, Locations
  <1>9. CASE FillTemporary(p)
    BY <1>9 DEF FillTemporary, Go, TypeOK, shared, Locations
  <1>10. CASE Replace(p)
    <2> DEFINE r == run[p]
               new == [kind |-> "file", content |-> Spliced(r.base, r.loaded),
                       mode |-> r.baseMode]
    <2>1. r.base \in Contents \cup {None} /\ r.loaded \in Glossaries
            /\ r.baseMode \in Modes
      BY DEF TypeOK, Run
    <2>2. new \in File
      BY <2>1, SplicedType, BlockAssumption DEF File
    <2>3. PICK i \in Free : entry' = i /\ files' = [files EXCEPT ![i] = new]
      BY <1>10 DEF Replace
    <2>4. i \in Inodes
      BY DEF Free
    <2>5. [Blank(r.loaded) EXCEPT !.outcome = OutcomeOf(r.base, r.loaded)] \in Run
      BY <2>1, BlankType, OutcomeType DEF Run, Blank
    <2>6. run' \in [Procs -> Run]
      BY <1>10, <2>5 DEF Replace, TypeOK
    <2>7. late' \subseteq Procs
      BY <1>10 DEF Replace, TypeOK, AfterEntryCheck, Passed
    <2>8. spelled' \in BOOLEAN /\ glossary' = glossary
      BY <1>10 DEF Replace, TypeOK
    <2>9. entry' \in Inodes /\ files' \in [Inodes -> File]
      BY <2>2, <2>3, <2>4 DEF TypeOK
    <2>10. /\ pc' \in [Procs -> Locations]
           /\ temp' \in [Procs -> {"none", "partial", "complete", "leaked"}]
      BY <1>10 DEF Replace, Go, TypeOK, Locations
    <2> QED
      BY <2>6, <2>7, <2>8, <2>9, <2>10 DEF TypeOK
  <1>11. CASE Cleanup(p)
    BY <1>11 DEF Cleanup, Go, TypeOK, shared, Locations
  <1>12. CASE Crash(p)
    <2>1. Blank(run[p].loaded) \in Run
      BY BlankType DEF TypeOK, Run
    <2> QED
      BY <1>12, <2>1 DEF Crash, Go, TypeOK, shared, Locations
  <1> QED
    BY <1>1, <1>2, <1>3, <1>4, <1>5, <1>6, <1>7, <1>8, <1>9, <1>10, <1>11,
       <1>12, SyncAssumption DEF Begin, Step

(***************************************************************************)
(* The steps of a run: what it and the others have looked at.              *)
(***************************************************************************)
\* A step of p that leaves the target alone leaves the other runs as they were.
LEMMA OthersLooked ==
  ASSUME IInv, NEW p \in Procs, NEW q \in Procs, q # p,
         pc'[q] = pc[q], run'[q] = run[q], temp'[q] = temp[q],
         q \in late => q \in late',
         entry' = entry, spelled' = spelled, files' = files
  PROVE  (Holds(q) /\ Looked(q))'
  BY DEF IInv, Holds, Looked, Open, Rechecking, TargetAsRead

\* Refusing keeps what the runs know about the target.
LEMMA RefuseLooked ==
  ASSUME IInv, NEW p \in Procs, Refuse(p)
  PROVE  \A q \in Procs : (Holds(q) /\ Looked(q))'
  <1>1. (Holds(p) /\ Looked(p))'
    BY DEF IInv, TypeOK, Refuse, Holds, Looked, Open, Rechecking, shared
  <1>2. \A q \in Procs : q # p => (Holds(q) /\ Looked(q))'
    BY OthersLooked DEF IInv, TypeOK, Refuse, shared
  <1> QED
    BY <1>1, <1>2

\* Planning keeps what the runs know about the target.
LEMMA PlanLooked ==
  ASSUME IInv, NEW p \in Procs, NEW c, NEW i, NEW m,
         pc[p] \in {"lstat", "read"}, ~Rechecking(p), Plan(p, c, i, m)
  PROVE  \A q \in Procs : (Holds(q) /\ Looked(q))'
  <1>1. CASE Refuse(p)
    BY <1>1, RefuseLooked
  <1>2. CASE /\ UNCHANGED <<shared, temp, late>>
             /\ \/ Go(p, "ended")
                \/ Go(p, "mkstemp")
             /\ \E r : run' = [run EXCEPT ![p] = r]
    <2>1. (Holds(p) /\ Looked(p))'
      BY <1>2 DEF IInv, TypeOK, Go, Holds, Looked, Open, Rechecking, shared
    <2>2. \A q \in Procs : q # p => (Holds(q) /\ Looked(q))'
      BY <1>2, OthersLooked DEF IInv, TypeOK, Go, shared
    <2> QED
      BY <2>1, <2>2
  <1> QED
    BY <1>1, <1>2 DEF Plan

\* The heart of the matter: what read_regular_target returned to the recheck
\* is the first read's answer, and the target is still that.
LEMMA RecheckLooked ==
  ASSUME IInv, NEW p \in Procs, NEW c, NEW i, NEW m,
         Rechecking(p), Recheck(p, c, i, m),
         run[p].base # None =>
           /\ entry # None
           /\ p \notin late =>
                /\ spelled /\ entry = i
                /\ files[entry] = [kind |-> "file", content |-> c, mode |-> m],
         run[p].base = None /\ c = None => entry = None
  PROVE  \A q \in Procs : (Holds(q) /\ Looked(q))'
  <1>1. CASE Refuse(p)
    BY <1>1, RefuseLooked
  <1>2. CASE /\ Ready(p) /\ c = run[p].base /\ i = run[p].baseInode
             /\ run[p].base # None => m = run[p].baseMode
    <2>1. run'[p] = Closed(run[p])
      BY <1>2 DEF Ready, IInv, TypeOK
    <2>2. /\ run'[p].base = run[p].base /\ run'[p].baseInode = run[p].baseInode
          /\ run'[p].baseMode = run[p].baseMode /\ run'[p].baseInode = run[p].baseInode
      BY <2>1 DEF Closed, IInv, TypeOK, Run
    <2>3. /\ pc'[p] = "replace" /\ temp'[p] = temp[p] /\ late' = late
          /\ UNCHANGED <<entry, spelled, files>>
      BY <1>2 DEF Ready, Go, IInv, TypeOK, shared
    <2>4. p \notin late => TargetAsRead(p)
      BY <1>2 DEF TargetAsRead
    <2>5. TargetAsRead(p) => TargetAsRead(p)'
      BY <2>2, <2>3 DEF TargetAsRead
    <2>6. (Holds(p) /\ Looked(p))'
      BY <2>3, <2>4, <2>5 DEF Holds, Looked, Open, Rechecking
    <2>7. \A q \in Procs : q # p => (Holds(q) /\ Looked(q))'
      BY <1>2, OthersLooked DEF Ready, Go, IInv, TypeOK, shared
    <2> QED
      BY <2>6, <2>7
  <1> QED
    BY <1>1, <1>2 DEF Recheck

\* Every step of a run keeps what all runs know about the target.
LEMMA RunLooked ==
  ASSUME IInv, NEW p \in Procs, Begin(p) \/ Step(p) \/ Crash(p)
  PROVE  \A q \in Procs : (Holds(q) /\ Looked(q))'
  <1> USE DEF IInv
  \* Steps that change neither the target nor what the others hold.
  <1> DEFINE Local == /\ \A q \in Procs : q # p =>
                            /\ pc'[q] = pc[q] /\ run'[q] = run[q]
                            /\ temp'[q] = temp[q] /\ (q \in late => q \in late')
                      /\ UNCHANGED <<entry, spelled, files>>
  <1>0. Local /\ (Holds(p) /\ Looked(p))' => \A q \in Procs : (Holds(q) /\ Looked(q))'
    BY OthersLooked
  <1>1. ASSUME NEW force \in BOOLEAN, Start(p, force)
        PROVE  \A q \in Procs : (Holds(q) /\ Looked(q))'
    <2>1. (Holds(p) /\ Looked(p))'
      BY <1>1 DEF Start, Go, TypeOK, Holds, Looked, Open, Rechecking, shared
    <2>2. Local
      BY <1>1 DEF Start, Go, TypeOK, shared
    <2> QED
      BY <1>0, <2>1, <2>2
  <1>2. CASE Lstat(p)
    <2>1. CASE entry = None
      <3>1. Got(p, None, None, DefaultMode)
        BY <1>2, <2>1 DEF Lstat
      <3>2. CASE Rechecking(p) /\ run[p].base = None
        BY <2>1, <3>1, <3>2, RecheckLooked DEF Got
      <3>3. CASE Rechecking(p) /\ run[p].base # None
        BY <3>1, <3>3, RefuseLooked DEF Got, Recheck
      <3>4. CASE ~Rechecking(p)
        BY <1>2, <3>1, <3>4, PlanLooked DEF Got, Lstat
      <3> QED
        BY <3>2, <3>3, <3>4
    <2>2. CASE entry # None /\ Refuse(p)
      BY <2>2, RefuseLooked
    <2>3. CASE /\ entry # None
               /\ run' = [run EXCEPT ![p].info = entry]
               /\ Go(p, "name")
               /\ UNCHANGED <<shared, temp, late>>
      <3>1. run'[p].info \in Inodes /\ pc'[p] = "name"
        BY <2>3 DEF TypeOK, Run, Go
      <3>2. (Holds(p) /\ Looked(p))'
        BY <1>2, <2>3, <3>1 DEF Lstat, shared, Holds, Looked, Open, Rechecking
      <3>3. Local
        BY <2>3 DEF Go, TypeOK, shared
      <3> QED
        BY <1>0, <3>2, <3>3
    <2> QED
      BY <1>2, <2>1, <2>2, <2>3 DEF Lstat
  <1>3. CASE NameConfirmed(p)
    <2>1. (Holds(p) /\ Looked(p))'
      BY <1>3 DEF NameConfirmed, Go, TypeOK, Holds, Looked, Open, Rechecking, shared
    <2>2. Local
      BY <1>3 DEF NameConfirmed, Go, TypeOK, shared
    <2> QED
      BY <1>0, <2>1, <2>2
  <1>4. CASE NameUnconfirmed(p) \/ SystemError(p)
    BY <1>4, RefuseLooked DEF NameUnconfirmed, SystemError
  <1>5. CASE OpenTarget(p)
    <2>1. CASE Refuse(p)
      BY <2>1, RefuseLooked
    <2>2. CASE ~Refuse(p)
      <3> DEFINE i == IF files[entry].kind = "link" THEN Elsewhere ELSE entry
      <3>1. /\ entry # None
            /\ run' = [run EXCEPT ![p] = [run[p] EXCEPT !.fd = i, !.fdMode = files[i].mode]]
            /\ Go(p, "lstat2") /\ UNCHANGED <<shared, temp, late>>
        BY <1>5, <2>2 DEF OpenTarget
      <3>2. i \in Inodes
        BY <3>1, SyncAssumption DEF TypeOK
      <3>3. /\ run'[p].fd = i /\ run'[p].fdMode = files[i].mode
            /\ run'[p].info = run[p].info
        BY <3>1 DEF TypeOK, Run
      <3>4. pc[p] = "open" /\ pc'[p] = "lstat2"
        BY <1>5, <3>1 DEF OpenTarget, Go, TypeOK
      <3>5. (Holds(p) /\ Looked(p))'
        BY <3>1, <3>2, <3>3, <3>4 DEF TypeOK, Holds, Looked, Open, Rechecking, shared
      <3>6. Local
        BY <3>1 DEF Go, TypeOK, shared
      <3> QED
        BY <1>0, <3>5, <3>6
    <2> QED
      BY <2>1, <2>2
  <1>6. CASE LstatAgain(p)
    <2>1. CASE Refuse(p)
      BY <2>1, RefuseLooked
    <2>2. CASE ~Refuse(p)
      <3>1. (Holds(p) /\ Looked(p))'
        BY <1>6, <2>2 DEF LstatAgain, Go, TypeOK, Holds, Looked, Open, Rechecking, shared
      <3>2. Local
        BY <1>6, <2>2 DEF LstatAgain, Go, TypeOK, shared
      <3> QED
        BY <1>0, <3>1, <3>2
    <2> QED
      BY <2>1, <2>2
  <1>7. CASE ReadBytes(p)
    <2> DEFINE f == files[run[p].fd]
    <2>1. run[p].fd \in Inodes /\ f \in File /\ f.content \in Contents
      BY <1>7 DEF ReadBytes, Holds, Open, TypeOK, File
    <2>2. CASE Refuse(p)
      BY <2>2, RefuseLooked
    <2>3. CASE Plan(p, f.content, run[p].fd, run[p].fdMode) /\ ~Rechecking(p)
      BY <1>7, <2>3, PlanLooked DEF ReadBytes
    <2>4. CASE Recheck(p, f.content, run[p].fd, run[p].fdMode) /\ Rechecking(p) /\ ~Refuse(p)
      <3>1. f.content # None
        BY <2>1, NoneAssumption
      <3>2. run[p].base # None
        BY <2>4, <3>1 DEF Recheck
      <3>3. CASE p \in late
        <4>1. Ready(p)
          BY <2>4 DEF Recheck
        <4>2. (Holds(p) /\ Looked(p))'
          BY <2>4, <3>3, <4>1 DEF Ready, Go, TypeOK, Holds, Looked, Open, Rechecking, shared
        <4>3. Local
          BY <4>1 DEF Ready, Go, TypeOK, shared
        <4> QED
          BY <1>0, <4>2, <4>3
      <3>4. CASE p \notin late
        <4>1. /\ spelled /\ entry = run[p].fd /\ f.kind = "file"
              /\ f.mode = run[p].fdMode
          BY <1>7, <2>4, <3>4 DEF ReadBytes, Looked, Open
        <4>2. f = [kind |-> "file", content |-> f.content, mode |-> run[p].fdMode]
          BY <2>1, <4>1 DEF File
        <4>3. entry # None
          BY <2>1, <4>1, SyncAssumption
        <4> QED
          BY <2>4, <3>2, <4>1, <4>2, <4>3, RecheckLooked
      <3> QED
        BY <3>3, <3>4
    <2> QED
      BY <1>7, <2>2, <2>3, <2>4 DEF ReadBytes, Got
  <1>8. CASE MakeTemporary(p)
    <2>1. (Holds(p) /\ Looked(p))'
      BY <1>8 DEF MakeTemporary, Go, TypeOK, Holds, Looked, Open, Rechecking, shared
    <2>2. Local
      BY <1>8 DEF MakeTemporary, Go, TypeOK, shared
    <2> QED
      BY <1>0, <2>1, <2>2
  <1>9. CASE FillTemporary(p)
    <2>1. (Holds(p) /\ Looked(p))'
      BY <1>9 DEF FillTemporary, Go, TypeOK, Holds, Looked, Open, Rechecking, shared
    <2>2. Local
      BY <1>9 DEF FillTemporary, Go, TypeOK, shared
    <2> QED
      BY <1>0, <2>1, <2>2
  <1>10. CASE Replace(p)
    <2>1. (Holds(p) /\ Looked(p))'
      BY <1>10 DEF Replace, Go, TypeOK, Holds, Looked, Open, Rechecking
    <2>2. ASSUME NEW q \in Procs, q # p PROVE (Holds(q) /\ Looked(q))'
      <3>1. pc'[q] = pc[q] /\ run'[q] = run[q] /\ temp'[q] = temp[q]
        BY <1>10, <2>2 DEF Replace, Go, TypeOK
      <3> DEFINE new == [kind |-> "file", content |-> Spliced(run[p].base, run[p].loaded),
                         mode |-> run[p].baseMode]
      <3>2. PICK i \in Free : files' = [files EXCEPT ![i] = new]
        BY <1>10 DEF Replace
      <3>3. Open(q) => i # run[q].fd
        BY <3>2 DEF Free
      <3>4. q \notin late' => q \notin late /\ q \notin AfterEntryCheck
        BY <1>10, <2>2 DEF Replace
      <3>5. spelled => spelled'
        BY <1>10 DEF Replace
      <3> QED
        BY <3>1, <3>2, <3>3, <3>4, <3>5 DEF Holds, Looked, Open, Rechecking,
             AfterEntryCheck, Passed, TypeOK
    <2> QED
      BY <2>1, <2>2
  <1>11. CASE Cleanup(p)
    <2>1. (Holds(p) /\ Looked(p))'
      BY <1>11 DEF Cleanup, Go, TypeOK, Holds, Looked, Open, Rechecking, shared
    <2>2. Local
      BY <1>11 DEF Cleanup, Go, TypeOK, shared
    <2> QED
      BY <1>0, <2>1, <2>2
  <1>12. CASE Crash(p)
    <2>1. (Holds(p) /\ Looked(p))'
      BY <1>12 DEF Crash, Go, TypeOK, Holds, Looked, Open, Rechecking, shared
    <2>2. Local
      BY <1>12 DEF Crash, Go, TypeOK, shared
    <2> QED
      BY <1>0, <2>1, <2>2
  <1> QED
    BY <1>1, <1>2, <1>3, <1>4, <1>5, <1>6, <1>7, <1>8, <1>9, <1>10, <1>11,
       <1>12, SyncAssumption DEF Begin, Step

(***************************************************************************)
(* The theorems.                                                           *)
(***************************************************************************)
\* The inductive invariant is inductive.
LEMMA NextIInv == IInv /\ [Next]_vars => IInv'
  <1> SUFFICES ASSUME IInv, [Next]_vars PROVE IInv'
    OBVIOUS
  <1>1. CASE Environment
    BY <1>1, EnvironmentType, EnvironmentLooked DEF IInv
  <1>2. ASSUME NEW p \in Procs, Begin(p) \/ Step(p) \/ Crash(p) PROVE IInv'
    BY <1>2, RunType, RunLooked DEF IInv
  <1>3. CASE UNCHANGED vars
    BY <1>3 DEF vars, IInv, TypeOK, Holds, Looked, Open, Rechecking, TargetAsRead
  <1> QED
    BY <1>1, <1>2, <1>3 DEF Next

\* Every value the specification's variables take has its type.
THEOREM TypeCorrect == Spec => []TypeOK
  <1>1. IInv => TypeOK
    BY DEF IInv
  <1> QED
    BY <1>1, InitIInv, NextIInv, PTL DEF Spec

\* Whatever editors, saves, crashes and any number of other runs do, a run of
\* sync-context is about to replace exactly what it read, unless the target
\* changed after the recheck's last look at it.
THEOREM NothingUnseen == Spec => []NothingUnseenReplaced
  <1>1. IInv => NothingUnseenReplaced
    <2> SUFFICES ASSUME IInv, NEW p \in Procs, pc[p] = "replace", p \notin late
                 PROVE  TargetAsRead(p)
      BY DEF NothingUnseenReplaced
    <2> QED
      BY DEF IInv, Looked, Holds
  <1> QED
    BY <1>1, InitIInv, NextIInv, PTL DEF Spec

\* No run leaves a temporary behind unless it was killed or unlink failed.
THEOREM NoTemporaryForgotten == Spec => []TemporariesAccounted
  <1>1. IInv => TemporariesAccounted
    BY DEF IInv, Holds, TemporariesAccounted
  <1> QED
    BY <1>1, InitIInv, NextIInv, PTL DEF Spec

(***************************************************************************)
(* What a run has decided when it writes.                                  *)
(***************************************************************************)
\* A run that writes has analysed its first read and found something to do.
Writing(p) ==
  \/ pc[p] \in {"mkstemp", "fill", "replace"}
  \/ Rechecking(p) /\ pc[p] \in {"lstat", "name", "open", "lstat2", "read"}

Planned(p) ==
  Writing(p) =>
    LET r == run[p] IN
    /\ ~Refuses(r.base, r.loaded, r.force)
    /\ StatusOf(r.base, r.loaded) # "current"
    /\ IF r.base = None THEN r.baseMode = DefaultMode
       ELSE r.base.data = "text" /\ r.baseInode \in Inodes

PInv == IInv /\ \A p \in Procs : Planned(p)

\* A run that keeps what it read, and was writing already, is still planned.
LEMMA StaysPlanned ==
  ASSUME NEW p \in Procs, Planned(p), Writing(p)' => Writing(p),
         run'[p].base = run[p].base, run'[p].baseMode = run[p].baseMode,
         run'[p].baseInode = run[p].baseInode, run'[p].loaded = run[p].loaded, run'[p].force = run[p].force
  PROVE  Planned(p)'
  <1> SUFFICES ASSUME Writing(p)'
               PROVE  LET r == run'[p] IN
                      /\ ~Refuses(r.base, r.loaded, r.force)
                      /\ StatusOf(r.base, r.loaded) # "current"
                      /\ IF r.base = None THEN r.baseMode = DefaultMode
                         ELSE r.base.data = "text" /\ r.baseInode \in Inodes
    BY DEF Planned
  <1> QED
    BY DEF Planned

\* A run that refuses is not writing any more.
LEMMA RefusePlanned ==
  ASSUME IInv, NEW p \in Procs, Refuse(p) PROVE Planned(p)'
  BY DEF IInv, TypeOK, Refuse, Planned, Writing, Rechecking, shared

\* Only a plan that found something to do starts to write.
LEMMA PlanPlanned ==
  ASSUME IInv, NEW p \in Procs, NEW c \in Contents \cup {None}, NEW i, NEW m,
         IF c = None THEN m = DefaultMode ELSE c.data # "oversize" /\ i \in Inodes,
         ~Rechecking(p), Plan(p, c, i, m)
  PROVE  Planned(p)'
  <1> DEFINE g == run[p].loaded
  <1>1. CASE Refuse(p)
    BY <1>1, RefusePlanned
  <1>2. CASE Go(p, "ended") /\ UNCHANGED temp
    BY <1>2 DEF Go, IInv, TypeOK, Planned, Writing, Rechecking
  <1>3. CASE /\ ~Refuses(c, g, run[p].force) /\ StatusOf(c, g) # "current"
             /\ run' = [run EXCEPT ![p] =
                  [Closed(run[p]) EXCEPT !.base = c, !.baseInode = i, !.baseMode = m]]
    <2>1. /\ run'[p].base = c /\ run'[p].loaded = g /\ run'[p].baseMode = m
          /\ run'[p].baseInode = i
          /\ run'[p].force = run[p].force
      BY <1>3 DEF Closed, IInv, TypeOK, Run
    <2>2. c # None => c.data = "text"
      BY <1>3, BlockAssumption DEF Refuses, Contents
    <2> QED
      BY <1>3, <2>1, <2>2 DEF Planned
  <1> QED
    BY <1>1, <1>2, <1>3 DEF Plan, shared

\* A satisfied recheck leaves the plan alone.
LEMMA ReadyPlanned ==
  ASSUME PInv, NEW p \in Procs, Rechecking(p), pc[p] \in {"lstat", "read"}, Ready(p)
  PROVE  Planned(p)'
  <1>1. run'[p] = Closed(run[p])
    BY DEF Ready, PInv, IInv, TypeOK
  <1>2. /\ run'[p].base = run[p].base /\ run'[p].loaded = run[p].loaded
        /\ run'[p].baseMode = run[p].baseMode /\ run'[p].baseInode = run[p].baseInode
        /\ run'[p].force = run[p].force
    BY <1>1 DEF Closed, PInv, IInv, TypeOK, Run
  <1> QED
    BY <1>2, StaysPlanned DEF PInv, Writing

\* The answer of a read is used as planned.
LEMMA GotPlanned ==
  ASSUME PInv, NEW p \in Procs, NEW c \in Contents \cup {None}, NEW i, NEW m,
         IF c = None THEN m = DefaultMode ELSE c.data # "oversize" /\ i \in Inodes,
         pc[p] \in {"lstat", "read"}, Got(p, c, i, m)
  PROVE  Planned(p)'
  BY PlanPlanned, ReadyPlanned, RefusePlanned DEF Got, Recheck, PInv

\* Every step of a run keeps its own plan.
LEMMA RunPlanned ==
  ASSUME PInv, NEW p \in Procs, Begin(p) \/ Step(p) \/ Crash(p) PROVE Planned(p)'
  <1> USE DEF PInv, IInv
  <1>1. CASE Begin(p) \/ Cleanup(p) \/ Crash(p)
    BY <1>1 DEF Begin, Start, Cleanup, Crash, Go, TypeOK, Planned, Writing,
                Rechecking, shared
  <1>2. CASE Lstat(p)
    <2>1. CASE Got(p, None, None, DefaultMode)
      BY <1>2, <2>1, GotPlanned DEF Lstat
    <2>2. CASE Refuse(p)
      BY <2>2, RefusePlanned
    <2>3. CASE /\ run' = [run EXCEPT ![p].info = entry]
               /\ Go(p, "name") /\ UNCHANGED temp
      <3>1. /\ run'[p].base = run[p].base /\ run'[p].loaded = run[p].loaded
            /\ run'[p].baseMode = run[p].baseMode /\ run'[p].baseInode = run[p].baseInode
            /\ run'[p].force = run[p].force
        BY <2>3 DEF TypeOK, Run
      <3> QED
        BY <1>2, <2>3, <3>1, StaysPlanned DEF Lstat, Go, TypeOK, Writing, Rechecking
    <2> QED
      BY <1>2, <2>1, <2>2, <2>3 DEF Lstat
  <1>3. CASE NameConfirmed(p)
    BY <1>3, StaysPlanned DEF NameConfirmed, Go, TypeOK, Writing, Rechecking, shared
  <1>4. CASE NameUnconfirmed(p) \/ SystemError(p)
    BY <1>4, RefusePlanned DEF NameUnconfirmed, SystemError
  <1>5. CASE OpenTarget(p)
    <2>1. CASE Refuse(p)
      BY <2>1, RefusePlanned
    <2>2. CASE ~Refuse(p)
      <3>1. PICK i : run' = [run EXCEPT ![p] =
                       [run[p] EXCEPT !.fd = i, !.fdMode = files[i].mode]]
        BY <1>5, <2>2 DEF OpenTarget
      <3>2. /\ run'[p].base = run[p].base /\ run'[p].loaded = run[p].loaded
            /\ run'[p].baseMode = run[p].baseMode /\ run'[p].baseInode = run[p].baseInode
            /\ run'[p].force = run[p].force
        BY <3>1 DEF TypeOK, Run
      <3> QED
        BY <1>5, <2>2, <3>2, StaysPlanned DEF OpenTarget, Go, TypeOK, Writing, Rechecking
    <2> QED
      BY <2>1, <2>2
  <1>6. CASE LstatAgain(p)
    <2>1. CASE Refuse(p)
      BY <2>1, RefusePlanned
    <2> QED
      BY <1>6, <2>1, StaysPlanned DEF LstatAgain, Go, TypeOK, Writing, Rechecking, shared
  <1>7. CASE ReadBytes(p)
    <2> DEFINE c == files[run[p].fd].content
    <2>1. c \in Contents /\ c # None /\ run[p].fd \in Inodes
      <3>1. run[p].fd \in Inodes
        BY <1>7 DEF ReadBytes, Holds, Open
      <3> QED
        BY <3>1, NoneAssumption DEF TypeOK, File
    <2>2. \/ Refuse(p)
          \/ c.data # "oversize" /\ Got(p, c, run[p].fd, run[p].fdMode)
      BY <1>7 DEF ReadBytes
    <2> HIDE DEF c
    <2> QED
      BY <1>7, <2>1, <2>2, GotPlanned, RefusePlanned DEF ReadBytes
  <1>8. CASE MakeTemporary(p) \/ FillTemporary(p)
    BY <1>8, StaysPlanned DEF MakeTemporary, FillTemporary, Go, TypeOK, Writing,
                              Rechecking, shared
  <1>9. CASE Replace(p)
    BY <1>9 DEF Replace, Go, TypeOK, Planned, Writing, Rechecking
  <1> QED
    BY <1>1, <1>2, <1>3, <1>4, <1>5, <1>6, <1>7, <1>8, <1>9 DEF Step

\* A step of p does not touch the locals of the other runs.
LEMMA OnlyItself ==
  ASSUME TypeOK, NEW p \in Procs, Begin(p) \/ Step(p) \/ Crash(p),
         NEW q \in Procs, q # p
  PROVE  pc'[q] = pc[q] /\ run'[q] = run[q] /\ temp'[q] = temp[q]
  BY DEF TypeOK, Begin, Start, Step, Crash, Lstat, NameConfirmed, NameUnconfirmed,
         OpenTarget, LstatAgain, ReadBytes, MakeTemporary, FillTemporary, Replace,
         SystemError, Cleanup, Got, Plan, Recheck, Ready, Refuse, Go, shared

LEMMA InitPInv == Init => PInv
  BY InitIInv DEF Init, PInv, Planned, Writing, Rechecking

\* What a run has planned stays planned until it has written or given up.
LEMMA NextPInv == PInv /\ [Next]_vars => PInv'
  <1> SUFFICES ASSUME PInv, [Next]_vars PROVE PInv'
    OBVIOUS
  <1>1. ASSUME NEW q \in Procs,
               pc'[q] = pc[q], run'[q] = run[q], temp'[q] = temp[q]
        PROVE  Planned(q)'
    BY <1>1, StaysPlanned DEF PInv, Writing, Rechecking
  <1>2. CASE Environment
    BY <1>1, <1>2, NextIInv DEF PInv, Next, Environment, SaveGlossary, RewriteInPlace,
       ChangeMode, PutFile, RemoveTarget, Respell
  <1>3. ASSUME NEW p \in Procs, Begin(p) \/ Step(p) \/ Crash(p)
        PROVE  \A q \in Procs : Planned(q)'
    BY <1>1, <1>3, RunPlanned, OnlyItself DEF PInv, IInv
  <1>4. CASE UNCHANGED vars
    BY <1>1, <1>4, NextIInv DEF PInv, vars
  <1> QED
    BY <1>2, <1>3, <1>4, NextIInv DEF PInv, Next

\* The only step that commits is the replacement, and outside the window it
\* replaces what the run planned for.
LEMMA CommitReplaces ==
  ASSUME PInv, Next, NEW p \in Procs, Commits(p), p \notin late, entry # None
  PROVE  /\ Replace(p) /\ TargetAsRead(p) /\ run[p].base # None
         /\ files[entry].content = run[p].base
         /\ ~Refuses(run[p].base, run[p].loaded, run[p].force)
         /\ StatusOf(run[p].base, run[p].loaded) # "current"
         /\ run[p].base.data = "text"
  <1> USE DEF Commits
  <1>1. ~Environment
    BY DEF Environment, SaveGlossary, RewriteInPlace, ChangeMode, PutFile,
           RemoveTarget, Respell
  <1>2. PICK q \in Procs : Begin(q) \/ Step(q) \/ Crash(q)
    BY <1>1 DEF Next
  <1>3. q = p
    BY <1>2, OnlyItself DEF PInv, IInv
  <1>4. Rechecking(p)
    BY DEF PInv, IInv, Holds
  <1>5. ~Refuse(p)
    BY <1>4 DEF Refuse, Rechecking, PInv, IInv, TypeOK
  <1>6. Replace(p)
    BY <1>2, <1>3, <1>5 DEF Begin, Start, Crash, Step, Lstat, NameConfirmed,
       NameUnconfirmed, OpenTarget, LstatAgain, ReadBytes, MakeTemporary,
       FillTemporary, SystemError, Cleanup, Go, PInv, IInv, TypeOK
  <1>7. TargetAsRead(p)
    BY <1>4 DEF PInv, IInv, Looked
  <1>8. run[p].base # None /\ files[entry].content = run[p].base
    BY <1>7 DEF TargetAsRead
  <1> QED
    BY <1>6, <1>7, <1>8 DEF PInv, Planned, Writing

\* For any number of runs and glossaries: outside the window no run replaces an
\* edited block without --force, nor an ambiguous one at all.
THEOREM EditsForced == Spec => EditsNeedForce
  <1>1. ASSUME PInv, [Next]_vars
        PROVE  [\A p \in Procs : Commits(p) /\ p \notin late /\ entry # None =>
                  LET status == Status(files[entry].content, run[p].loaded) IN
                  /\ status # "collision"
                  /\ status = "edited" => run[p].force]_vars
    <2> SUFFICES ASSUME Next, NEW p \in Procs, Commits(p), p \notin late, entry # None
                 PROVE  LET status == Status(files[entry].content, run[p].loaded) IN
                        /\ status # "collision"
                        /\ status = "edited" => run[p].force
      BY <1>1
    <2> QED
      BY <1>1, CommitReplaces DEF Refuses, StatusOf
  <1> QED
    BY <1>1, InitPInv, NextPInv, PTL DEF Spec, EditsNeedForce

\* Outside the window a block that is current already is not written again.
THEOREM NothingRewritten == Spec => NoRedundantWrite
  <1>1. ASSUME PInv, [Next]_vars
        PROVE  [\A p \in Procs : Commits(p) /\ p \notin late /\ entry # None =>
                  Status(files[entry].content, run[p].loaded) # "current"]_vars
    BY <1>1, CommitReplaces DEF StatusOf
  <1> QED
    BY <1>1, InitPInv, NextPInv, PTL DEF Spec, NoRedundantWrite

\* Outside the window a replacement keeps the text around the block and the
\* mode, and takes the place of a decodable regular file only.
THEOREM TextKept == Spec => SurroundingsKept
  <1>1. ASSUME PInv, [Next]_vars
        PROVE  [\A p \in Procs : Commits(p) /\ p \notin late /\ entry # None =>
                  LET old == files[entry] new == files'[entry'] IN
                  /\ old.kind = "file" /\ old.content.data = "text"
                  /\ new.content.outside = old.content.outside
                  /\ new.mode = old.mode]_vars
    <2> SUFFICES ASSUME Next, NEW p \in Procs, Commits(p), p \notin late, entry # None
                 PROVE  LET old == files[entry] new == files'[entry'] IN
                        /\ old.kind = "file" /\ old.content.data = "text"
                        /\ new.content.outside = old.content.outside
                        /\ new.mode = old.mode
      BY <1>1
    <2>1. /\ Replace(p) /\ TargetAsRead(p) /\ run[p].base # None
          /\ files[entry].content = run[p].base /\ run[p].base.data = "text"
      BY <1>1, CommitReplaces
    <2> DEFINE new == [kind |-> "file", content |-> Spliced(run[p].base, run[p].loaded),
                       mode |-> run[p].baseMode]
    <2>2. PICK i \in Free : entry' = i /\ files' = [files EXCEPT ![i] = new]
      BY <2>1 DEF Replace
    <2>3. i \in Inodes
      BY DEF Free
    <2>4. files'[entry'] = new
      BY <1>1, <2>2, <2>3 DEF PInv, IInv, TypeOK
    <2>5. new.content.outside = run[p].base.outside /\ new.mode = run[p].baseMode
      BY <2>1 DEF Spliced
    <2> QED
      BY <2>1, <2>4, <2>5 DEF TargetAsRead
  <1> QED
    BY <1>1, InitPInv, NextPInv, PTL DEF Spec, SurroundingsKept

(***************************************************************************)
(* The promise: a run is one step on the file.                             *)
(***************************************************************************)
\* What is seen of a step of p is what it makes of p.
LEMMA OneRun ==
  ASSUME TypeOK, NEW p \in Procs, Begin(p) \/ Step(p) \/ Crash(p)
  PROVE  /\ Stages' = [Stages EXCEPT ![p] = Stage(p)']
         /\ Known' = [Known EXCEPT ![p] = run'[p].loaded]
         /\ Forced' = [Forced EXCEPT ![p] = run'[p].force]
         /\ Told' = [Told EXCEPT ![p] = run'[p].outcome]
         /\ \A q \in Procs : q # p => (Stage(q)' = Stage(q))
  <1>1. \A q \in Procs : q # p => pc'[q] = pc[q] /\ run'[q] = run[q] /\ temp'[q] = temp[q]
    BY OnlyItself
  <1>2. \A q \in Procs : q # p => (Stage(q)' = Stage(q))
    BY <1>1 DEF Stage, Rechecking
  <1> QED
    BY <1>1, <1>2 DEF Stages, Known, Forced, Told

\* Both speak of the same texts.
LEMMA SameTexts ==
  /\ Promise!Contents = Contents
  /\ \A c, g : Promise!Spliced(c, g) = Spliced(c, g)
  /\ \A c, g : Promise!StatusOf(c, g) = StatusOf(c, g)
  /\ \A c, g : Promise!OutcomeOf(c, g) = OutcomeOf(c, g)
  /\ \A c, g, f : Promise!Refuses(c, g, f) <=> Refuses(c, g, f)
  <1>1. Promise!Contents = Contents
    BY DEF Promise!Contents, Contents, Promise!WellFormed, WellFormed
  <1>2. \A c, g : Promise!StatusOf(c, g) = StatusOf(c, g)
    BY DEF Promise!StatusOf, StatusOf, Promise!Status, Status
  <1>3. \A c, g : Promise!OutcomeOf(c, g) = OutcomeOf(c, g)
    BY <1>2 DEF Promise!OutcomeOf, OutcomeOf
  <1>4. \A c, g, f : Promise!Refuses(c, g, f) <=> Refuses(c, g, f)
    BY <1>2 DEF Promise!Refuses, Refuses
  <1> QED
    BY <1>1, <1>2, <1>3, <1>4 DEF Promise!Spliced, Spliced

\* A change from outside escapes looking runs only.
LEMMA EnvironmentChanges ==
  ASSUME IInv, IInv', Environment PROVE Promise!Save \/ Promise!Change
  <1>1. UNCHANGED <<Stages, Known, Forced, Told>> /\ \A p \in Procs : Stage(p)' = Stage(p)
    BY DEF Environment, SaveGlossary, RewriteInPlace, ChangeMode, PutFile, RemoveTarget,
           Respell, Stages, Known, Forced, Told, Stage, Rechecking
  <1>2. CASE \E g \in Glossaries : SaveGlossary(g)
    <2>1. glossary' \in Glossaries /\ UNCHANGED <<entry, spelled, files, late>>
      BY <1>2 DEF SaveGlossary
    <2>2. Standing' = Standing /\ Escaped' = Escaped
      BY <1>1, <2>1 DEF Standing, Escaped, IInv, TypeOK
    <2> QED
      BY <1>1, <2>1, <2>2 DEF Promise!Save, Promise!run
  <1>3. ASSUME glossary' = glossary, late \subseteq late',
               late' \subseteq late \cup Passed({"open", "lstat2", "read", "replace"})
        PROVE  Promise!Change
    <2>1. Standing' \in Promise!Targets \cup {None}
      <3>1. entry' # None => files'[entry'] \in File /\ spelled' \in BOOLEAN
        BY DEF IInv, TypeOK
      <3> QED
        BY <3>1, SameTexts DEF Standing, File, Promise!Targets
    <2>2. Escaped \subseteq Escaped'
      BY <1>1, <1>3 DEF Escaped, IInv, TypeOK
    <2>3. Escaped' \subseteq Escaped \cup Promise!Looking
      <3>1. \A q \in Escaped' : q \in Procs /\ q \in late' /\ Stage(q) = "looking"
        BY <1>1 DEF Escaped, IInv, TypeOK
      <3> QED
        BY <3>1 DEF Promise!Looking, Stages
    <2> QED
      BY <1>1, <1>3, <2>1, <2>2, <2>3 DEF Promise!Change, Promise!run
  <1>4. CASE \/ \E c \in Contents : RewriteInPlace(c)
             \/ \E m \in Modes : ChangeMode(m)
             \/ \E f \in File, exact \in BOOLEAN : PutFile(f, exact)
             \/ RemoveTarget
             \/ Respell
    <2>1. /\ glossary' = glossary /\ late \subseteq late'
          /\ late' \subseteq late \cup Passed({"open", "lstat2", "read", "replace"})
      BY <1>4 DEF RewriteInPlace, ChangeMode, PutFile, RemoveTarget, Respell, Passed,
                  AfterBytesCheck, AfterEntryCheck, AfterModeCheck, AfterNameCheck
    <2> QED
      BY <1>3, <2>1
  <1> QED
    BY <1>2, <1>4 DEF Environment

\* A step of p that nothing is seen of.
Unseen == UNCHANGED <<glossary, Standing, Stages, Known, Forced, Told, Escaped>>

LEMMA Hidden ==
  ASSUME TypeOK, NEW p \in Procs, Begin(p) \/ Step(p) \/ Crash(p), UNCHANGED shared,
         Stage(p)' = Stage(p), run'[p].loaded = run[p].loaded, run'[p].force = run[p].force,
         run'[p].outcome = run[p].outcome,
         late' = late \/ (late' = late \ {p} /\ Stage(p) # "looking")
  PROVE  Unseen
  <1>1. Standing' = Standing /\ glossary' = glossary
    BY DEF shared, Standing
  <1>2. UNCHANGED <<Stages, Known, Forced, Told>> /\ \A q \in Procs : Stage(q)' = Stage(q)
    BY OneRun DEF Stages, Known, Forced, Told
  <1>3. Escaped' = Escaped
    BY <1>2 DEF Escaped, TypeOK
  <1> QED
    BY <1>1, <1>2, <1>3 DEF Unseen

\* A run that is over and leaves the file alone.
LEMMA Leaves ==
  ASSUME TypeOK, NEW p \in Procs, Begin(p) \/ Step(p) \/ Crash(p), UNCHANGED shared,
         Stage(p)' = "out", run'[p].loaded = run[p].loaded, run'[p].force = FALSE,
         late' = late \/ late' = late \ {p},
         \/ run'[p].outcome = "none"
         \/ run'[p].outcome = "current" /\ Stage(p) = "planning"
         \/ run'[p].outcome = "refused" /\ Stage(p) # "out"
  PROVE  Promise!Leave(p)
  <1>1. Standing' = Standing /\ glossary' = glossary
    BY DEF shared, Standing
  <1>2. Stages' = [Stages EXCEPT ![p] = "out"] /\ Forced' = [Forced EXCEPT ![p] = FALSE]
    BY OneRun
  <1>3. Known' = Known /\ Told' = [Told EXCEPT ![p] = run'[p].outcome]
    BY OneRun DEF Known
  <1>4. Escaped' = Escaped \ {p}
    BY OneRun DEF Escaped, TypeOK
  <1>5. Promise!Tells(p, run'[p].outcome)
    BY <1>1, <1>2, <1>3 DEF Promise!Tells
  <1>6. Stages[p] = Stage(p)
    BY DEF Stages
  <1> QED
    BY <1>1, <1>4, <1>5, <1>6 DEF Promise!Leave

\* A run that refuses leaves the file alone.
LEMMA RefuseLeaves ==
  ASSUME IInv, NEW p \in Procs, Step(p), Refuse(p), Stage(p) # "out"
  PROVE  Promise!Leave(p)
  <1>1. /\ pc'[p] \in {"ended", "cleanup"} /\ UNCHANGED <<shared, temp, late>>
        /\ run'[p] = [Blank(run[p].loaded) EXCEPT !.outcome = "refused"]
    BY DEF Refuse, IInv, TypeOK
  <1>2. /\ run'[p].loaded = run[p].loaded /\ run'[p].force = FALSE
        /\ run'[p].outcome = "refused"
    BY <1>1 DEF Blank
  <1>3. Stage(p)' = "out"
    BY <1>1 DEF Stage
  <1> QED
    BY <1>1, <1>2, <1>3, Leaves DEF IInv

\* The answer of a read lets the run go on, ends it, or makes it refuse.
LEMMA GotSeen ==
  ASSUME IInv, NEW p \in Procs, Step(p), NEW c, NEW i, NEW m,
         pc[p] \in {"lstat", "read"}, Got(p, c, i, m)
  PROVE  Unseen \/ Promise!Leave(p)
  <1>1. Stage(p) = IF Rechecking(p) THEN "looking" ELSE "planning"
    BY DEF Stage
  <1>2. CASE Refuse(p)
    BY <1>1, <1>2, RefuseLeaves
  <1>3. CASE Rechecking(p) /\ Ready(p)
    <2>1. /\ pc'[p] = "replace" /\ UNCHANGED <<shared, temp, late>>
          /\ run'[p] = Closed(run[p])
      BY <1>3 DEF Ready, Go, IInv, TypeOK
    <2>2. /\ run'[p].loaded = run[p].loaded /\ run'[p].force = run[p].force
          /\ run'[p].outcome = run[p].outcome
      BY <2>1 DEF Closed, IInv, TypeOK, Run
    <2>3. Stage(p)' = Stage(p)
      BY <1>1, <1>3, <2>1 DEF Stage, Rechecking
    <2> QED
      BY <2>1, <2>2, <2>3, Hidden DEF IInv
  <1>4. CASE /\ ~Rechecking(p) /\ Go(p, "ended") /\ UNCHANGED <<shared, temp, late>>
             /\ run' = [run EXCEPT ![p] = [Blank(run[p].loaded) EXCEPT !.outcome = "current"]]
    <2>1. /\ run'[p].loaded = run[p].loaded /\ run'[p].force = FALSE
          /\ run'[p].outcome = "current"
      BY <1>4 DEF Blank, IInv, TypeOK
    <2>2. Stage(p)' = "out"
      BY <1>4 DEF Go, Stage, IInv, TypeOK
    <2> QED
      BY <1>1, <1>4, <2>1, <2>2, Leaves DEF IInv
  <1>5. CASE /\ ~Rechecking(p) /\ Go(p, "mkstemp") /\ UNCHANGED <<shared, temp, late>>
             /\ run' = [run EXCEPT ![p] =
                  [Closed(run[p]) EXCEPT !.base = c, !.baseInode = i, !.baseMode = m]]
    <2>1. /\ run'[p].loaded = run[p].loaded /\ run'[p].force = run[p].force
          /\ run'[p].outcome = run[p].outcome
      BY <1>5 DEF Closed, IInv, TypeOK, Run
    <2>2. Stage(p)' = Stage(p)
      BY <1>1, <1>5 DEF Go, Stage, Rechecking, IInv, TypeOK
    <2> QED
      BY <1>5, <2>1, <2>2, Hidden DEF IInv
  <1> QED
    BY <1>2, <1>3, <1>4, <1>5 DEF Got, Recheck, Plan

\* The replacement is the one step on the file.
LEMMA ReplaceCommits ==
  ASSUME PInv, NEW p \in Procs, Replace(p) PROVE Promise!Commit(p)
  <1> USE DEF PInv, IInv
  <1> DEFINE r == run[p]
             new == [kind |-> "file", content |-> Spliced(r.base, r.loaded), mode |-> r.baseMode]
  <1>1. /\ pc[p] = "replace" /\ Rechecking(p) /\ Writing(p)
        /\ r.base \in Contents \cup {None} /\ r.baseMode \in Modes
    BY DEF Replace, Holds, Writing, TypeOK, Run
  <1>2. /\ ~Refuses(r.base, r.loaded, r.force) /\ StatusOf(r.base, r.loaded) # "current"
        /\ IF r.base = None THEN r.baseMode = DefaultMode ELSE r.base.data = "text" /\ r.baseInode \in Inodes
    BY <1>1 DEF Planned
  <1>3. Stage(p) = "looking" /\ Stages[p] = "looking" /\ (p \in Escaped <=> p \in late)
    BY <1>1 DEF Stage, Stages, Escaped
  <1>4. r.base \in Promise!Seen
    BY <1>1, <1>2, SameTexts DEF Promise!Seen
  <1>5. p \notin Escaped => Promise!Stands(r.base, r.baseMode)
    <2> SUFFICES ASSUME p \notin late PROVE Promise!Stands(r.base, r.baseMode)
      BY <1>3
    <2>1. TargetAsRead(p)
      BY <1>1 DEF Looked
    <2>2. CASE r.base = None
      BY <2>1, <2>2 DEF TargetAsRead, Standing, Promise!Stands
    <2>3. CASE r.base # None
      <3>1. /\ entry # None /\ spelled /\ files[entry].kind = "file"
            /\ files[entry].content = r.base /\ files[entry].mode = r.baseMode
        BY <1>2, <2>1, <2>3, SyncAssumption DEF TargetAsRead
      <3>2. spelled = TRUE
        BY <3>1 DEF TypeOK
      <3> HIDE DEF r
      <3> QED
        BY <2>3, <3>1, <3>2 DEF Standing, Promise!Stands
    <2> QED
      BY <2>2, <2>3
  <1>6. /\ Standing' = [kind |-> "file", content |-> Spliced(r.base, r.loaded),
                        mode |-> r.baseMode, exact |-> spelled']
        /\ spelled' \in BOOLEAN
    <2>1. PICK i \in Free : entry' = i /\ files' = [files EXCEPT ![i] = new]
      BY DEF Replace
    <2>2. i \in Inodes /\ i # None
      BY <2>1, SyncAssumption DEF Free
    <2>3. files'[entry'] = new /\ entry' # None
      BY <2>1, <2>2 DEF TypeOK
    <2>4. spelled' \in BOOLEAN
      BY DEF Replace, TypeOK
    <2> QED
      BY <2>3, <2>4 DEF Standing
  <1>7. Promise!Tells(p, OutcomeOf(r.base, r.loaded))
    <2>1. Step(p) /\ glossary' = glossary
      BY DEF Step, Replace
    <2>2. run'[p] = [Blank(r.loaded) EXCEPT !.outcome = OutcomeOf(r.base, r.loaded)]
      BY DEF Replace, TypeOK
    <2>3. /\ run'[p].loaded = r.loaded /\ run'[p].force = FALSE
          /\ run'[p].outcome = OutcomeOf(r.base, r.loaded)
      BY <2>2 DEF Blank
    <2>4. Stage(p)' = "out"
      BY DEF Replace, Go, Stage, TypeOK
    <2> QED
      BY <2>1, <2>3, <2>4, OneRun DEF Promise!Tells, Known
  <1>8. /\ Escaped \ {p} \subseteq Escaped'
        /\ Escaped' \subseteq (Escaped \cup Promise!Looking) \ {p}
    <2>1. Step(p) /\ late' = (late \cup AfterEntryCheck) \ {p} /\ Stage(p)' = "out"
      BY DEF Step, Replace, Go, Stage, TypeOK
    <2>2. \A q \in Procs : q # p => Stage(q)' = Stage(q)
      BY <2>1, OneRun
    <2> QED
      BY <2>1, <2>2 DEF Escaped, Promise!Looking, Stages, TypeOK, AfterEntryCheck, Passed
  <1>9. Known[p] = r.loaded /\ Forced[p] = r.force
    BY DEF Known, Forced
  <1> HIDE DEF r
  <1> QED
    BY <1>1, <1>2, <1>3, <1>4, <1>5, <1>6, <1>7, <1>8, <1>9, SameTexts DEF Promise!Commit

\* What is seen of any step of a run.
LEMMA RunSeen ==
  ASSUME PInv, NEW p \in Procs, Begin(p) \/ Step(p) \/ Crash(p)
  PROVE  Unseen \/ Promise!Begin(p) \/ Promise!LookAgain(p) \/ Promise!Leave(p) \/ Promise!Commit(p)
  <1> USE DEF PInv, IInv
  \* Steps that move on and look at something.
  <1>1. ASSUME NEW l \in {"name", "open", "lstat2", "read", "fill"}, Step(p), Go(p, l),
               UNCHANGED <<shared, late>>, run'[p].loaded = run[p].loaded,
               run'[p].force = run[p].force, run'[p].outcome = run[p].outcome,
               Rechecking(p)' <=> Rechecking(p),
               pc[p] \notin {"idle", "cleanup", "ended", "crashed"}
        PROVE  Unseen
    <2>1. Stage(p)' = Stage(p)
      BY <1>1 DEF Go, Stage, TypeOK
    <2> QED
      BY <1>1, <2>1, Hidden
  <1>2. ASSUME Step(p), Refuse(p), pc[p] \notin {"idle", "cleanup", "ended", "crashed"}
        PROVE  Promise!Leave(p)
    <2>1. Stage(p) # "out"
      BY <1>2 DEF Stage
    <2> QED
      BY <1>2, <2>1, RefuseLeaves
  <1>3. CASE Begin(p)
    <2>1. PICK f \in ForceChoices : Start(p, f)
      BY <1>3 DEF Begin
    <2>2. run'[p] = [Blank(glossary) EXCEPT !.force = f] /\ UNCHANGED <<shared, temp, late>>
      BY <2>1 DEF Start, TypeOK
    <2>3. run'[p].loaded = glossary /\ run'[p].force = f /\ run'[p].outcome = "none"
      BY <2>2 DEF Blank
    <2>4. Stage(p) = "out" /\ Stages[p] = "out" /\ Stage(p)' = "planning"
      BY <2>1 DEF Start, Go, Stage, Stages, Rechecking, TypeOK
    <2>5. Standing' = Standing /\ glossary' = glossary
      BY <2>2 DEF shared, Standing
    <2>6. Escaped' = Escaped
      BY <1>3, <2>2, <2>4, OneRun DEF Escaped, TypeOK
    <2> QED
      BY <1>3, <2>3, <2>4, <2>5, <2>6, OneRun DEF Promise!Begin
  <1>4. CASE Lstat(p)
    <2>1. Step(p)
      BY <1>4 DEF Step
    <2>2. CASE Refuse(p)
      BY <1>2, <1>4, <2>1, <2>2 DEF Lstat
    <2>3. CASE Got(p, None, None, DefaultMode)
      BY <1>4, <2>1, <2>3, GotSeen DEF Lstat
    <2>4. CASE run' = [run EXCEPT ![p].info = entry] /\ Go(p, "name") /\ UNCHANGED <<shared, temp, late>>
      <3>1. /\ run'[p].loaded = run[p].loaded /\ run'[p].force = run[p].force
            /\ run'[p].outcome = run[p].outcome
        BY <2>4 DEF TypeOK, Run
      <3> QED
        BY <1>1, <1>4, <2>1, <2>4, <3>1 DEF Lstat, Rechecking
    <2> QED
      BY <1>4, <2>2, <2>3, <2>4 DEF Lstat
  <1>5. CASE NameConfirmed(p)
    BY <1>1, <1>5 DEF NameConfirmed, Step, Rechecking
  <1>6. CASE NameUnconfirmed(p) \/ SystemError(p)
    BY <1>2, <1>6 DEF NameUnconfirmed, SystemError, Step
  <1>7. CASE OpenTarget(p)
    <2>1. Step(p)
      BY <1>7 DEF Step
    <2>2. CASE Refuse(p)
      BY <1>2, <1>7, <2>1, <2>2 DEF OpenTarget
    <2>3. CASE ~Refuse(p)
      <3>1. PICK i : run' = [run EXCEPT ![p] = [run[p] EXCEPT !.fd = i, !.fdMode = files[i].mode]]
        BY <1>7, <2>3 DEF OpenTarget
      <3>2. /\ run'[p].loaded = run[p].loaded /\ run'[p].force = run[p].force
            /\ run'[p].outcome = run[p].outcome
        BY <3>1 DEF TypeOK, Run
      <3> QED
        BY <1>1, <1>7, <2>1, <2>3, <3>2 DEF OpenTarget, Rechecking
    <2> QED
      BY <2>2, <2>3
  <1>8. CASE LstatAgain(p)
    <2>1. CASE Refuse(p)
      BY <1>2, <1>8, <2>1 DEF LstatAgain, Step
    <2>2. CASE ~Refuse(p)
      BY <1>1, <1>8, <2>2 DEF LstatAgain, Step, Rechecking
    <2> QED
      BY <2>1, <2>2
  <1>9. CASE ReadBytes(p)
    <2>1. Step(p) /\ pc[p] = "read"
      BY <1>9 DEF Step, ReadBytes
    <2> QED
      BY <1>2, <1>9, <2>1, GotSeen DEF ReadBytes
  <1>10. CASE MakeTemporary(p)
    <2>1. ~Rechecking(p) /\ ~Rechecking(p)'
      BY <1>10 DEF MakeTemporary, Holds, Rechecking, TypeOK
    <2> QED
      BY <1>1, <1>10, <2>1 DEF MakeTemporary, Step
  <1>11. CASE FillTemporary(p)
    <2>1. /\ Step(p) /\ UNCHANGED <<shared, run>> /\ late' = late \ {p}
      BY <1>11 DEF FillTemporary, Step
    <2>2. Stage(p) = "planning" /\ Stages[p] = "planning" /\ Stage(p)' = "looking"
      BY <1>11 DEF FillTemporary, Go, Holds, Stage, Stages, Rechecking, TypeOK
    <2>3. Standing' = Standing /\ glossary' = glossary /\ UNCHANGED <<Known, Forced, Told>>
      BY <2>1 DEF shared, Standing, Known, Forced, Told
    <2>4. Escaped' = Escaped
      BY <2>1, <2>2, OneRun DEF Escaped, TypeOK
    <2> QED
      BY <2>1, <2>2, <2>3, <2>4, OneRun DEF Promise!LookAgain
  <1>12. CASE Replace(p)
    BY <1>12, ReplaceCommits
  <1>13. CASE Cleanup(p)
    <2>1. Step(p) /\ UNCHANGED <<shared, run>> /\ late' = late \ {p}
      BY <1>13 DEF Step, Cleanup
    <2>2. Stage(p) = "out" /\ Stage(p)' = "out"
      BY <1>13 DEF Cleanup, Go, Stage, TypeOK
    <2> QED
      BY <2>1, <2>2, Hidden
  <1>14. CASE Crash(p)
    <2>1. UNCHANGED shared /\ late' = late \ {p} /\ run'[p] = Blank(run[p].loaded)
      BY <1>14 DEF Crash, TypeOK
    <2>2. Stage(p)' = "out"
      BY <1>14 DEF Crash, Go, Stage, TypeOK
    <2>3. run'[p].loaded = run[p].loaded /\ run'[p].force = FALSE /\ run'[p].outcome = "none"
      BY <2>1 DEF Blank
    <2> QED
      BY <1>14, <2>1, <2>2, <2>3, Leaves
  <1> QED
    BY <1>3, <1>4, <1>5, <1>6, <1>7, <1>8, <1>9, <1>10, <1>11, <1>12, <1>13, <1>14 DEF Step

\* However many runs and editors there are, sync-context does to the file what
\* ManagedFile says: a run's whole effect is one step on the file that is there,
\* and what it tells is so, but for a change in the last window.
THEOREM KeepsPromise == Spec => FileSpec
  <1>1. Init => Promise!Init
    BY DEF Init, Promise!Init, Standing, Stages, Stage, Known, Forced, Told, Escaped, Blank
  <1>2. ASSUME PInv, IInv', [Next]_vars
        PROVE  [Promise!Next]_<<glossary, Standing, <<Stages, Known, Forced, Told>>, Escaped>>
    <2>1. CASE Environment
      BY <1>2, <2>1, EnvironmentChanges DEF PInv, Promise!Next
    <2>2. ASSUME NEW p \in Procs, Begin(p) \/ Step(p) \/ Crash(p)
          PROVE  Promise!Next \/ Unseen
      BY <1>2, <2>2, RunSeen DEF Promise!Next
    <2>3. CASE UNCHANGED vars
      BY <2>3 DEF vars, Standing, Stages, Stage, Rechecking, Known, Forced, Told, Escaped
    <2> QED
      BY <1>2, <2>1, <2>2, <2>3 DEF Next, Unseen
  <1>3. PInv => IInv
    BY DEF PInv
  <1>4. Promise!Spec <=> Promise!Init /\ [][Promise!Next]_<<glossary, Standing, <<Stages, Known, Forced, Told>>, Escaped>>
    BY DEF Promise!Spec, Promise!run
  <1> QED
    BY <1>1, <1>2, <1>3, <1>4, InitPInv, NextPInv, PTL DEF Spec, FileSpec
=============================================================================
