---------------------------- MODULE SyncContext ----------------------------
(***************************************************************************)
(* `glossabet sync-context`: one managed block inside a host instruction   *)
(* file (AGENTS.md or CLAUDE.md at the repository root) that people and    *)
(* other programs edit at the same time.                                   *)
(*                                                                         *)
(* A run reads the target with read_regular_target, decides what to do,    *)
(* writes a complete temporary beside the target, reads the target again   *)
(* with the same routine and replaces it only if bytes, mode and identity  *)
(* are those of the first read.  Each system call that looks at shared     *)
(* state is a step of its own, so editors, other runs, saves of the        *)
(* glossary and crashes interleave with it everywhere.                     *)
(***************************************************************************)
EXTENDS ManagedBlock

CONSTANTS
  Procs,            \* concurrent runs of the command
  Inodes,           \* file identities (st_dev, st_ino); reused once free
  Elsewhere,        \* the inode a symlink swapped in for the target points at
  ForceChoices,     \* whether runs pass --force: a subset of BOOLEAN
  NoFollow,         \* TRUE iff os.O_NOFOLLOW exists on this platform
  CaseFolding,      \* TRUE iff the filesystem looks names up case-insensitively
  KnownIdentity     \* TRUE iff the filesystem reports a non-zero st_ino

ASSUME SyncAssumption ==
  /\ Elsewhere \in Inodes
  /\ ForceChoices \subseteq BOOLEAN
  /\ NoFollow \in BOOLEAN
  /\ CaseFolding \in BOOLEAN
  /\ KnownIdentity \in BOOLEAN
  /\ None \notin Inodes

VARIABLES
  glossary,   \* the saved glossary.json
  entry,      \* the inode the target's directory entry names, or None
  spelled,    \* TRUE iff that entry has exactly the target's name
  files,      \* what each inode holds
  pc,         \* where each run is
  run,        \* the local variables of each run
  temp,       \* the temporary of each run: none, partial, complete, leaked
  late        \* runs whose target changed after their recheck looked at it

vars == <<glossary, entry, spelled, files, pc, run, temp, late>>

(***************************************************************************)
(* A run.                                                                  *)
(***************************************************************************)
Locations ==
  {"idle", "lstat", "name", "open", "lstat2", "read", "mkstemp", "fill",
   "replace", "cleanup", "ended", "crashed"}

Run ==
  [force: BOOLEAN, loaded: Glossaries,
   info: Inodes \cup {None}, fd: Inodes \cup {None}, fdMode: Modes,
   base: Contents \cup {None}, baseInode: Inodes \cup {None}, baseMode: Modes,
   outcome: Outcomes]

Blank(g) ==
  [force |-> FALSE, loaded |-> g, info |-> None, fd |-> None,
   fdMode |-> DefaultMode, base |-> None, baseInode |-> None,
   baseMode |-> DefaultMode, outcome |-> "none"]

\* The descriptor of read_regular_target is closed when it returns.
Closed(r) == [r EXCEPT !.info = None, !.fd = None, !.fdMode = DefaultMode]

(***************************************************************************)
(* The file system around the runs.                                        *)
(***************************************************************************)
\* Inodes neither named nor open; os.replace and editors allocate from them.
Open(p) == pc[p] \in {"lstat2", "read"}
Free ==
  Inodes \ ({entry, Elsewhere} \cup {run[p].fd : p \in {q \in Procs : Open(q)}})

\* The recheck of run p has begun: its temporary is complete.
Rechecking(p) == temp[p] = "complete"

\* Runs whose recheck has passed one of the locations L.
Passed(L) == {p \in Procs : Rechecking(p) /\ pc[p] \in L}

\* What a change of the directory entry, of the bytes in place, of the mode
\* and of the name's spelling escapes: recheck reads them at different steps.
AfterEntryCheck == Passed({"read", "replace"})
AfterBytesCheck == Passed({"replace"})
AfterModeCheck  == Passed({"lstat2", "read", "replace"})
AfterNameCheck  == Passed({"open", "lstat2", "read", "replace"})

(***************************************************************************)
(* Editors, version control and saves: everything outside the runs.        *)
(***************************************************************************)
\* `glossabet save` publishes another version; runs keep the one they loaded.
SaveGlossary(g) ==
  /\ glossary' = g
  /\ UNCHANGED <<entry, spelled, files, pc, run, temp, late>>

\* The bytes of the target change in place.
RewriteInPlace(c) ==
  /\ entry # None /\ files[entry].kind = "file"
  /\ files' = [files EXCEPT ![entry].content = c]
  /\ late' = late \cup AfterBytesCheck
  /\ UNCHANGED <<glossary, entry, spelled, pc, run, temp>>

ChangeMode(m) ==
  /\ entry # None /\ files[entry].kind = "file"
  /\ files' = [files EXCEPT ![entry].mode = m]
  /\ late' = late \cup AfterModeCheck
  /\ UNCHANGED <<glossary, entry, spelled, pc, run, temp>>

\* An editor saves by renaming a new file, or puts a link or something else
\* in the target's place; also how an absent target comes to exist.
PutFile(f, exact) ==
  /\ exact \/ CaseFolding
  /\ \E i \in Free :
       /\ entry' = i
       /\ files' = [files EXCEPT ![i] = f]
  /\ spelled' = exact
  /\ late' = late \cup AfterEntryCheck \cup (IF exact THEN {} ELSE AfterNameCheck)
  /\ UNCHANGED <<glossary, pc, run, temp>>

RemoveTarget ==
  /\ entry # None
  /\ entry' = None
  /\ spelled' = TRUE
  /\ late' = late \cup AfterEntryCheck
  /\ UNCHANGED <<glossary, files, pc, run, temp>>

\* A case-only rename on a case-insensitive filesystem.
Respell ==
  /\ CaseFolding /\ entry # None
  /\ spelled' = ~spelled
  /\ late' = late \cup (IF spelled THEN AfterNameCheck ELSE {})
  /\ UNCHANGED <<glossary, entry, files, pc, run, temp>>

(***************************************************************************)
(* A run of sync-context.                                                  *)
(***************************************************************************)
shared == <<glossary, entry, spelled, files>>

\* Variant: the temporary is not unlinked when the recheck refuses.
Refuse_KeepsTemporary(p) ==
  /\ pc' = [pc EXCEPT ![p] = "ended"]
  /\ run' = [run EXCEPT ![p] = [Blank(run[p].loaded) EXCEPT !.outcome = "refused"]]
  /\ UNCHANGED <<shared, temp, late>>

\* ContextSyncError or OSError: an exception inside replace_file_atomic
\* unlinks the temporary first.
Refuse(p) ==
  /\ pc' = [pc EXCEPT ![p] = IF temp[p] = "none" THEN "ended" ELSE "cleanup"]
  /\ run' = [run EXCEPT ![p] = [Blank(run[p].loaded) EXCEPT !.outcome = "refused"]]
  /\ UNCHANGED <<shared, temp, late>>

Go(p, location) == pc' = [pc EXCEPT ![p] = location]

\* open_run loads the glossary once, then read_regular_target begins.
Start(p, force) ==
  /\ pc[p] \in {"idle", "ended"} /\ temp[p] = "none"
  /\ run' = [run EXCEPT ![p] = [Blank(glossary) EXCEPT !.force = force]]
  /\ Go(p, "lstat")
  /\ UNCHANGED <<shared, temp, late>>

\* The first read is complete: analyse the text and plan.
Plan(p, c, i, m) ==
  LET g == run[p].loaded IN
  IF Refuses(c, g, run[p].force) THEN Refuse(p)
  ELSE /\ IF StatusOf(c, g) = "current"
            THEN /\ run' = [run EXCEPT ![p] = [Blank(g) EXCEPT !.outcome = "current"]]
                 /\ Go(p, "ended")
            ELSE /\ run' = [run EXCEPT ![p] =
                      [Closed(run[p]) EXCEPT !.base = c, !.baseInode = i, !.baseMode = m]]
                 /\ Go(p, "mkstemp")
       /\ UNCHANGED <<shared, temp, late>>

\* The recheck is satisfied: its descriptor is closed.
Ready(p) ==
  /\ Go(p, "replace")
  /\ run' = [run EXCEPT ![p] = Closed(run[p])]
  /\ UNCHANGED <<shared, temp, late>>

\* Variant: a run that found no file does not compare what is there now.
Recheck_TrustsAbsence(p, c, i, m) ==
  IF run[p].base = None \/ (c = run[p].base /\ i = run[p].baseInode)
    THEN Ready(p) ELSE Refuse(p)

\* Variant: a run whose target changed reads it once more.
Recheck_Retries(p, c, i, m) ==
  IF c = run[p].base /\ i = run[p].baseInode THEN Ready(p)
  ELSE /\ Go(p, "lstat")
       /\ UNCHANGED <<shared, run, temp, late>>

\* _require_unchanged_target: the second read is complete.
Recheck(p, c, i, m) ==
  IF /\ c = run[p].base
     /\ i = run[p].baseInode
     /\ run[p].base # None => m = run[p].baseMode
  THEN Ready(p)
  ELSE Refuse(p)

\* read_regular_target returned bytes c (None: absent), identity i, mode m.
Got(p, c, i, m) ==
  IF Rechecking(p) THEN Recheck(p, c, i, m) ELSE Plan(p, c, i, m)

\* path.lstat(): absence is an answer; a link, a special file or a file over
\* the cap ends in an error whatever the name check says.
Lstat(p) ==
  /\ pc[p] = "lstat"
  /\ \/ /\ entry = None
        /\ Got(p, None, None, DefaultMode)
     \/ /\ entry # None
        /\ IF files[entry].kind = "file" /\ files[entry].content.data # "oversize"
             THEN /\ run' = [run EXCEPT ![p].info = entry]
                  /\ Go(p, "name")
                  /\ UNCHANGED <<shared, temp, late>>
             ELSE Refuse(p)

\* entry_named_exactly: only a confirmed exact name lets the read go on; a
\* different spelling, an absent entry and an unprovable listing all refuse.
NameConfirmed(p) ==
  /\ pc[p] = "name"
  /\ entry # None /\ spelled
  /\ Go(p, "open")
  /\ UNCHANGED <<shared, run, temp, late>>

NameUnconfirmed(p) == pc[p] = "name" /\ Refuse(p)

\* os.open and os.fstat.  Without O_NOFOLLOW a link is followed.
OpenTarget(p) ==
  /\ pc[p] = "open"
  /\ IF entry = None \/ (files[entry].kind = "link" /\ NoFollow)
       THEN Refuse(p)
       ELSE LET i == IF files[entry].kind = "link" THEN Elsewhere ELSE entry IN
            /\ run' = [run EXCEPT ![p] = [run[p] EXCEPT !.fd = i, !.fdMode = files[i].mode]]
            /\ Go(p, "lstat2")
            /\ UNCHANGED <<shared, temp, late>>

\* Variant: the opened file is trusted once it is a regular one.
LstatAgain_TrustsOpen(p) ==
  /\ pc[p] = "lstat2"
  /\ IF KnownIdentity /\ files[run[p].fd].kind = "file"
       THEN /\ Go(p, "read")
            /\ UNCHANGED <<shared, run, temp, late>>
       ELSE Refuse(p)

\* The second lstat: the three identities must be one, known and regular.
LstatAgain(p) ==
  /\ pc[p] = "lstat2"
  /\ IF /\ KnownIdentity
        /\ entry # None
        /\ run[p].info = run[p].fd /\ run[p].fd = entry
        /\ files[run[p].fd].kind = "file"
       THEN /\ Go(p, "read")
            /\ UNCHANGED <<shared, run, temp, late>>
       ELSE Refuse(p)

\* The bounded read through the descriptor.
ReadBytes(p) ==
  /\ pc[p] = "read"
  /\ LET f == files[run[p].fd] IN
     IF f.content.data = "oversize"
       THEN Refuse(p)
       ELSE Got(p, f.content, run[p].fd, run[p].fdMode)

\* replace_file_atomic: mkstemp, then write, flush, fsync and chmod, then the
\* recheck begins with its own lstat.
MakeTemporary(p) ==
  /\ pc[p] = "mkstemp"
  /\ temp' = [temp EXCEPT ![p] = "partial"]
  /\ Go(p, "fill")
  /\ UNCHANGED <<shared, run, late>>

FillTemporary(p) ==
  /\ pc[p] = "fill"
  /\ temp' = [temp EXCEPT ![p] = "complete"]
  /\ late' = late \ {p}
  /\ Go(p, "lstat")
  /\ UNCHANGED <<shared, run>>

\* os.replace: the temporary's inode takes the target's name.
Replace(p) ==
  /\ pc[p] = "replace"
  /\ LET r == run[p] IN
     /\ \E i \in Free :
          /\ entry' = i
          /\ files' = [files EXCEPT ![i] =
               [kind |-> "file", content |-> Spliced(r.base, r.loaded),
                mode |-> r.baseMode]]
     /\ spelled' \in {TRUE, spelled}
     /\ run' = [run EXCEPT ![p] =
          [Blank(r.loaded) EXCEPT !.outcome = OutcomeOf(r.base, r.loaded)]]
  /\ temp' = [temp EXCEPT ![p] = "none"]
  /\ late' = (late \cup AfterEntryCheck) \ {p}
  /\ Go(p, "ended")
  /\ UNCHANGED glossary

\* Any system call of the run may fail with OSError.
SystemError(p) ==
  /\ pc[p] \in {"lstat", "open", "lstat2", "read", "mkstemp", "fill", "replace"}
  /\ Refuse(p)

\* Path(temporary).unlink(); its own OSError is swallowed.
Cleanup(p) ==
  /\ pc[p] = "cleanup"
  /\ temp' \in {[temp EXCEPT ![p] = "none"], [temp EXCEPT ![p] = "leaked"]}
  /\ late' = late \ {p}
  /\ Go(p, "ended")
  /\ UNCHANGED <<shared, run>>

\* The process is killed: nothing is cleaned up.
Crash(p) ==
  /\ pc[p] \notin {"idle", "ended", "crashed"}
  /\ run' = [run EXCEPT ![p] = Blank(run[p].loaded)]
  /\ late' = late \ {p}
  /\ Go(p, "crashed")
  /\ UNCHANGED <<shared, temp>>

(***************************************************************************)
(* The specification.                                                      *)
(***************************************************************************)
Init ==
  /\ glossary \in Glossaries
  /\ files = [i \in Inodes |->
       [kind |-> "file", content |-> ForeignContent, mode |-> DefaultMode]]
  /\ entry = None
  /\ spelled = TRUE
  /\ pc = [p \in Procs |-> "idle"]
  /\ run = [p \in Procs |-> Blank(glossary)]
  /\ temp = [p \in Procs |-> "none"]
  /\ late = {}

Environment ==
  \/ \E g \in Glossaries : SaveGlossary(g)
  \/ \E c \in Contents : RewriteInPlace(c)
  \/ \E m \in Modes : ChangeMode(m)
  \/ \E f \in File, exact \in BOOLEAN : PutFile(f, exact)
  \/ RemoveTarget
  \/ Respell

Step(p) ==
  \/ Lstat(p) \/ NameConfirmed(p) \/ NameUnconfirmed(p) \/ OpenTarget(p)
  \/ LstatAgain(p) \/ ReadBytes(p) \/ MakeTemporary(p) \/ FillTemporary(p)
  \/ Replace(p) \/ SystemError(p) \/ Cleanup(p)

Begin(p) == \E force \in ForceChoices : Start(p, force)

Next == Environment \/ \E p \in Procs : Begin(p) \/ Step(p) \/ Crash(p)

Spec == Init /\ [][Next]_vars

\* The operating system keeps scheduling a run that has begun; nothing is
\* assumed of editors, of saves or of when runs begin.
FairSpec == Spec /\ \A p \in Procs : WF_vars(Step(p))

(***************************************************************************)
(* What there is to see of all this.                                       *)
(***************************************************************************)
\* How far run p is.
Stage(p) ==
  IF pc[p] \in {"idle", "cleanup", "ended", "crashed"} THEN "out"
  ELSE IF Rechecking(p) THEN "looking" ELSE "planning"

Standing ==
  IF entry = None THEN None
  ELSE [kind |-> files[entry].kind, content |-> files[entry].content,
        mode |-> files[entry].mode, exact |-> spelled]

Stages == [p \in Procs |-> Stage(p)]
Known == [p \in Procs |-> run[p].loaded]
Forced == [p \in Procs |-> run[p].force]
Told == [p \in Procs |-> run[p].outcome]
Escaped == {p \in late : Stage(p) = "looking"}

(***************************************************************************)
(* Properties.                                                             *)
(***************************************************************************)
TypeOK ==
  /\ glossary \in Glossaries
  /\ entry \in Inodes \cup {None}
  /\ spelled \in BOOLEAN
  /\ files \in [Inodes -> File]
  /\ pc \in [Procs -> Locations]
  /\ run \in [Procs -> Run]
  /\ temp \in [Procs -> {"none", "partial", "complete", "leaked"}]
  /\ late \subseteq Procs

\* The target is exactly what run p read first: absent, or the same regular
\* file under the exact name with the same bytes and mode.
TargetAsRead(p) ==
  LET r == run[p] IN
  IF r.base = None THEN entry = None
  ELSE /\ entry = r.baseInode
       /\ spelled
       /\ files[entry] = [kind |-> "file", content |-> r.base, mode |-> r.baseMode]

\* A run about to replace the target holds exactly what is there, unless
\* somebody changed it after the last look of the recheck at that part of it
\* (SECURITY.md: "An edit after the final recheck but before os.replace is
\* not prevented").  Nothing changed earlier can slip through.
NothingUnseenReplaced ==
  \A p \in Procs : pc[p] = "replace" /\ p \notin late => TargetAsRead(p)

\* The step in which run p replaces the target.
Commits(p) == pc[p] = "replace" /\ pc'[p] = "ended"

\* Outside that window no run replaces an edited block without --force, nor
\* an ambiguous one at all (context_sync.py, "malformed markers or metadata
\* are never overwritten").
EditsNeedForce ==
  [][\A p \in Procs : Commits(p) /\ p \notin late /\ entry # None =>
       LET status == Status(files[entry].content, run[p].loaded) IN
       /\ status # "collision"
       /\ status = "edited" => run[p].force]_vars

\* Outside that window a block that already is the current one for the run's
\* glossary is not written again, even when another run has just written it
\* (SECURITY.md: "One current deterministic block is a no-write result").
NoRedundantWrite ==
  [][\A p \in Procs : Commits(p) /\ p \notin late /\ entry # None =>
       Status(files[entry].content, run[p].loaded) # "current"]_vars

\* Outside that window the replacement keeps the text around the block and
\* the mode, and only ever takes the place of a decodable regular file.
SurroundingsKept ==
  [][\A p \in Procs : Commits(p) /\ p \notin late /\ entry # None =>
       LET old == files[entry] new == files'[entry'] IN
       /\ old.kind = "file" /\ old.content.data = "text"
       /\ new.content.outside = old.content.outside
       /\ new.mode = old.mode]_vars

\* A temporary outlives its run only if the process was killed or its unlink
\* failed (replace_file_atomic: "it is unlinked on any failure").
TemporariesAccounted ==
  \A p \in Procs : pc[p] \in {"idle", "lstat", "mkstemp", "ended"} =>
     \/ temp[p] \in {"none", "leaked"}
     \/ pc[p] = "lstat" /\ temp[p] = "complete"

\* Whatever happens between its calls, a run is one step on the file, and what
\* it tells of that step is so, but for a change after the recheck's last look
\* (SECURITY.md: "byte, mode, device, and inode recheck before replacement").
Promise ==
  INSTANCE ManagedFile WITH saved <- glossary, target <- Standing, stage <- Stages,
                            known <- Known, force <- Forced, told <- Told, late <- Escaped
FileSpec == Promise!Spec

\* Every run that has begun ends, however the target is edited meanwhile:
\* nothing is retried and nobody is waited for.
RunsEnd ==
  \A p \in Procs : pc[p] = "lstat" ~> pc[p] \in {"ended", "crashed"}
=============================================================================
