---------------------------- MODULE SkillInstall ----------------------------
(***************************************************************************)
(* `glossabet install`: the canonical skill, and for Claude Code the       *)
(* manifest and the session-start hook that make its folder a plugin.      *)
(*                                                                         *)
(* Each file is inspected, written to a temporary beside it and put in its *)
(* place by one rename; what is there is looked at again right before.     *)
(* Other installs, other programs, failing calls and a kill may come       *)
(* between any two of these.                                               *)
(***************************************************************************)
EXTENDS Naturals, Sequences, Absent

CONSTANTS
  Installs,        \* the running commands; also the versions they install
  Executables,     \* candidates of resolve_cli_executable, in order
  MaxMeddlings     \* bound: changes by other programs

\* What an executable says of its version to an install.
Verdicts == {"fits", "refused"}

ASSUME InstallAssumption ==
  /\ Executables \in Seq({Executables[n] : n \in DOMAIN Executables})
  /\ None \notin {0, 1, 9}
  /\ MaxMeddlings \in Nat

VARIABLES
  target,       \* what stands at each file's path
  linked,       \* whether a component of each file's path is a symlink
  answers,      \* what each executable answers to each install
  runs,         \* the local variables of each install
  strays,       \* temporaries no install will remove
  meddlings,
  changed,      \* of each install, the files others changed since it decided on them
  overwritten   \* what was replaced without being asked for, though it could be seen

installing == <<target, linked, answers, runs, strays, meddlings, changed, overwritten>>

InstalledFiles == {"skill", "manifest", "hook"}

\* What is at a path: nothing, a directory, a file of the user's, or one that
\* an install writes.
Thing(kind, by, names) == [kind |-> kind, by |-> by, names |-> names]
Nothing == Thing("nothing", None, None)
Directory == Thing("directory", None, None)
Other == Thing("other", None, None)

claude_plugin_files(i) == <<Thing("manifest", i, None), Thing("hook", i, runs[i].executable)>>

Remaining(i) == runs[i].files

Wanted(i) == Head(Remaining(i))
Path(i) == Wanted(i).kind

In(i, location) == runs[i].pc = location
Set(i, r) == runs' = [runs EXCEPT ![i] = r]
To(i, location) == [runs[i] EXCEPT !.pc = location]
World == <<target, linked, answers, strays, meddlings, overwritten>>
Alone(i, r) == Set(i, r) /\ UNCHANGED <<World, changed>>

\* A step that decides on the file by what it has just seen of it.
Decided(i, r) ==
  Set(i, r) /\ changed' = [changed EXCEPT ![i] = @ \ {Path(i)}] /\ UNCHANGED World

\* install_command's locals as it starts.
Started(i, force, plugin) ==
  [pc |-> "reject", force |-> force, plugin |-> plugin, existed |-> FALSE, outcome |-> None,
   files |-> <<Thing("skill", i, None)>>, outcomes |-> <<>>,
   executable |-> None, candidate |-> 1, code |-> None]

\* An InstallError, or an OSError turned into one, ends the command with 1.
Stop(i) == [Started(i, runs[i].force, runs[i].plugin) EXCEPT !.pc = "ended", !.files = <<>>, !.code = 1]

\* The file is as it should be: go on with the next one, or with the plugin.
Written(i, outcome) ==
  LET r == [runs[i] EXCEPT !.outcomes = Append(@, <<Wanted(i), outcome>>), !.files = Tail(@),
                           !.existed = FALSE, !.outcome = None]
  IN IF Len(Remaining(i)) > 1 THEN [r EXCEPT !.pc = "reject"]
     ELSE IF Path(i) = "skill" /\ runs[i].plugin THEN [r EXCEPT !.pc = "resolve"]
     ELSE [r EXCEPT !.pc = "ended", !.code = 0]

(***************************************************************************)
(* _install_file.                                                          *)
(***************************************************************************)
Reject(i) ==
  /\ In(i, "reject")
  /\ Alone(i, IF linked[Path(i)] THEN Stop(i) ELSE To(i, "look"))

\* The destination or the target may be there without being what it should.
Look(i) ==
  /\ In(i, "look")
  /\ CASE target[Path(i)] = Directory -> Alone(i, Stop(i))
       [] target[Path(i)] = Nothing -> Alone(i, To(i, "make parent"))
       [] OTHER -> Alone(i, [To(i, "read") EXCEPT !.existed = TRUE])

\* A file that cannot be read, or is different and not to be replaced, stays.
ReadExisting(i) ==
  /\ In(i, "read")
  /\ \/ Alone(i, Stop(i))
     \/ target[Path(i)] = Wanted(i) /\ Decided(i, Written(i, "current"))
     \/ /\ target[Path(i)] \notin {Wanted(i), Nothing, Directory}
        /\ Alone(i, IF runs[i].force THEN To(i, "make parent") ELSE Stop(i))

MakeParent(i) ==
  /\ In(i, "make parent")
  /\ \/ Alone(i, Stop(i))
     \/ ~linked[Path(i)] /\ Alone(i, To(i, "write"))

\* replace_file_atomic: a temporary that fails is removed, or cannot be.
Discard(i) ==
  /\ Set(i, Stop(i))
  /\ strays' \in {strays, strays \cup {<<i, Path(i)>>}}
  /\ UNCHANGED <<target, linked, answers, meddlings, overwritten, changed>>

WriteTemporary(i) ==
  /\ In(i, "write")
  /\ \/ Alone(i, Stop(i))
     \/ Discard(i)
     \/ Alone(i, To(i, "authorize"))

\* Variant: what was not there when it was looked for is not there.
Authorize_Trusts(i) ==
  /\ In(i, "authorize")
  /\ \/ /\ linked[Path(i)] \/ target[Path(i)] = Directory
        /\ Discard(i)
     \/ /\ ~linked[Path(i)] /\ target[Path(i)] # Directory
        /\ Decided(i, [To(i, "replace") EXCEPT
                       !.outcome = IF target[Path(i)] = Nothing THEN "installed" ELSE "replaced"])

\* require_authorized_target.
Authorize(i) ==
  LET there == target[Path(i)] # Nothing
      unforeseen == there /\ ~runs[i].existed /\ ~runs[i].force
  IN /\ In(i, "authorize")
     /\ \/ /\ linked[Path(i)] \/ target[Path(i)] = Directory \/ unforeseen
           /\ Discard(i)
        \/ /\ ~linked[Path(i)] /\ target[Path(i)] # Directory /\ ~unforeseen
           /\ Decided(i, [To(i, "replace") EXCEPT
                          !.outcome = IF there THEN "replaced" ELSE "installed"])

\* os.replace, which leads where the path leads by then.
Replace(i) ==
  /\ In(i, "replace")
  /\ \/ Discard(i)
     \/ /\ target[Path(i)] # Directory
        /\ target' = [target EXCEPT ![Path(i)] = Wanted(i)]
        /\ Set(i, Written(i, runs[i].outcome))
        /\ changed' = [j \in Installs |-> IF j = i THEN changed[i] \ {Path(i)} ELSE changed[j] \cup {Path(i)}]
        /\ overwritten' =
             IF target[Path(i)] # Nothing /\ ~runs[i].force /\ Path(i) \notin changed[i]
               THEN overwritten \cup {<<i, Path(i)>>} ELSE overwritten
        /\ UNCHANGED <<linked, answers, strays, meddlings>>

(***************************************************************************)
(* resolve_cli_executable.                                                 *)
(***************************************************************************)
\* The first candidate that says it is of this version, or none.
Resolve(i) ==
  /\ In(i, "resolve")
  /\ LET n == runs[i].candidate IN
     IF n > Len(Executables) THEN Alone(i, Stop(i))
     ELSE IF answers[Executables[n]][i] = "refused"
       THEN Alone(i, [runs[i] EXCEPT !.candidate = n + 1])
     ELSE Alone(i, [To(i, "plugin") EXCEPT !.executable = Executables[n]])

\* All files are made before the first is written; a path that cannot stand in
\* a command is refused then.
DescribePlugin(i) ==
  /\ In(i, "plugin")
  /\ \/ Alone(i, Stop(i))
     \/ Alone(i, [To(i, "reject") EXCEPT !.files = claude_plugin_files(i)])

(***************************************************************************)
(* The rest of the world.                                                  *)
(***************************************************************************)
KillInstall(i) ==
  /\ runs[i].pc # "ended"
  /\ Set(i, [Stop(i) EXCEPT !.code = 9])
  /\ strays' = IF runs[i].pc \in {"write", "authorize", "replace"}
                 THEN strays \cup {<<i, Path(i)>>} ELSE strays
  /\ UNCHANGED <<target, linked, answers, meddlings, overwritten, changed>>

Meddle ==
  /\ meddlings < MaxMeddlings /\ meddlings' = meddlings + 1
  /\ \E f \in InstalledFiles :
       /\ \/ \E x \in {Nothing, Directory, Other} \ {target[f]} :
               target' = [target EXCEPT ![f] = x] /\ UNCHANGED linked
          \/ linked' = [linked EXCEPT ![f] = ~@] /\ UNCHANGED target
       /\ changed' = [j \in Installs |-> changed[j] \cup {f}]
  /\ UNCHANGED <<answers, runs, strays, overwritten>>

InstallInit ==
  /\ target \in [InstalledFiles -> {Nothing, Other}]
  /\ linked = [f \in InstalledFiles |-> FALSE]
  /\ answers \in [{Executables[n] : n \in DOMAIN Executables} -> [Installs -> Verdicts]]
  /\ \E force, plugin \in [Installs -> BOOLEAN] :
       runs = [i \in Installs |-> Started(i, force[i], plugin[i])]
  /\ strays = {} /\ meddlings = 0 /\ overwritten = {} /\ changed = [i \in Installs |-> {}]

Install(i) ==
  \/ Reject(i) \/ Look(i) \/ ReadExisting(i) \/ MakeParent(i) \/ WriteTemporary(i)
  \/ Authorize(i) \/ Replace(i) \/ Resolve(i) \/ DescribePlugin(i)

InstallNext == Meddle \/ \E i \in Installs : Install(i) \/ KillInstall(i)

InstallSpec == InstallInit /\ [][InstallNext]_installing

(***************************************************************************)
(* Properties.                                                             *)
(***************************************************************************)

\* Without --force no file that differs is ever replaced, whoever made it and
\* whenever, unless it came after the last look at it; and a command that exits
\* with 0 has put every one of its files in place, the hook with an executable
\* that said it was of this version (install_command: "the caller cannot
\* mistake it for a complete ambient install").
InstallTrue ==
  /\ overwritten = {}
  /\ \A i \in Installs :
       runs[i].code = 0 =>
         /\ Len(runs[i].outcomes) = IF runs[i].plugin THEN 3 ELSE 1
         /\ \A n \in DOMAIN runs[i].outcomes :
              LET p == runs[i].outcomes[n][1] IN
              /\ target[p.kind] = p \/ p.kind \in changed[i]
              /\ p.kind = "hook" => answers[p.names][i] = "fits"
=============================================================================
