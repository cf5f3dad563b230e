----------------------------- MODULE CacheClear -----------------------------
(***************************************************************************)
(* `glossabet cache --clear` against the scans that write the same user    *)
(* cache.                                                                  *)
(*                                                                         *)
(* The cache root holds one directory per repository, named by a digest,   *)
(* holding cache.json.  Clearing classifies every child, renames the root  *)
(* to a sibling ("beside"), renames each child inside it before deleting   *)
(* from it, and puts back what it will not delete.  Scans meanwhile create *)
(* directories and temporaries by path, other programs drop or swap things *)
(* in the same place, and either side may be killed between two calls.     *)
(***************************************************************************)
EXTENDS Naturals, Absent

CONSTANTS
  Names,        \* repository digests: the children clear_cache recognises
  Writers,      \* concurrent scans saving their cache; also names of temporaries
  Ids,          \* directory identities (st_dev, st_ino), reused once free
  MaxForeign,   \* bound: changes made by programs other than glossabet
  Faults        \* TRUE iff calls may also fail for reasons nobody caused

\* What a directory of one repository may hold: the cache file, a file whose
\* name only starts like it, the temporary of a scan, anything else.
Items == {"cache.json", "cache.json.old", "foreign"} \cup Writers

Entry == [id: Ids, items: SUBSET Items]

\* A root: its children by digest, whether it has a child of any other name,
\* and the child renamed to a capture name, if one is.
Root ==
  [id: Ids, dir: BOOLEAN, kids: [Names -> Entry \cup {None}], extra: BOOLEAN,
   held: Entry \cup {None}]

ASSUME ClearAssumption ==
  /\ Names # {}
  /\ MaxForeign \in Nat
  /\ Faults \in BOOLEAN
  /\ None \notin Ids \cup Names /\ None \notin Entry /\ None \notin Root
  /\ Writers \cap {"cache.json", "cache.json.old", "foreign"} = {}

VARIABLES
  home,      \* what the cache path names: None or a root
  beside,    \* the captured root, or None
  clear,     \* local variables of clear_cache
  scan,      \* what each writer is doing
  foreign    \* changes other programs have made so far

vars == <<home, beside, clear, scan, foreign>>

(***************************************************************************)
(* Data.                                                                   *)
(***************************************************************************)
NoKids == [n \in Names |-> None]

NewRoot(i) ==
  [id |-> i, dir |-> TRUE, kids |-> NoKids, extra |-> FALSE, held |-> None]

Refusals == {"none", "unusable", "changed", "preserved"}

Locations ==
  {"idle", "list", "stat child", "list child", "capture root", "check root",
   "capture entry", "check entry", "relist", "unlink", "restore entry",
   "restore root", "done", "crashed"}

Clear ==
  [pc: Locations, seen: Ids \cup {None}, todo: SUBSET Names,
   current: Names \cup {None}, currentId: Ids \cup {None},
   known: [Names -> Ids \cup {None}], listing: SUBSET Items,
   existed: BOOLEAN, unrecognized: SUBSET (Names \cup {None}),
   refusal: Refusals, removed: SUBSET Names, rootRemoved: BOOLEAN,
   alone: BOOLEAN, faulted: BOOLEAN]

Fresh ==
  [pc |-> "idle", seen |-> None, todo |-> {}, current |-> None,
   currentId |-> None, known |-> NoKids, listing |-> {}, existed |-> FALSE,
   unrecognized |-> {}, refusal |-> "none", removed |-> {},
   rootRemoved |-> FALSE, alone |-> TRUE, faulted |-> FALSE]

Scan == [pc: {"idle", "mkdir", "mkroot", "mkentry", "mkstemp", "replace",
              "cleanup", "crashed"},
         repo: Names]

\* _cache_file_owned: the name is cache.json or starts with "cache.json.".
\* A temporary of write_json_atomic is named ".cache.json.<random>.tmp".
Owned(item) == item \in {"cache.json", "cache.json.old"}

\* The directories of repositories in a root, under whatever name.
Directories(r) == ({r.kids[n] : n \in Names} \cup {r.held}) \ {None}

IdsOf(r) == IF r = None THEN {} ELSE {r.id} \cup {e.id : e \in Directories(r)}

FreeIds == Ids \ (IdsOf(home) \cup IdsOf(beside))

\* The directory of repository n at its ordinary path, or None.
At(n) == IF home = None THEN None ELSE home.kids[n]

(***************************************************************************)
(* clear_cache.                                                            *)
(***************************************************************************)
world == <<home, beside, scan, foreign>>

Reached(location) == clear.pc = location
Then(c) == clear' = c /\ UNCHANGED world

\* The report is returned.
Finish(c) == [c EXCEPT !.pc = "done"]

Refused(reason) == Finish([clear EXCEPT !.refusal = reason])

\* root.lstat().  A later clear starts once nothing is left beside the path.
LookAtRoot ==
  /\ clear.pc \in {"idle", "done", "crashed"} /\ beside = None
  /\ LET c == [Fresh EXCEPT
                 !.alone = \A w \in Writers : scan[w].pc \in {"idle", "crashed"},
                 !.existed = home # None]
     IN Then(CASE home = None -> Finish(c)
               [] home # None /\ ~home.dir -> Finish([c EXCEPT !.refusal = "unusable"])
               [] OTHER -> [c EXCEPT !.pc = "list", !.seen = home.id])

\* os.scandir(root): children of other names are unrecognized at once.
ListRoot ==
  /\ Reached("list")
  /\ IF home = None \/ ~home.dir
       THEN Then(Refused("unusable"))
       ELSE Then([clear EXCEPT
              !.pc = "stat child",
              !.todo = {n \in Names : home.kids[n] # None},
              !.unrecognized = IF home.extra \/ home.held # None THEN {None} ELSE {}])

\* One child: lstat, then scandir and stat of its files.
StatChild(n) ==
  /\ Reached("stat child") /\ n \in clear.todo
  /\ IF At(n) = None
       THEN Then([clear EXCEPT !.todo = @ \ {n}, !.unrecognized = @ \cup {n}])
       ELSE Then([clear EXCEPT !.todo = @ \ {n}, !.pc = "list child",
                               !.current = n, !.currentId = At(n).id])

ListChild ==
  /\ Reached("list child")
  /\ LET n == clear.current
         recognized == At(n) # None /\ \A item \in At(n).items : Owned(item)
         next == [clear EXCEPT !.pc = "stat child", !.current = None, !.currentId = None]
     IN Then(IF recognized THEN [next EXCEPT !.known[n] = clear.currentId]
             ELSE [next EXCEPT !.unrecognized = @ \cup {n}])

\* Mixed or unreadable roots stay wholly untouched.
Decide ==
  /\ Reached("stat child") /\ clear.todo = {}
  /\ Then(IF clear.unrecognized # {} THEN Finish(clear)
          ELSE [clear EXCEPT !.pc = "capture root"])

\* os.rename(root, captured_root).
CaptureRoot ==
  /\ Reached("capture root")
  /\ IF home = None THEN Then(Refused("changed"))
     ELSE /\ beside' = home
          /\ home' = None
          /\ clear' = [clear EXCEPT !.pc = "check root"]
          /\ UNCHANGED <<scan, foreign>>

\* The captured root must be the directory first looked at.
CheckRoot ==
  /\ Reached("check root")
  /\ Then(IF beside.dir /\ beside.id = clear.seen
            THEN [clear EXCEPT !.pc = "capture entry"]
            ELSE [clear EXCEPT !.pc = "restore root"])

\* os.rename(entry, captured_entry) for the next recognized child.
CaptureEntry(n) ==
  /\ Reached("capture entry") /\ clear.known[n] # None /\ n \notin clear.removed
  /\ IF beside.kids[n] = None
       THEN Then([clear EXCEPT !.unrecognized = @ \cup {n}, !.pc = "restore root"])
       ELSE /\ beside' = [beside EXCEPT !.kids[n] = None, !.held = beside.kids[n]]
            /\ clear' = [clear EXCEPT !.current = n, !.pc = "check entry"]
            /\ UNCHANGED <<home, scan, foreign>>

\* The entry will not be deleted after all.
GiveUpEntry(c) == [c EXCEPT !.pc = "restore entry", !.listing = {},
                            !.unrecognized = @ \cup {c.current}]

\* Variants: the identity comparison, or the second judgement, is left out.
CheckEntry_ByName ==
  /\ Reached("check entry")
  /\ Then([clear EXCEPT !.pc = "relist"])

CheckEntry ==
  /\ Reached("check entry")
  /\ Then(IF beside.held.id = clear.known[clear.current]
            THEN [clear EXCEPT !.pc = "relist"] ELSE GiveUpEntry(clear))

Relist_TrustsClassification ==
  /\ Reached("relist")
  /\ Then([clear EXCEPT !.pc = "unlink", !.listing = beside.held.items])

\* The captured directory is listed and judged again.
Relist ==
  /\ Reached("relist")
  /\ LET items == beside.held.items IN
     Then(IF \A item \in items : Owned(item)
            THEN [clear EXCEPT !.pc = "unlink", !.listing = items]
            ELSE GiveUpEntry(clear))

\* os.unlink of one listed file.  The stat just before it is the one the
\* directory entry cached during the relist, so it decides nothing.
Unlink(item) ==
  /\ Reached("unlink") /\ item \in clear.listing
  /\ IF item \in beside.held.items
       THEN /\ beside' = [beside EXCEPT !.held.items = @ \ {item}]
            /\ clear' = [clear EXCEPT !.listing = @ \ {item}]
            /\ UNCHANGED <<home, scan, foreign>>
       ELSE Then(GiveUpEntry(clear))

\* captured_entry.rmdir().
RemoveEntry ==
  /\ Reached("unlink") /\ clear.listing = {}
  /\ IF beside.held.items = {}
       THEN /\ beside' = [beside EXCEPT !.held = None]
            /\ clear' = [clear EXCEPT !.pc = "capture entry", !.current = None,
                                      !.removed = @ \cup {clear.current}]
            /\ UNCHANGED <<home, scan, foreign>>
       ELSE Then(GiveUpEntry(clear))

\* captured_root.rmdir(), then os.path.lexists(root) for the report.
RemoveRoot ==
  /\ Reached("capture entry")
  /\ \A n \in Names : clear.known[n] # None => n \in clear.removed
  /\ IF beside.kids = NoKids /\ ~beside.extra /\ beside.held = None
       THEN /\ beside' = None
            /\ clear' = Finish([clear EXCEPT !.rootRemoved = home = None])
            /\ UNCHANGED <<home, scan, foreign>>
       ELSE Then([clear EXCEPT !.pc = "restore root"])

\* _restore_capture(captured_entry, entry).
RestoreEntry ==
  /\ Reached("restore entry")
  /\ LET n == clear.current IN
     /\ beside' = IF beside.kids[n] = None
                    THEN [beside EXCEPT !.kids[n] = beside.held, !.held = None]
                    ELSE beside
     /\ clear' = [clear EXCEPT !.pc = "restore root", !.current = None]
     /\ UNCHANGED <<home, scan, foreign>>

\* Variant: the outcome of putting the root back is never looked at.
RestoreRoot_Hopeful ==
  /\ Reached("restore root")
  /\ IF home = None
       THEN /\ home' = beside
            /\ beside' = None
            /\ clear' = Refused("changed")
            /\ UNCHANGED <<scan, foreign>>
       ELSE Then(Refused("changed"))

\* _restore_capture(captured_root, root), and the reason reported with it.
RestoreRoot ==
  /\ Reached("restore root")
  /\ IF home = None
       THEN /\ home' = beside
            /\ beside' = None
            /\ clear' = Refused("changed")
            /\ UNCHANGED <<scan, foreign>>
       ELSE Then(Refused("preserved"))

\* One call fails without anybody's doing.  An lstat right after the root's
\* rename is special: whether putting it back worked is not reported.
Fault ==
  /\ Faults /\ ~clear.faulted
  /\ LET c == [clear EXCEPT !.faulted = TRUE] IN
     CASE clear.pc = "list" -> Then(Finish([c EXCEPT !.refusal = "unusable"]))
       [] clear.pc = "capture root" -> Then(Finish([c EXCEPT !.refusal = "changed"]))
       [] clear.pc = "list child" ->
            Then([c EXCEPT !.pc = "stat child", !.current = None, !.currentId = None,
                           !.unrecognized = @ \cup {clear.current}])
       [] clear.pc = "check root" ->
            /\ clear' = Finish([c EXCEPT !.refusal = "changed"])
            /\ home' = IF home = None THEN beside ELSE home
            /\ beside' = IF home = None THEN None ELSE beside
            /\ UNCHANGED <<scan, foreign>>
       [] clear.pc = "capture entry" ->
            LET left == {n \in Names : clear.known[n] # None} \ clear.removed IN
            \/ left = {} /\ Then([c EXCEPT !.pc = "restore root"])
            \/ \E n \in left : Then([c EXCEPT !.pc = "restore root",
                                             !.unrecognized = @ \cup {n}])
       [] clear.pc \in {"check entry", "relist", "unlink"} -> Then(GiveUpEntry(c))
       [] clear.pc = "restore entry" ->
            Then([c EXCEPT !.pc = "restore root", !.current = None])
       [] clear.pc = "restore root" -> Then(Finish([c EXCEPT !.refusal = "preserved"]))
       [] OTHER -> FALSE

\* The process is killed.
CrashClear ==
  /\ clear.pc \notin {"idle", "done", "crashed"}
  /\ Then([Fresh EXCEPT !.pc = "crashed"])

ClearStep ==
  \/ ListRoot \/ ListChild \/ Decide \/ CaptureRoot \/ CheckRoot
  \/ CheckEntry \/ Relist \/ RemoveEntry \/ RemoveRoot
  \/ RestoreEntry \/ RestoreRoot \/ Fault
  \/ \E n \in Names : StatChild(n) \/ CaptureEntry(n)
  \/ \E item \in Items : Unlink(item)

(***************************************************************************)
(* save_cache in a scan: write_json_atomic, every call by path.            *)
(***************************************************************************)
\* Anybody else's step during a clear is noted for the properties.
Disturb == clear' = [clear EXCEPT !.alone = @ /\ clear.pc \in {"idle", "done", "crashed"}]

Put(w, location) == scan' = [scan EXCEPT ![w].pc = location]
Scans(w, location) == scan[w].pc = location /\ Disturb /\ UNCHANGED <<beside, foreign>>

SetEntry(n, e) == home' = [home EXCEPT !.kids[n] = e]
Keep == UNCHANGED home

SaveCache(w, n) ==
  /\ Scans(w, "idle") /\ Keep
  /\ scan' = [scan EXCEPT ![w] = [pc |-> "mkdir", repo |-> n]]

\* path.parent.mkdir(parents=True, exist_ok=True): the directory, or after a
\* FileNotFoundError its parent and then the directory once more.
MakeEntry(w) ==
  LET n == scan[w].repo IN
  /\ scan[w].pc \in {"mkdir", "mkentry"} /\ Scans(w, scan[w].pc)
  /\ CASE home = None -> Keep /\ Put(w, IF scan[w].pc = "mkdir" THEN "mkroot" ELSE "idle")
       [] home # None /\ ~home.dir -> Keep /\ Put(w, "idle")
       [] home # None /\ home.dir /\ At(n) # None -> Keep /\ Put(w, "mkstemp")
       [] OTHER -> /\ \E i \in FreeIds : SetEntry(n, [id |-> i, items |-> {}])
                   /\ Put(w, "mkstemp")

MakeRoot(w) ==
  /\ Scans(w, "mkroot")
  /\ IF home = None THEN \E i \in FreeIds : home' = NewRoot(i) ELSE Keep
  /\ Put(w, "mkentry")

MakeTemporary(w) ==
  LET n == scan[w].repo IN
  /\ Scans(w, "mkstemp")
  /\ IF At(n) = None THEN Keep /\ Put(w, "idle")
     ELSE /\ SetEntry(n, [At(n) EXCEPT !.items = @ \cup {w}])
          /\ Put(w, "replace")

\* os.replace(temporary, path).
ReplaceCache(w) ==
  LET n == scan[w].repo IN
  /\ Scans(w, "replace")
  /\ IF At(n) # None /\ w \in At(n).items
       THEN /\ SetEntry(n, [At(n) EXCEPT !.items = (@ \ {w}) \cup {"cache.json"}])
            /\ Put(w, "idle")
       ELSE Keep /\ Put(w, "cleanup")

\* The temporary is unlinked after a failure; its own failure is swallowed.
CleanUp(w) ==
  LET n == scan[w].repo IN
  /\ Scans(w, "cleanup")
  /\ IF At(n) # None /\ w \in At(n).items
       THEN SetEntry(n, [At(n) EXCEPT !.items = @ \ {w}])
       ELSE Keep
  /\ Put(w, "idle")

\* A scan is killed: its temporary stays where it is.
CrashScan(w) ==
  /\ scan[w].pc \notin {"idle", "crashed"} /\ Scans(w, scan[w].pc)
  /\ Keep /\ Put(w, "crashed")

ScanStep(w) ==
  \/ MakeEntry(w) \/ MakeRoot(w) \/ MakeTemporary(w) \/ ReplaceCache(w)
  \/ CleanUp(w) \/ CrashScan(w)

(***************************************************************************)
(* Other programs.                                                         *)
(***************************************************************************)
Meddle == /\ foreign < MaxForeign
          /\ foreign' = foreign + 1
          /\ Disturb /\ UNCHANGED scan

\* A file appears in a repository's directory, by path, or through a handle
\* somebody kept on a directory that has been renamed away.
DropFile(n) ==
  /\ Meddle /\ UNCHANGED beside
  /\ At(n) # None
  /\ \E item \in {"foreign", "cache.json.old"} :
       SetEntry(n, [At(n) EXCEPT !.items = @ \cup {item}])

DropFileBeside ==
  /\ Meddle /\ Keep
  /\ beside # None /\ beside.held # None
  /\ beside' = [beside EXCEPT !.held.items = @ \cup {"foreign"}]

\* A child of another name appears in the root.
DropChild ==
  /\ Meddle /\ UNCHANGED beside
  /\ home # None /\ home.dir
  /\ home' = [home EXCEPT !.extra = TRUE]

\* A repository's directory, or the root, is replaced by another one.
SwapEntry(n) ==
  /\ Meddle /\ UNCHANGED beside
  /\ At(n) # None
  /\ \E i \in FreeIds, items \in {{"foreign"}, {"cache.json"}} :
       SetEntry(n, [id |-> i, items |-> items])

SwapRoot(dir) ==
  /\ Meddle /\ UNCHANGED beside
  /\ \E i \in FreeIds : home' = [NewRoot(i) EXCEPT !.dir = dir, !.extra = dir]

ForeignStep ==
  \/ DropFileBeside \/ DropChild
  \/ \E n \in Names : DropFile(n) \/ SwapEntry(n)
  \/ \E dir \in BOOLEAN : SwapRoot(dir)

(***************************************************************************)
(* The specification.                                                      *)
(***************************************************************************)
Init ==
  /\ home = None
  /\ beside = None
  /\ clear = Fresh
  /\ scan \in [Writers -> {[pc |-> "idle", repo |-> CHOOSE n \in Names : TRUE]}]
  /\ foreign = 0

Next ==
  \/ LookAtRoot \/ ClearStep \/ CrashClear
  \/ \E w \in Writers : ScanStep(w) \/ \E n \in Names : SaveCache(w, n)
  \/ ForeignStep

Spec == Init /\ [][Next]_vars

(***************************************************************************)
(* Properties.                                                             *)
(***************************************************************************)
\* What a root holds that is not in Glossabet's own layout, each with the
\* identity of the directory that holds it.
Unowned(r) ==
  IF r = None THEN {}
  ELSE {x \in Ids \X Items : /\ ~Owned(x[2])
                            /\ \E e \in Directories(r) : e.id = x[1] /\ x[2] \in e.items}
         \cup (IF r.extra THEN {<<r.id, "child">>} ELSE {})

\* No step of clear_cache destroys anything that is not in the layout it
\* recognises, a live scan's temporary included, wherever it appeared and
\* whenever: every such thing is still under the cache path or beside it.
NeverDeletesForeign ==
  [][scan' = scan /\ foreign' = foreign =>
       Unowned(home') \cup Unowned(beside') = Unowned(home) \cup Unowned(beside)]_vars

\* Files are unlinked only in the very directory that was classified, and
\* only if the classification accepts them (clear_cache: "each expected child
\* are atomically captured and identity-checked before only the known regular
\* files are unlinked").
DeletesOnlyClassified ==
  clear.pc = "unlink" =>
    /\ clear.unrecognized = {}
    /\ beside.held.id = clear.known[clear.current]
    /\ \A item \in clear.listing : Owned(item)

\* What a clear reports is so: a root left beside the cache path is reported
\* as preserved there, no directory stays behind under a capture name without
\* being reported, and
\* "cache directory removed" means every recognised repository is gone.
TruthfulReport ==
  clear.pc = "done" /\ ~clear.faulted =>
    /\ beside # None => clear.refusal = "preserved"
    /\ \A r \in {home, beside} \ {None} : r.held # None => None \in clear.unrecognized
    /\ clear.rootRemoved =>
         /\ clear.refusal = "none" /\ clear.unrecognized = {}
         /\ \A n \in Names : clear.known[n] # None => n \in clear.removed

\* clear_cache (cache.py): "any foreign or unreadable entry leaves the whole
\* root in place and is reported, so a misconfigured GLOSSABET_CACHE_DIR can
\* never be partly cleared".
NeverPartlyCleared ==
  clear.pc = "done" /\ clear.unrecognized # {} => clear.removed = {}

\* clear_cache (cache.py): "Only a root containing exactly the layout
\* Glossabet writes is removed: <root>/<64-hex>/cache.json entries plus
\* cache.json.* temporaries".  So a root only scans wrote to goes away when
\* nothing else is running.
OwnLayoutIsCleared ==
  clear.pc = "done" /\ clear.alone /\ clear.existed /\ foreign = 0 => clear.rootRemoved
=============================================================================
