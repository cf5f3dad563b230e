-------------------------- MODULE CacheClearProofs --------------------------
(***************************************************************************)
(* Proofs about CacheClear for every number of repositories, scans,        *)
(* identities and foreign changes.                                         *)
(***************************************************************************)
EXTENDS CacheClear, TLAPS

TypeOK ==
  /\ home \in Root \cup {None}
  /\ beside \in Root \cup {None}
  /\ clear \in Clear
  /\ scan \in [Writers -> Scan]
  /\ foreign \in Nat

\* Before the root is captured, with it captured, with a child captured too.
Looking == {"list", "stat child", "list child", "capture root"}
Holding == {"check entry", "relist", "unlink", "restore entry"}
Captured == {"check root", "capture entry", "restore root"} \cup Holding

\* What stands where, at each location of clear_cache.
Placed ==
  /\ clear.pc \in Looking => beside = None
  /\ clear.pc \in Captured => beside # None
  /\ clear.pc \in Holding =>
       clear.current \in Names /\ beside.held # None /\ beside.kids[clear.current] = None
  /\ clear.pc \in {"capture entry"} \cup Holding => beside.dir
  /\ clear.pc \in {"check root", "capture entry"} => beside.held = None
  /\ clear.pc = "restore root" /\ ~clear.faulted => beside.held = None

\* A capture name in the root at the path is left from an earlier clear, and
\* noticed when the root is listed.
CapturesNoticed ==
  /\ \A r \in {home, beside} \ {None} : ~r.dir => r.held = None
  /\ clear.pc \in Captured /\ home # None => home.held = None
  /\ clear.pc \in Looking \ {"list"} /\ home # None /\ home.held # None =>
       None \in clear.unrecognized

\* What is being deleted was recognised, and nothing is reported too early.
Judged ==
  /\ clear.pc \in {"capture root", "check root", "capture entry", "check entry", "relist", "unlink"} =>
       clear.unrecognized = {}
  /\ clear.pc \in {"relist", "unlink"} => beside.held.id = clear.known[clear.current]
  /\ clear.pc = "unlink" => \A item \in clear.listing : Owned(item)
  /\ clear.pc # "done" => clear.refusal = "none" /\ ~clear.rootRemoved

\* The inductive invariant.
IInv == TypeOK /\ Placed /\ CapturesNoticed /\ Judged /\ TruthfulReport

(***************************************************************************)
(* Types.                                                                  *)
(***************************************************************************)
LEMMA FreshType ==
  /\ Fresh \in Clear /\ Fresh.pc = "idle" /\ Fresh.refusal = "none"
  /\ ~Fresh.rootRemoved /\ Fresh.unrecognized = {}
  BY ClearAssumption DEF Fresh, Clear, NoKids, Locations, Refusals

LEMMA NewRootType ==
  ASSUME NEW i \in Ids
  PROVE  NewRoot(i) \in Root /\ NewRoot(i).dir /\ NewRoot(i).held = None /\ NewRoot(i) # None
  <1>1. NewRoot(i) \in Root
    BY DEF NewRoot, Root, NoKids
  <1> QED
    BY <1>1, ClearAssumption DEF NewRoot

\* The inductive invariant holds initially.
LEMMA InitIInv == Init => IInv
  <1> SUFFICES ASSUME Init PROVE IInv
    OBVIOUS
  <1>1. [pc |-> "idle", repo |-> CHOOSE n \in Names : TRUE] \in Scan
    BY ClearAssumption DEF Scan
  <1>2. TypeOK
    BY <1>1, FreshType DEF Init, TypeOK
  <1>3. Placed /\ CapturesNoticed /\ Judged /\ TruthfulReport
    BY FreshType DEF Init, Placed, CapturesNoticed, Judged, TruthfulReport, Looking, Captured, Holding
  <1> QED
    BY <1>2, <1>3 DEF IInv

(***************************************************************************)
(* Every step.                                                             *)
(***************************************************************************)
\* A step of clear_cache that touches no directory keeps the invariant if
\* what it makes of its locals c fits what stands where.
LEMMA LocalStep ==
  ASSUME IInv, NEW c \in Clear, Then(c),
         c.pc \in Looking => beside = None,
         c.pc \in Captured => beside # None,
         c.pc \in Captured /\ home # None => home.held = None,
         c.pc \in Holding => /\ c.current \in Names /\ beside.held # None
                             /\ beside.kids[c.current] = None,
         c.pc \in {"capture entry"} \cup Holding => beside.dir,
         c.pc \in {"check root", "capture entry"} => beside.held = None,
         c.pc = "restore root" /\ ~c.faulted => beside.held = None,
         c.pc \in Looking \ {"list"} /\ home # None /\ home.held # None => None \in c.unrecognized,
         c.pc \in {"capture root", "check root", "capture entry", "check entry", "relist", "unlink"} =>
           c.unrecognized = {},
         c.pc \in {"relist", "unlink"} => beside.held.id = c.known[c.current],
         c.pc = "unlink" => \A item \in c.listing : Owned(item),
         c.pc # "done" => c.refusal = "none" /\ ~c.rootRemoved,
         c.pc = "done" /\ ~c.faulted =>
           /\ ~c.rootRemoved
           /\ beside # None => c.refusal = "preserved"
           /\ \A r \in {home, beside} \ {None} : r.held # None => None \in c.unrecognized
  PROVE  IInv'
  BY ZenonT(30) DEF IInv, Then, world, TypeOK, Placed, CapturesNoticed, Judged, TruthfulReport

\* clear_cache looks.
LEMMA LookAtRootIInv == ASSUME IInv, LookAtRoot PROVE IInv'
  <1> DEFINE alone == \A w \in Writers : scan[w].pc \in {"idle", "crashed"}
             c == [Fresh EXCEPT !.alone = alone, !.existed = home # None]
  <1>1. c \in Clear /\ c.refusal = "none" /\ ~c.rootRemoved
    BY FreshType, ZenonT(30) DEF Clear
  <1>2. /\ beside = None
        /\ home = None => Then(Finish(c))
        /\ home # None /\ ~home.dir => Then(Finish([c EXCEPT !.refusal = "unusable"]))
        /\ home # None /\ home.dir => Then([c EXCEPT !.pc = "list", !.seen = home.id])
    BY DEF LookAtRoot
  <1> HIDE DEF c
  <1>3. CASE home = None
    <2> DEFINE d == Finish(c)
    <2>1. Then(d)
      BY <1>2, <1>3
    <2>2. d \in Clear /\ d.pc = "done" /\ ~d.rootRemoved
      BY <1>1 DEF Finish, Clear, Locations
    <2> HIDE DEF d
    <2> QED
      BY <1>2, <1>3, <2>1, <2>2, LocalStep DEF Looking, Captured, Holding
  <1>4. CASE home # None /\ ~home.dir
    <2> DEFINE d == Finish([c EXCEPT !.refusal = "unusable"])
    <2>1. Then(d)
      BY <1>2, <1>4
    <2>2. d \in Clear /\ d.pc = "done" /\ ~d.rootRemoved
      BY <1>1 DEF Finish, Clear, Locations, Refusals
    <2>3. home.held = None
      BY <1>4 DEF IInv, CapturesNoticed
    <2> HIDE DEF d
    <2> QED
      BY <1>2, <2>1, <2>2, <2>3, LocalStep DEF Looking, Captured, Holding
  <1>5. CASE home # None /\ home.dir
    <2> DEFINE d == [c EXCEPT !.pc = "list", !.seen = home.id]
    <2>1. Then(d)
      BY <1>2, <1>5
    <2>2. home.id \in Ids
      BY <1>5 DEF IInv, TypeOK, Root
    <2>3. d \in Clear /\ d.pc = "list" /\ ~d.rootRemoved /\ d.refusal = "none"
      BY <1>1, <2>2 DEF Clear, Locations
    <2> HIDE DEF d
    <2> QED
      BY <1>2, <2>1, <2>3, LocalStep DEF Looking, Captured, Holding
  <1> QED
    BY <1>3, <1>4, <1>5

LEMMA ListRootIInv == ASSUME IInv, ListRoot PROVE IInv'
  <1>1. /\ clear \in Clear /\ clear.refusal = "none" /\ ~clear.rootRemoved /\ beside = None
        /\ home \in Root \cup {None}
    BY DEF ListRoot, Reached, IInv, TypeOK, Placed, Judged, Looking
  <1>2. CASE home = None \/ ~home.dir
    <2> DEFINE d == Refused("unusable")
    <2>1. Then(d)
      BY <1>2 DEF ListRoot
    <2>2. d \in Clear /\ d.pc = "done" /\ ~d.rootRemoved
      BY <1>1 DEF Refused, Finish, Clear, Locations, Refusals
    <2>3. home # None => home.held = None
      BY <1>2 DEF IInv, CapturesNoticed
    <2> HIDE DEF d
    <2> QED
      BY <1>1, <2>1, <2>2, <2>3, LocalStep DEF Looking, Captured, Holding
  <1>3. CASE ~(home = None \/ ~home.dir)
    <2> DEFINE left == IF home.extra \/ home.held # None THEN {None} ELSE {}
               found == {n \in Names : home.kids[n] # None}
               d == [clear EXCEPT !.pc = "stat child", !.todo = found, !.unrecognized = left]
    <2>1. Then(d)
      BY <1>3 DEF ListRoot
    <2>2. left \in SUBSET (Names \cup {None}) /\ found \in SUBSET Names
      OBVIOUS
    <2>3. home.held # None => None \in left
      OBVIOUS
    <2> HIDE DEF left, found
    <2>4. d \in Clear /\ d.pc = "stat child" /\ ~d.rootRemoved /\ d.refusal = "none"
          /\ d.unrecognized = left
      BY <1>1, <2>2 DEF Clear, Locations
    <2> HIDE DEF d
    <2> QED
      BY <1>1, <2>1, <2>3, <2>4, LocalStep DEF Looking, Captured, Holding
  <1> QED
    BY <1>2, <1>3

\* A child is looked at, and recognised or not; more may become unrecognised.
LEMMA ChildIInv ==
  ASSUME IInv, NEW d \in Clear, Then(d),
         clear.pc \in {"stat child", "list child"}, d.pc \in {"stat child", "list child"},
         d.refusal = clear.refusal, d.rootRemoved = clear.rootRemoved,
         clear.unrecognized \subseteq d.unrecognized
  PROVE  IInv'
  <1>1. /\ clear.refusal = "none" /\ ~clear.rootRemoved /\ beside = None
        /\ home # None /\ home.held # None => None \in clear.unrecognized
    BY DEF IInv, Placed, CapturesNoticed, Judged, Looking
  <1> QED
    BY <1>1, LocalStep DEF Looking, Captured, Holding

LEMMA StatChildIInv == ASSUME IInv, NEW n \in Names, StatChild(n) PROVE IInv'
  <1>1. clear \in Clear /\ home \in Root \cup {None} /\ clear.pc = "stat child"
    BY DEF StatChild, Reached, IInv, TypeOK
  <1>2. CASE At(n) = None
    <2> DEFINE d == [clear EXCEPT !.todo = @ \ {n}, !.unrecognized = @ \cup {n}]
    <2>1. Then(d)
      BY <1>2 DEF StatChild
    <2>2. /\ d \in Clear /\ d.pc = clear.pc /\ d.refusal = clear.refusal
          /\ d.rootRemoved = clear.rootRemoved /\ clear.unrecognized \subseteq d.unrecognized
      BY <1>1 DEF Clear
    <2> HIDE DEF d
    <2> QED
      BY <1>1, <2>1, <2>2, ChildIInv
  <1>3. CASE At(n) # None
    <2> DEFINE d == [clear EXCEPT !.todo = @ \ {n}, !.pc = "list child",
                                  !.current = n, !.currentId = At(n).id]
    <2>1. Then(d)
      BY <1>3 DEF StatChild
    <2>2. At(n).id \in Ids
      BY <1>1, <1>3 DEF At, Root, Entry
    <2>3. /\ d \in Clear /\ d.pc = "list child" /\ d.refusal = clear.refusal
          /\ d.rootRemoved = clear.rootRemoved /\ d.unrecognized = clear.unrecognized
      BY <1>1, <2>2 DEF Clear, Locations
    <2> HIDE DEF d
    <2> QED
      BY <1>1, <2>1, <2>3, ChildIInv
  <1> QED
    BY <1>2, <1>3

LEMMA ListChildIInv == ASSUME IInv, ListChild PROVE IInv'
  <1> DEFINE n == clear.current
             next == [clear EXCEPT !.pc = "stat child", !.current = None, !.currentId = None]
             d == [next EXCEPT !.known[n] = clear.currentId]
             e == [next EXCEPT !.unrecognized = @ \cup {n}]
  <1>1. clear \in Clear /\ clear.pc = "list child"
    BY DEF ListChild, Reached, IInv, TypeOK
  <1>2. Then(d) \/ Then(e)
    BY DEF ListChild
  <1>3. /\ d \in Clear /\ d.pc = "stat child" /\ d.refusal = clear.refusal
        /\ d.rootRemoved = clear.rootRemoved /\ d.unrecognized = clear.unrecognized
    BY <1>1 DEF Clear, Locations
  <1>4. /\ e \in Clear /\ e.pc = "stat child" /\ e.refusal = clear.refusal
        /\ e.rootRemoved = clear.rootRemoved /\ clear.unrecognized \subseteq e.unrecognized
    BY <1>1 DEF Clear, Locations
  <1> HIDE DEF d, e
  <1> QED
    BY <1>1, <1>2, <1>3, <1>4, ChildIInv

LEMMA DecideIInv == ASSUME IInv, Decide PROVE IInv'
  <1>1. /\ clear \in Clear /\ clear.refusal = "none" /\ ~clear.rootRemoved /\ beside = None
        /\ home # None /\ home.held # None => None \in clear.unrecognized
    BY DEF Decide, Reached, IInv, TypeOK, Placed, CapturesNoticed, Judged, Looking
  <1>2. CASE clear.unrecognized # {}
    <2> DEFINE d == Finish(clear)
    <2>1. Then(d)
      BY <1>2 DEF Decide
    <2>2. /\ d \in Clear /\ d.pc = "done" /\ ~d.rootRemoved
          /\ d.unrecognized = clear.unrecognized
      BY <1>1 DEF Finish, Clear, Locations
    <2> HIDE DEF d
    <2> QED
      BY <1>1, <2>1, <2>2, LocalStep DEF Looking, Captured, Holding
  <1>3. CASE clear.unrecognized = {}
    <2> DEFINE d == [clear EXCEPT !.pc = "capture root"]
    <2>1. Then(d)
      BY <1>3 DEF Decide
    <2>2. /\ d \in Clear /\ d.pc = "capture root" /\ ~d.rootRemoved /\ d.refusal = "none"
          /\ d.unrecognized = {}
      BY <1>1, <1>3 DEF Clear, Locations
    <2> HIDE DEF d
    <2> QED
      BY <1>1, <1>3, <2>1, <2>2, LocalStep DEF Looking, Captured, Holding
  <1> QED
    BY <1>2, <1>3

\* clear_cache captures, and puts back.
LEMMA CaptureRootIInv == ASSUME IInv, CaptureRoot PROVE IInv'
  <1>1. /\ clear \in Clear /\ clear.refusal = "none" /\ ~clear.rootRemoved /\ beside = None
        /\ clear.unrecognized = {} /\ home \in Root \cup {None}
        /\ home # None => home.held = None
    BY DEF CaptureRoot, Reached, IInv, TypeOK, Placed, CapturesNoticed, Judged, Looking
  <1>2. CASE home = None
    <2> DEFINE d == Refused("changed")
    <2>1. Then(d)
      BY <1>2 DEF CaptureRoot
    <2>2. d \in Clear /\ d.pc = "done" /\ ~d.rootRemoved
      BY <1>1 DEF Refused, Finish, Clear, Locations, Refusals
    <2> HIDE DEF d
    <2> QED
      BY <1>1, <1>2, <2>1, <2>2, LocalStep DEF Looking, Captured, Holding
  <1>3. CASE home # None
    <2> DEFINE d == [clear EXCEPT !.pc = "check root"]
    <2>1. beside' = home /\ home' = None /\ clear' = d /\ UNCHANGED <<scan, foreign>>
      BY <1>3 DEF CaptureRoot
    <2>2. /\ d \in Clear /\ d.pc = "check root" /\ ~d.rootRemoved /\ d.refusal = "none"
          /\ d.unrecognized = {}
      BY <1>1 DEF Clear, Locations
    <2> HIDE DEF d
    <2> QED
      BY <1>1, <1>3, <2>1, <2>2
      DEF IInv, TypeOK, Placed, CapturesNoticed, Judged, TruthfulReport, Looking, Captured, Holding
  <1> QED
    BY <1>2, <1>3

\* What holds while the root is captured.
LEMMA CapturedFacts ==
  ASSUME IInv, clear.pc \in Captured
  PROVE  /\ clear \in Clear /\ clear.refusal = "none" /\ ~clear.rootRemoved
         /\ beside \in Root /\ beside # None
         /\ home \in Root \cup {None} /\ (home # None => home.held = None)
  BY DEF IInv, TypeOK, Placed, CapturesNoticed, Judged, Captured, Holding

LEMMA CheckRootIInv == ASSUME IInv, CheckRoot PROVE IInv'
  <1>1. clear.pc = "check root" /\ clear.pc \in Captured
    BY DEF CheckRoot, Reached, Captured
  <1>2. beside.held = None /\ clear.unrecognized = {}
    BY <1>1 DEF IInv, Placed, Judged
  <1> DEFINE d == [clear EXCEPT !.pc = "capture entry"]
             e == [clear EXCEPT !.pc = "restore root"]
  <1>3. (beside.dir /\ Then(d)) \/ Then(e)
    BY DEF CheckRoot
  <1>4. /\ d \in Clear /\ d.pc = "capture entry" /\ ~d.rootRemoved /\ d.refusal = "none"
        /\ d.unrecognized = {}
        /\ e \in Clear /\ e.pc = "restore root" /\ ~e.rootRemoved /\ e.refusal = "none"
    BY <1>1, <1>2, CapturedFacts, ZenonT(30) DEF Clear, Locations
  <1> HIDE DEF d, e
  <1> QED
    BY <1>1, <1>2, <1>3, <1>4, CapturedFacts, LocalStep DEF Looking, Captured, Holding

LEMMA CaptureEntryIInv == ASSUME IInv, NEW n \in Names, CaptureEntry(n) PROVE IInv'
  <1>1. clear.pc = "capture entry" /\ clear.pc \in Captured
    BY DEF CaptureEntry, Reached, Captured
  <1>2. beside.held = None /\ clear.unrecognized = {}
    BY <1>1 DEF IInv, Placed, Judged
  <1>3. CASE beside.kids[n] = None
    <2> DEFINE d == [clear EXCEPT !.unrecognized = @ \cup {n}, !.pc = "restore root"]
    <2>1. Then(d)
      BY <1>3 DEF CaptureEntry
    <2>2. d \in Clear /\ d.pc = "restore root" /\ ~d.rootRemoved /\ d.refusal = "none"
      BY <1>1, CapturedFacts DEF Clear, Locations
    <2> HIDE DEF d
    <2> QED
      BY <1>1, <1>2, <2>1, <2>2, CapturedFacts, LocalStep DEF Looking, Captured, Holding
  <1>4. CASE beside.kids[n] # None
    <2> DEFINE d == [clear EXCEPT !.current = n, !.pc = "check entry"]
               b == [beside EXCEPT !.kids[n] = None, !.held = beside.kids[n]]
    <2>1. beside' = b /\ clear' = d /\ UNCHANGED <<home, scan, foreign>>
      BY <1>4 DEF CaptureEntry
    <2>2. /\ d \in Clear /\ d.pc = "check entry" /\ ~d.rootRemoved /\ d.refusal = "none"
          /\ d.unrecognized = {} /\ d.current = n
      BY <1>1, <1>2, CapturedFacts, ZenonT(30) DEF Clear, Locations
    <2>3. b \in Root /\ b.held # None /\ b.kids[n] = None /\ b.dir = beside.dir
      BY <1>1, <1>4, CapturedFacts DEF Root
    <2>4. b.dir
      BY <1>1, <2>3 DEF IInv, Placed
    <2> HIDE DEF d, b
    <2> QED
      BY <1>1, <2>1, <2>2, <2>3, <2>4, CapturedFacts, ClearAssumption
      DEF IInv, TypeOK, Placed, CapturesNoticed, Judged, TruthfulReport, Looking, Captured, Holding
  <1> QED
    BY <1>3, <1>4

\* What holds while a child is captured too.
LEMMA HoldingFacts ==
  ASSUME IInv, clear.pc \in Holding
  PROVE  /\ clear \in Clear /\ clear.refusal = "none" /\ ~clear.rootRemoved
         /\ beside \in Root /\ beside # None /\ beside.dir
         /\ home \in Root \cup {None} /\ (home # None => home.held = None)
         /\ clear.current \in Names /\ beside.held \in Entry
         /\ beside.kids[clear.current] = None
         /\ clear.pc # "restore entry" => clear.unrecognized = {}
  <1>1. clear.pc \in Captured
    BY DEF Captured
  <1>2. clear.current \in Names /\ beside.held # None /\ beside.kids[clear.current] = None
        /\ beside.dir
    BY DEF IInv, Placed
  <1>3. beside.held \in Entry
    BY <1>1, <1>2, CapturedFacts DEF Root
  <1>4. clear.pc # "restore entry" => clear.unrecognized = {}
    BY DEF IInv, Judged, Holding
  <1> QED
    BY <1>1, <1>2, <1>3, <1>4, CapturedFacts

\* Giving up a captured child, after a fault or not.
LEMMA GiveUpIInv ==
  ASSUME IInv, clear.pc \in Holding, NEW fault \in BOOLEAN,
         Then(GiveUpEntry([clear EXCEPT !.faulted = fault]))
  PROVE  IInv'
  <1> DEFINE c == [clear EXCEPT !.faulted = fault]
             d == GiveUpEntry(c)
  <1>1. c \in Clear /\ c.current = clear.current /\ ~c.rootRemoved /\ c.refusal = "none"
    BY HoldingFacts DEF Clear
  <1> HIDE DEF c
  <1>2. /\ d \in Clear /\ d.pc = "restore entry" /\ ~d.rootRemoved /\ d.refusal = "none"
        /\ d.current = clear.current
    BY <1>1 DEF GiveUpEntry, Clear, Locations
  <1>3. Then(d)
    BY DEF c
  <1> HIDE DEF d
  <1> QED
    BY <1>2, <1>3, HoldingFacts, LocalStep, ClearAssumption DEF Looking, Captured, Holding, Entry

LEMMA GiveUpNow == ASSUME IInv, clear.pc \in Holding, Then(GiveUpEntry(clear)) PROVE IInv'
  <1>1. clear.faulted \in BOOLEAN /\ clear = [clear EXCEPT !.faulted = clear.faulted]
    BY HoldingFacts DEF Clear
  <1> QED
    BY <1>1, GiveUpIInv

LEMMA CheckEntryIInv == ASSUME IInv, CheckEntry PROVE IInv'
  <1>1. clear.pc = "check entry" /\ clear.pc \in Holding
    BY DEF CheckEntry, Reached, Holding
  <1>2. CASE beside.held.id = clear.known[clear.current]
    <2> DEFINE d == [clear EXCEPT !.pc = "relist"]
    <2>1. Then(d)
      BY <1>2 DEF CheckEntry
    <2>2. /\ d \in Clear /\ d.pc = "relist" /\ ~d.rootRemoved /\ d.refusal = "none"
          /\ d.current = clear.current /\ d.known = clear.known
          /\ d.unrecognized = {}
      BY <1>1, HoldingFacts DEF Clear, Locations
    <2> HIDE DEF d
    <2> QED
      BY <1>1, <1>2, <2>1, <2>2, HoldingFacts, LocalStep, ClearAssumption
      DEF Looking, Captured, Holding
  <1>3. CASE beside.held.id # clear.known[clear.current]
    BY <1>1, <1>3, GiveUpNow DEF CheckEntry
  <1> QED
    BY <1>2, <1>3

LEMMA RelistIInv == ASSUME IInv, Relist PROVE IInv'
  <1> DEFINE items == beside.held.items
             d == [clear EXCEPT !.pc = "unlink", !.listing = items]
  <1>1. clear.pc = "relist" /\ clear.pc \in Holding
    BY DEF Relist, Reached, Holding
  <1>2. CASE \A item \in items : Owned(item)
    <2>1. Then(d)
      BY <1>2 DEF Relist
    <2>2. items \in SUBSET Items
      BY <1>1, HoldingFacts DEF Entry
    <2>3. beside.held.id = clear.known[clear.current]
      BY <1>1 DEF IInv, Judged
    <2>4. /\ d \in Clear /\ d.pc = "unlink" /\ ~d.rootRemoved /\ d.refusal = "none"
          /\ d.current = clear.current /\ d.known = clear.known
          /\ d.unrecognized = {} /\ d.listing = items
      BY <1>1, <2>2, HoldingFacts DEF Clear, Locations
    <2> HIDE DEF d
    <2> QED
      BY <1>1, <1>2, <2>1, <2>3, <2>4, HoldingFacts, LocalStep, ClearAssumption
      DEF Looking, Captured, Holding
  <1>3. CASE ~\A item \in items : Owned(item)
    BY <1>1, <1>3, GiveUpNow DEF Relist
  <1> QED
    BY <1>2, <1>3

LEMMA UnlinkIInv == ASSUME IInv, NEW item \in Items, Unlink(item) PROVE IInv'
  <1> DEFINE d == [clear EXCEPT !.listing = @ \ {item}]
             b == [beside EXCEPT !.held.items = @ \ {item}]
  <1>1. clear.pc = "unlink" /\ clear.pc \in Holding
    BY DEF Unlink, Reached, Holding
  <1>2. CASE item \in beside.held.items
    <2>1. beside' = b /\ clear' = d /\ UNCHANGED <<home, scan, foreign>>
      BY <1>2 DEF Unlink
    <2>2. beside.held.id = clear.known[clear.current] /\ \A i \in clear.listing : Owned(i)
      BY <1>1 DEF IInv, Judged
    <2>3. /\ d \in Clear /\ d.pc = "unlink" /\ ~d.rootRemoved /\ d.refusal = "none"
          /\ d.current = clear.current /\ d.known = clear.known
          /\ d.unrecognized = {} /\ d.listing \subseteq clear.listing
      BY <1>1, HoldingFacts DEF Clear
    <2>4. /\ b \in Root /\ b.dir = beside.dir /\ b.kids = beside.kids
          /\ b.held \in Entry /\ b.held.id = beside.held.id
      BY <1>1, HoldingFacts DEF Root, Entry
    <2> HIDE DEF d, b
    <2> QED
      BY <1>1, <2>1, <2>2, <2>3, <2>4, HoldingFacts, ClearAssumption
      DEF IInv, TypeOK, Placed, CapturesNoticed, Judged, TruthfulReport, Looking, Captured, Holding
  <1>3. CASE item \notin beside.held.items
    BY <1>1, <1>3, GiveUpNow DEF Unlink
  <1> QED
    BY <1>2, <1>3

LEMMA RemoveEntryIInv == ASSUME IInv, RemoveEntry PROVE IInv'
  <1> DEFINE d == [clear EXCEPT !.pc = "capture entry", !.current = None,
                                !.removed = @ \cup {clear.current}]
             b == [beside EXCEPT !.held = None]
  <1>1. clear.pc = "unlink" /\ clear.pc \in Holding
    BY DEF RemoveEntry, Reached, Holding
  <1>2. CASE beside.held.items = {}
    <2>1. beside' = b /\ clear' = d /\ UNCHANGED <<home, scan, foreign>>
      BY <1>2 DEF RemoveEntry
    <2>2. /\ d \in Clear /\ d.pc = "capture entry" /\ ~d.rootRemoved /\ d.refusal = "none"
          /\ d.unrecognized = {}
      BY <1>1, HoldingFacts DEF Clear, Locations
    <2>3. b \in Root /\ b.dir /\ b.held = None
      BY <1>1, HoldingFacts DEF Root
    <2> HIDE DEF d, b
    <2> QED
      BY <1>1, <2>1, <2>2, <2>3, HoldingFacts, ClearAssumption
      DEF IInv, TypeOK, Placed, CapturesNoticed, Judged, TruthfulReport, Looking, Captured, Holding
  <1>3. CASE beside.held.items # {}
    BY <1>1, <1>3, GiveUpNow DEF RemoveEntry
  <1> QED
    BY <1>2, <1>3

LEMMA RemoveRootIInv == ASSUME IInv, RemoveRoot PROVE IInv'
  <1>1. clear.pc = "capture entry" /\ clear.pc \in Captured
    BY DEF RemoveRoot, Reached, Captured
  <1>2. beside.held = None /\ clear.unrecognized = {} /\ beside.dir
    BY <1>1 DEF IInv, Placed, Judged
  <1>3. CASE beside.kids = NoKids /\ ~beside.extra /\ beside.held = None
    <2> DEFINE gone == home = None
               d == Finish([clear EXCEPT !.rootRemoved = gone])
    <2>1. beside' = None /\ clear' = d /\ UNCHANGED <<home, scan, foreign>>
      BY <1>3 DEF RemoveRoot
    <2>2. gone \in BOOLEAN
      OBVIOUS
    <2> HIDE DEF gone
    <2>3. /\ d \in Clear /\ d.pc = "done" /\ d.refusal = "none" /\ d.unrecognized = {}
          /\ d.known = clear.known /\ d.removed = clear.removed
      BY <1>1, <1>2, <2>2, CapturedFacts, ZenonT(30) DEF Finish, Clear, Locations
    <2>4. \A n \in Names : clear.known[n] # None => n \in clear.removed
      BY DEF RemoveRoot
    <2> HIDE DEF d
    <2> QED
      BY <1>1, <2>1, <2>3, <2>4, CapturedFacts
      DEF IInv, TypeOK, Placed, CapturesNoticed, Judged, TruthfulReport, Looking, Captured, Holding
  <1>4. CASE ~(beside.kids = NoKids /\ ~beside.extra /\ beside.held = None)
    <2> DEFINE d == [clear EXCEPT !.pc = "restore root"]
    <2>1. Then(d)
      BY <1>4 DEF RemoveRoot
    <2>2. d \in Clear /\ d.pc = "restore root" /\ ~d.rootRemoved /\ d.refusal = "none"
      BY <1>1, CapturedFacts DEF Clear, Locations
    <2> HIDE DEF d
    <2> QED
      BY <1>1, <1>2, <2>1, <2>2, CapturedFacts, LocalStep DEF Looking, Captured, Holding
  <1> QED
    BY <1>3, <1>4

LEMMA RestoreEntryIInv == ASSUME IInv, RestoreEntry PROVE IInv'
  <1> DEFINE n == clear.current
             d == [clear EXCEPT !.pc = "restore root", !.current = None]
             b == [beside EXCEPT !.kids[n] = beside.held, !.held = None]
  <1>1. clear.pc = "restore entry" /\ clear.pc \in Holding
    BY DEF RestoreEntry, Reached, Holding
  <1>2. beside' = b /\ clear' = d /\ UNCHANGED <<home, scan, foreign>>
    BY <1>1, HoldingFacts DEF RestoreEntry
  <1>3. d \in Clear /\ d.pc = "restore root" /\ ~d.rootRemoved /\ d.refusal = "none"
    BY <1>1, HoldingFacts DEF Clear, Locations
  <1>4. b \in Root /\ b.dir /\ b.held = None
    BY <1>1, HoldingFacts DEF Root
  <1> HIDE DEF d, b
  <1> QED
    BY <1>1, <1>2, <1>3, <1>4, HoldingFacts, ClearAssumption
    DEF IInv, TypeOK, Placed, CapturesNoticed, Judged, TruthfulReport, Looking, Captured, Holding

\* The captured root goes back if nothing stands in its place, and is left
\* where it is otherwise.
LEMMA PutBackIInv ==
  ASSUME IInv, clear.pc \in Captured, NEW d \in Clear, d.pc = "done", ~d.rootRemoved,
         ~d.faulted => beside.held = None /\ (home # None => d.refusal = "preserved"),
         \/ home = None /\ home' = beside /\ beside' = None
         \/ home # None /\ UNCHANGED <<home, beside>>,
         clear' = d, UNCHANGED <<scan, foreign>>
  PROVE  IInv'
  BY CapturedFacts, ClearAssumption
  DEF IInv, TypeOK, Placed, CapturesNoticed, Judged, TruthfulReport, Looking, Captured, Holding

LEMMA RestoreRootIInv == ASSUME IInv, RestoreRoot PROVE IInv'
  <1>1. clear.pc = "restore root" /\ clear.pc \in Captured
    BY DEF RestoreRoot, Reached, Captured
  <1>2. ~clear.faulted => beside.held = None
    BY <1>1 DEF IInv, Placed
  <1> DEFINE d == Refused("changed")
             e == Refused("preserved")
  <1>3. \/ home = None /\ home' = beside /\ beside' = None /\ clear' = d /\ UNCHANGED <<scan, foreign>>
        \/ home # None /\ Then(e)
    BY DEF RestoreRoot
  <1>4. /\ d \in Clear /\ d.pc = "done" /\ ~d.rootRemoved /\ d.faulted = clear.faulted
        /\ e \in Clear /\ e.pc = "done" /\ ~e.rootRemoved /\ e.faulted = clear.faulted
        /\ e.refusal = "preserved"
    BY <1>1, CapturedFacts DEF Refused, Finish, Clear, Locations, Refusals
  <1> HIDE DEF d, e
  <1> QED
    BY <1>1, <1>2, <1>3, <1>4, PutBackIInv DEF Then, world

\* One call fails.
LEMMA FaultIInv == ASSUME IInv, Fault PROVE IInv'
  <1> DEFINE c == [clear EXCEPT !.faulted = TRUE]
  <1>1. /\ clear \in Clear /\ home \in Root \cup {None} /\ beside \in Root \cup {None}
        /\ clear.pc # "done" => clear.refusal = "none" /\ ~clear.rootRemoved
    BY DEF IInv, TypeOK, Judged
  <1>2. CASE clear.pc = "list"
    <2> DEFINE d == Finish([c EXCEPT !.refusal = "unusable"])
    <2>1. Then(d)
      BY <1>2 DEF Fault
    <2>2. d \in Clear /\ d.pc = "done" /\ d.faulted
      BY <1>1 DEF Finish, Clear, Locations, Refusals
    <2> HIDE DEF d
    <2> QED
      BY <2>1, <2>2, LocalStep DEF Looking, Captured, Holding
  <1>3. CASE clear.pc = "capture root"
    <2> DEFINE d == Finish([c EXCEPT !.refusal = "changed"])
    <2>1. Then(d)
      BY <1>3 DEF Fault
    <2>2. d \in Clear /\ d.pc = "done" /\ d.faulted
      BY <1>1 DEF Finish, Clear, Locations, Refusals
    <2> HIDE DEF d
    <2> QED
      BY <2>1, <2>2, LocalStep DEF Looking, Captured, Holding
  <1>4. CASE clear.pc = "list child"
    <2> DEFINE d == [c EXCEPT !.pc = "stat child", !.current = None, !.currentId = None,
                              !.unrecognized = @ \cup {clear.current}]
    <2>1. Then(d)
      BY <1>4 DEF Fault
    <2>2. /\ d \in Clear /\ d.pc = "stat child" /\ d.refusal = clear.refusal
          /\ d.rootRemoved = clear.rootRemoved /\ clear.unrecognized \subseteq d.unrecognized
      BY <1>1 DEF Clear, Locations
    <2> HIDE DEF d
    <2> QED
      BY <1>4, <2>1, <2>2, ChildIInv
  <1>5. CASE clear.pc = "check root"
    <2> DEFINE d == Finish([c EXCEPT !.refusal = "changed"])
    <2>1. /\ clear' = d /\ UNCHANGED <<scan, foreign>>
          /\ home' = IF home = None THEN beside ELSE home
          /\ beside' = IF home = None THEN None ELSE beside
      BY <1>5 DEF Fault
    <2>2. d \in Clear /\ d.pc = "done" /\ d.faulted /\ ~d.rootRemoved
      BY <1>1, <1>5 DEF Finish, Clear, Locations, Refusals
    <2> HIDE DEF d
    <2> QED
      BY <1>5, <2>1, <2>2, PutBackIInv DEF Captured
  <1>6. CASE clear.pc = "capture entry"
    <2>1. \E lost \in SUBSET Names :
            Then([c EXCEPT !.pc = "restore root", !.unrecognized = @ \cup lost])
      <3> DEFINE left == {n \in Names : clear.known[n] # None} \ clear.removed
      <3>1. \/ Then([c EXCEPT !.pc = "restore root"])
            \/ \E n \in left : Then([c EXCEPT !.pc = "restore root", !.unrecognized = @ \cup {n}])
        BY <1>6 DEF Fault
      <3>2. [c EXCEPT !.pc = "restore root"] = [c EXCEPT !.pc = "restore root", !.unrecognized = @ \cup {}]
        BY <1>1 DEF Clear
      <3> HIDE DEF c
      <3>3. ASSUME NEW n \in left, Then([c EXCEPT !.pc = "restore root", !.unrecognized = @ \cup {n}])
            PROVE  \E lost \in SUBSET Names :
                     Then([c EXCEPT !.pc = "restore root", !.unrecognized = @ \cup lost])
        <4>1. {n} \in SUBSET Names
          OBVIOUS
        <4> QED
          BY <3>3, <4>1
      <3> QED
        BY <3>1, <3>2, <3>3
    <2> PICK lost \in SUBSET Names :
               Then([c EXCEPT !.pc = "restore root", !.unrecognized = @ \cup lost])
      BY <2>1
    <2> DEFINE d == [c EXCEPT !.pc = "restore root", !.unrecognized = @ \cup lost]
    <2>2. d \in Clear /\ d.pc = "restore root" /\ d.faulted /\ ~d.rootRemoved /\ d.refusal = "none"
      BY <1>1, <1>6 DEF Clear, Locations
    <2>3. Then(d)
      OBVIOUS
    <2>4. clear.pc \in Captured
      BY <1>6 DEF Captured
    <2> HIDE DEF d
    <2> QED
      BY <2>2, <2>3, <2>4, CapturedFacts, LocalStep DEF Looking, Captured, Holding
  <1>7. CASE clear.pc \in {"check entry", "relist", "unlink"}
    BY <1>7, GiveUpIInv DEF Fault, Holding
  <1>8. CASE clear.pc = "restore entry"
    <2> DEFINE d == [c EXCEPT !.pc = "restore root", !.current = None]
    <2>1. Then(d)
      BY <1>8 DEF Fault
    <2>2. d \in Clear /\ d.pc = "restore root" /\ d.faulted /\ ~d.rootRemoved /\ d.refusal = "none"
      BY <1>1, <1>8 DEF Clear, Locations
    <2>3. clear.pc \in Captured
      BY <1>8 DEF Captured, Holding
    <2> HIDE DEF d
    <2> QED
      BY <2>1, <2>2, <2>3, CapturedFacts, LocalStep DEF Looking, Captured, Holding
  <1>9. CASE clear.pc = "restore root"
    <2> DEFINE d == Finish([c EXCEPT !.refusal = "preserved"])
    <2>1. Then(d)
      BY <1>9 DEF Fault
    <2>2. d \in Clear /\ d.pc = "done" /\ d.faulted
      BY <1>1 DEF Finish, Clear, Locations, Refusals
    <2> HIDE DEF d
    <2> QED
      BY <2>1, <2>2, LocalStep DEF Looking, Captured, Holding
  <1> QED
    BY <1>2, <1>3, <1>4, <1>5, <1>6, <1>7, <1>8, <1>9 DEF Fault

LEMMA CrashClearIInv == ASSUME IInv, CrashClear PROVE IInv'
  <1> DEFINE d == [Fresh EXCEPT !.pc = "crashed"]
  <1>1. d \in Clear /\ d.pc = "crashed" /\ ~d.rootRemoved /\ d.refusal = "none"
    BY FreshType DEF Clear, Locations
  <1>2. Then(d)
    BY DEF CrashClear
  <1> HIDE DEF d
  <1> QED
    BY <1>1, <1>2, LocalStep DEF Looking, Captured, Holding

\* Anybody else's step: no directory appears under a capture name, and the
\* captured root stays what it is but for the files of a captured child.
LEMMA OtherStep ==
  ASSUME IInv, Disturb, scan' \in [Writers -> Scan], foreign' \in Nat,
         home' \in Root \cup {None},
         home' # None => /\ ~home'.dir => home'.held = None
                         /\ home'.held # None => home # None /\ home.held # None,
         \/ UNCHANGED beside
         \/ /\ beside # None /\ beside.held # None /\ beside' \in Root /\ beside'.held # None
            /\ beside'.dir = beside.dir /\ beside'.kids = beside.kids
            /\ beside'.held.id = beside.held.id
  PROVE  IInv'
  <1>1. /\ clear' \in Clear /\ clear'.pc = clear.pc /\ clear'.unrecognized = clear.unrecognized
        /\ clear'.current = clear.current /\ clear'.known = clear.known
        /\ clear'.listing = clear.listing /\ clear'.refusal = clear.refusal
        /\ clear'.rootRemoved = clear.rootRemoved /\ clear'.removed = clear.removed
        /\ clear'.faulted = clear.faulted
    <2> DEFINE alone == clear.alone /\ clear.pc \in {"idle", "done", "crashed"}
    <2>1. clear \in Clear /\ clear' = [clear EXCEPT !.alone = alone] /\ alone \in BOOLEAN
      BY DEF IInv, TypeOK, Clear, Disturb
    <2> HIDE DEF alone
    <2> QED
      BY <2>1 DEF Clear
  <1>2. beside' \in Root \cup {None}
    BY DEF IInv, TypeOK
  <1>3. TypeOK'
    BY <1>1, <1>2 DEF TypeOK
  <1>4. Placed'
    BY <1>1, ClearAssumption DEF IInv, TypeOK, Placed, Captured, Looking, Holding
  <1>5. CapturesNoticed'
    BY <1>1, ClearAssumption DEF IInv, TypeOK, CapturesNoticed, Looking
  <1>6. Judged'
    BY <1>1 DEF IInv, Judged, Placed, Holding
  <1>7. TruthfulReport'
    BY <1>1, ClearAssumption DEF IInv, TypeOK, TruthfulReport
  <1> QED
    BY <1>3, <1>4, <1>5, <1>6, <1>7 DEF IInv

\* What a scan or another program does to one repository's directory at the
\* path changes nothing else in the root.
LEMMA SetEntryType ==
  ASSUME NEW n \in Names, NEW e \in Entry \cup {None}, home \in Root, home # None, SetEntry(n, e)
  PROVE  home' \in Root /\ home'.dir = home.dir /\ home'.held = home.held
  BY DEF SetEntry, Root

LEMMA PutType ==
  ASSUME NEW w \in Writers, scan \in [Writers -> Scan],
         NEW location \in {"idle", "mkdir", "mkroot", "mkentry", "mkstemp", "replace", "cleanup", "crashed"},
         Put(w, location)
  PROVE  scan' \in [Writers -> Scan]
  BY DEF Put, Scan

\* An entry of one repository changes; the captured root does not.
LEMMA EntryStep ==
  ASSUME IInv, Disturb, UNCHANGED <<beside, foreign>>, scan' \in [Writers -> Scan],
         \/ Keep
         \/ home # None /\ \E n \in Names, e \in Entry : SetEntry(n, e)
  PROVE  IInv'
  <1>1. home \in Root \cup {None} /\ foreign \in Nat
    BY DEF IInv, TypeOK
  <1>2. CASE Keep
    BY <1>1, <1>2, OtherStep DEF Keep, IInv, CapturesNoticed
  <1>3. ASSUME home # None, NEW n \in Names, NEW e \in Entry, SetEntry(n, e) PROVE IInv'
    <2>1. home' \in Root /\ home'.dir = home.dir /\ home'.held = home.held
      BY <1>1, <1>3, SetEntryType
    <2> QED
      BY <1>1, <1>3, <2>1, OtherStep DEF IInv, CapturesNoticed
  <1> QED
    BY <1>2, <1>3

LEMMA ScanIInv == ASSUME IInv, NEW w \in Writers, ScanStep(w) PROVE IInv'
  <1> DEFINE n == scan[w].repo
  <1>1. home \in Root \cup {None} /\ scan \in [Writers -> Scan] /\ n \in Names /\ foreign \in Nat
    BY DEF IInv, TypeOK, Scan
  <1>2. At(n) # None => At(n) \in Entry /\ home # None
    BY <1>1 DEF At, Root
  <1>3. CASE MakeEntry(w)
    <2>1. Disturb /\ UNCHANGED <<beside, foreign>>
      BY <1>3 DEF MakeEntry, Scans
    <2>2. scan' \in [Writers -> Scan]
      BY <1>1, <1>3, PutType DEF MakeEntry
    <2>3. \/ Keep
          \/ home # None /\ \E e \in Entry : SetEntry(n, e)
      <3>1. ASSUME NEW i \in FreeIds PROVE [id |-> i, items |-> {}] \in Entry
        BY DEF FreeIds, Entry
      <3> QED
        BY <1>3, <3>1 DEF MakeEntry
    <2> QED
      BY <1>1, <2>1, <2>2, <2>3, EntryStep
  <1>4. CASE MakeRoot(w)
    <2>1. Disturb /\ UNCHANGED <<beside, foreign>>
      BY <1>4 DEF MakeRoot, Scans
    <2>2. scan' \in [Writers -> Scan]
      BY <1>1, <1>4, PutType DEF MakeRoot
    <2>3. CASE home = None
      <3> PICK i \in FreeIds : home' = NewRoot(i)
        BY <1>4, <2>3 DEF MakeRoot
      <3>1. home' \in Root /\ home'.dir /\ home'.held = None
        BY NewRootType DEF FreeIds
      <3> QED
        BY <1>1, <2>1, <2>2, <3>1, OtherStep
    <2>4. CASE home # None
      BY <1>4, <2>1, <2>2, <2>4, EntryStep DEF MakeRoot
    <2> QED
      BY <2>3, <2>4
  <1>5. CASE MakeTemporary(w)
    <2>1. Disturb /\ UNCHANGED <<beside, foreign>>
      BY <1>5 DEF MakeTemporary, Scans
    <2>2. scan' \in [Writers -> Scan]
      BY <1>1, <1>5, PutType DEF MakeTemporary
    <2>3. At(n) # None => [At(n) EXCEPT !.items = @ \cup {w}] \in Entry
      BY <1>2 DEF Entry, Items
    <2>4. Keep \/ (home # None /\ \E e \in Entry : SetEntry(n, e))
      BY <1>2, <1>5, <2>3 DEF MakeTemporary
    <2> QED
      BY <1>1, <2>1, <2>2, <2>4, EntryStep
  <1>6. CASE ReplaceCache(w)
    <2>1. Disturb /\ UNCHANGED <<beside, foreign>>
      BY <1>6 DEF ReplaceCache, Scans
    <2>2. scan' \in [Writers -> Scan]
      BY <1>1, <1>6, PutType DEF ReplaceCache
    <2>3. At(n) # None => [At(n) EXCEPT !.items = (@ \ {w}) \cup {"cache.json"}] \in Entry
      BY <1>2 DEF Entry, Items
    <2>4. Keep \/ (home # None /\ \E e \in Entry : SetEntry(n, e))
      BY <1>2, <1>6, <2>3 DEF ReplaceCache
    <2> QED
      BY <1>1, <2>1, <2>2, <2>4, EntryStep
  <1>7. CASE CleanUp(w)
    <2>1. Disturb /\ UNCHANGED <<beside, foreign>>
      BY <1>7 DEF CleanUp, Scans
    <2>2. scan' \in [Writers -> Scan]
      BY <1>1, <1>7, PutType DEF CleanUp
    <2>3. At(n) # None => [At(n) EXCEPT !.items = @ \ {w}] \in Entry
      BY <1>2 DEF Entry, Items
    <2>4. Keep \/ (home # None /\ \E e \in Entry : SetEntry(n, e))
      BY <1>2, <1>7, <2>3 DEF CleanUp
    <2> QED
      BY <1>1, <2>1, <2>2, <2>4, EntryStep
  <1>8. CASE CrashScan(w)
    BY <1>1, <1>8, PutType, EntryStep DEF CrashScan, Scans
  <1> QED
    BY <1>3, <1>4, <1>5, <1>6, <1>7, <1>8 DEF ScanStep

LEMMA SaveCacheIInv ==
  ASSUME IInv, NEW w \in Writers, NEW n \in Names, SaveCache(w, n) PROVE IInv'
  <1>1. scan' \in [Writers -> Scan]
    BY DEF SaveCache, IInv, TypeOK, Scan
  <1> QED
    BY <1>1, EntryStep DEF SaveCache, Scans

LEMMA ForeignIInv == ASSUME IInv, ForeignStep PROVE IInv'
  <1>1. home \in Root \cup {None} /\ beside \in Root \cup {None} /\ foreign + 1 \in Nat
        /\ scan \in [Writers -> Scan]
    BY DEF IInv, TypeOK
  <1>2. Disturb /\ foreign' = foreign + 1 /\ scan' = scan
    BY DEF ForeignStep, DropFileBeside, DropChild, DropFile, SwapEntry, SwapRoot, Meddle
  <1>3. CASE DropFileBeside
    <2> DEFINE b == [beside EXCEPT !.held.items = @ \cup {"foreign"}]
    <2>1. beside # None /\ beside.held # None /\ beside' = b /\ home' = home
      BY <1>3 DEF DropFileBeside, Keep
    <2>2. beside \in Root /\ beside.held \in Entry
      BY <1>1, <2>1 DEF Root
    <2>3. b \in Root /\ b.held \in Entry /\ b.held.id = beside.held.id /\ b.dir = beside.dir
          /\ b.kids = beside.kids
      BY <2>2 DEF Root, Entry, Items
    <2> HIDE DEF b
    <2> QED
      BY <1>1, <1>2, <2>1, <2>3, OtherStep, ClearAssumption DEF IInv, CapturesNoticed
  <1>4. CASE DropChild
    <2> DEFINE h == [home EXCEPT !.extra = TRUE]
    <2>1. home # None /\ home' = h /\ UNCHANGED beside
      BY <1>4 DEF DropChild
    <2>2. h \in Root /\ h.held = home.held /\ h.dir = home.dir
      BY <1>1, <2>1 DEF Root
    <2> HIDE DEF h
    <2> QED
      BY <1>1, <1>2, <2>1, <2>2, OtherStep DEF IInv, CapturesNoticed
  <1>5. ASSUME NEW n \in Names, DropFile(n) \/ SwapEntry(n) PROVE IInv'
    <2>1. home # None /\ UNCHANGED beside
      BY <1>5 DEF DropFile, SwapEntry, At
    <2>2. At(n) # None /\ At(n) \in Entry
      BY <1>1, <1>5 DEF DropFile, SwapEntry, At, Root
    <2>3. \E e \in Entry : SetEntry(n, e)
      <3>1. ASSUME NEW item \in {"foreign", "cache.json.old"}
            PROVE  [At(n) EXCEPT !.items = @ \cup {item}] \in Entry
        BY <2>2 DEF Entry, Items
      <3>2. ASSUME NEW i \in FreeIds, NEW items \in {{"foreign"}, {"cache.json"}}
            PROVE  [id |-> i, items |-> items] \in Entry
        BY DEF Entry, Items, FreeIds
      <3> QED
        BY <1>5, <3>1, <3>2 DEF DropFile, SwapEntry
    <2>4. PICK e \in Entry : SetEntry(n, e)
      BY <2>3
    <2>5. home' \in Root /\ home'.dir = home.dir /\ home'.held = home.held
      BY <1>1, <2>1, <2>4, SetEntryType
    <2> QED
      BY <1>1, <1>2, <2>1, <2>5, OtherStep DEF IInv, CapturesNoticed
  <1>6. ASSUME NEW dir \in BOOLEAN, SwapRoot(dir) PROVE IInv'
    <2> PICK i \in FreeIds : home' = [NewRoot(i) EXCEPT !.dir = dir, !.extra = dir]
      BY <1>6 DEF SwapRoot
    <2>1. NewRoot(i) \in Root /\ NewRoot(i).held = None
      BY NewRootType DEF FreeIds
    <2>2. home' \in Root /\ home'.held = None
      BY <2>1 DEF Root
    <2> QED
      BY <1>1, <1>2, <1>6, <2>2, OtherStep DEF SwapRoot
  <1> QED
    BY <1>3, <1>4, <1>5, <1>6 DEF ForeignStep

(***************************************************************************)
(* Theorems.                                                               *)
(***************************************************************************)
LEMMA NextIInv == IInv /\ [Next]_vars => IInv'
  <1> SUFFICES ASSUME IInv, [Next]_vars PROVE IInv'
    OBVIOUS
  <1>1. CASE UNCHANGED vars
    BY <1>1, ZenonT(30) DEF vars, IInv, TypeOK, Placed, CapturesNoticed, Judged, TruthfulReport
  <1>2. CASE LookAtRoot
    BY <1>2, LookAtRootIInv
  <1>3. CASE ClearStep
    BY <1>3, ListRootIInv, ListChildIInv, DecideIInv, CaptureRootIInv, CheckRootIInv,
       CheckEntryIInv, RelistIInv, RemoveEntryIInv, RemoveRootIInv, RestoreEntryIInv,
       RestoreRootIInv, FaultIInv, StatChildIInv, CaptureEntryIInv, UnlinkIInv DEF ClearStep
  <1>4. CASE CrashClear
    BY <1>4, CrashClearIInv
  <1>5. ASSUME NEW w \in Writers, ScanStep(w) \/ \E n \in Names : SaveCache(w, n) PROVE IInv'
    BY <1>5, ScanIInv, SaveCacheIInv
  <1>6. CASE ForeignStep
    BY <1>6, ForeignIInv
  <1> QED
    BY <1>1, <1>2, <1>3, <1>4, <1>5, <1>6 DEF Next

LEMMA Invariant == Spec => []IInv
  <1> QED
    BY InitIInv, NextIInv, PTL DEF Spec

\* What clear_cache unlinks is in the very directory it classified, in a root
\* where everything was recognised, and was accepted by name.
THEOREM OnlyClassified == Spec => []DeletesOnlyClassified
  <1>1. IInv => DeletesOnlyClassified
    BY DEF IInv, Judged, DeletesOnlyClassified
  <1> QED
    BY <1>1, Invariant, PTL

\* What clear_cache reports of the root, of captured directories and of what it
\* removed is so, whatever scans and other programs did meanwhile.
THEOREM ReportsTruth == Spec => []TruthfulReport
  <1>1. IInv => TruthfulReport
    BY DEF IInv
  <1> QED
    BY <1>1, Invariant, PTL

\* A move of directories, or the deletion of a file clear_cache accepts, keeps
\* what a root holds that is not in the layout.
LEMMA SameHoldings ==
  ASSUME NEW r, NEW q, r # None, q # None, q.id = r.id, q.extra = r.extra,
         \A i \in Ids, item \in Items : ~Owned(item) =>
           ((\E e \in Directories(q) : e.id = i /\ item \in e.items)
              <=> \E e \in Directories(r) : e.id = i /\ item \in e.items)
  PROVE  Unowned(q) = Unowned(r)
  BY DEF Unowned

\* Most steps of clear_cache touch no directory; the others move one, or
\* delete what it accepts.
LEMMA HoldingsKept ==
  ASSUME IInv, ClearStep
  PROVE  Unowned(home') \cup Unowned(beside') = Unowned(home) \cup Unowned(beside)
  <1> DEFINE Same == Unowned(home') \cup Unowned(beside') = Unowned(home) \cup Unowned(beside)
  <1>1. CASE UNCHANGED <<home, beside>>
    BY <1>1
  <1>2. CASE CaptureRoot
    <2>1. beside = None
      BY <1>2 DEF CaptureRoot, Reached, IInv, Placed, Looking
    <2> QED
      BY <1>2, <2>1 DEF CaptureRoot, Then, world, Unowned
  <1>3. ASSUME NEW n \in Names, CaptureEntry(n) PROVE Same
    <2> DEFINE b == [beside EXCEPT !.kids[n] = None, !.held = beside.kids[n]]
    <2>1. clear.pc = "capture entry" /\ clear.pc \in Captured
      BY <1>3 DEF CaptureEntry, Reached, Captured
    <2>2. beside \in Root /\ beside # None /\ beside.held = None
      BY <2>1, CapturedFacts DEF IInv, Placed
    <2>3. CASE beside.kids[n] # None
      <3>1. beside' = b /\ home' = home
        BY <1>3, <2>3 DEF CaptureEntry
      <3>2. b \in Root /\ b.id = beside.id /\ b.extra = beside.extra
        BY <2>2 DEF Root
      <3>3. Directories(b) = Directories(beside)
        BY <2>2 DEF Directories, Root
      <3> HIDE DEF b
      <3>4. Unowned(b) = Unowned(beside)
        BY <2>2, <3>2, <3>3, SameHoldings, ClearAssumption
      <3> QED
        BY <3>1, <3>4
    <2>4. CASE beside.kids[n] = None
      BY <1>1, <1>3, <2>4 DEF CaptureEntry, Then, world
    <2> QED
      BY <2>3, <2>4
  <1>4. ASSUME NEW file \in Items, Unlink(file) PROVE Same
    <2> DEFINE b == [beside EXCEPT !.held.items = @ \ {file}]
    <2>1. clear.pc = "unlink" /\ clear.pc \in Holding
      BY <1>4 DEF Unlink, Reached, Holding
    <2>2. beside \in Root /\ beside # None /\ beside.held \in Entry
      BY <2>1, HoldingFacts
    <2>3. Owned(file)
      BY <1>4, <2>1 DEF Unlink, IInv, Judged
    <2>4. CASE file \in beside.held.items
      <3>1. beside' = b /\ home' = home
        BY <1>4, <2>4 DEF Unlink
      <3>2. /\ b \in Root /\ b.id = beside.id /\ b.extra = beside.extra /\ b.kids = beside.kids
            /\ b.held \in Entry /\ b.held.id = beside.held.id
            /\ b.held.items = beside.held.items \ {file}
        BY <2>2 DEF Root, Entry
      <3> HIDE DEF b
      <3>3. ASSUME NEW i \in Ids, NEW item \in Items, ~Owned(item)
            PROVE  (\E e \in Directories(b) : e.id = i /\ item \in e.items)
                     <=> \E e \in Directories(beside) : e.id = i /\ item \in e.items
        <4>1. item # file
          BY <2>3, <3>3
        <4>2. item \in b.held.items <=> item \in beside.held.items
          BY <3>2, <4>1
        <4> QED
          BY <2>2, <3>2, <4>2, ClearAssumption DEF Directories
      <3>4. Unowned(b) = Unowned(beside)
        BY <2>2, <3>2, <3>3, SameHoldings, ClearAssumption
      <3> QED
        BY <3>1, <3>4
    <2>5. CASE file \notin beside.held.items
      BY <1>1, <1>4, <2>5 DEF Unlink, Then, world
    <2> QED
      BY <2>4, <2>5
  <1>5. CASE RemoveEntry
    <2> DEFINE b == [beside EXCEPT !.held = None]
    <2>1. clear.pc = "unlink" /\ clear.pc \in Holding
      BY <1>5 DEF RemoveEntry, Reached, Holding
    <2>2. beside \in Root /\ beside # None /\ beside.held \in Entry
      BY <2>1, HoldingFacts
    <2>3. CASE beside.held.items = {}
      <3>1. beside' = b /\ home' = home
        BY <1>5, <2>3 DEF RemoveEntry
      <3>2. b \in Root /\ b.id = beside.id /\ b.extra = beside.extra /\ b.kids = beside.kids
            /\ b.held = None
        BY <2>2 DEF Root
      <3> HIDE DEF b
      <3>3. ASSUME NEW i \in Ids, NEW item \in Items
            PROVE  (\E e \in Directories(b) : e.id = i /\ item \in e.items)
                     <=> \E e \in Directories(beside) : e.id = i /\ item \in e.items
        BY <2>2, <2>3, <3>2, ClearAssumption DEF Directories
      <3>4. Unowned(b) = Unowned(beside)
        BY <2>2, <3>2, <3>3, SameHoldings, ClearAssumption
      <3> QED
        BY <3>1, <3>4
    <2>4. CASE beside.held.items # {}
      BY <1>1, <1>5, <2>4 DEF RemoveEntry, Then, world
    <2> QED
      BY <2>3, <2>4
  <1>6. CASE RemoveRoot
    <2>1. CASE beside.kids = NoKids /\ ~beside.extra /\ beside.held = None
      <3>1. Directories(beside) = {}
        BY <2>1 DEF Directories, NoKids
      <3>2. Unowned(beside) = {}
        BY <2>1, <3>1 DEF Unowned
      <3>3. beside' = None /\ home' = home
        BY <1>6, <2>1 DEF RemoveRoot
      <3> QED
        BY <3>2, <3>3 DEF Unowned
    <2>2. CASE ~(beside.kids = NoKids /\ ~beside.extra /\ beside.held = None)
      BY <1>1, <1>6, <2>2 DEF RemoveRoot, Then, world
    <2> QED
      BY <2>1, <2>2
  <1>7. CASE RestoreEntry
    <2> DEFINE n == clear.current
               b == [beside EXCEPT !.kids[n] = beside.held, !.held = None]
    <2>1. clear.pc = "restore entry" /\ clear.pc \in Holding
      BY <1>7 DEF RestoreEntry, Reached, Holding
    <2>2. beside \in Root /\ beside # None /\ beside.held \in Entry /\ n \in Names
          /\ beside.kids[n] = None
      BY <2>1, HoldingFacts
    <2>3. beside' = b /\ home' = home
      BY <1>7, <2>2 DEF RestoreEntry
    <2>4. b \in Root /\ b.id = beside.id /\ b.extra = beside.extra
      BY <2>2 DEF Root
    <2>5. Directories(b) = Directories(beside)
      BY <2>2 DEF Directories, Root
    <2> HIDE DEF b
    <2>6. Unowned(b) = Unowned(beside)
      BY <2>2, <2>4, <2>5, SameHoldings, ClearAssumption
    <2> QED
      BY <2>3, <2>6
  <1>8. CASE RestoreRoot \/ (Fault /\ clear.pc = "check root")
    <2>1. \/ home = None /\ home' = beside /\ beside' = None
          \/ UNCHANGED <<home, beside>>
      BY <1>8 DEF RestoreRoot, Fault, Then, world
    <2> QED
      BY <2>1 DEF Unowned
  <1>9. CASE Fault /\ clear.pc # "check root"
    BY <1>1, <1>9 DEF Fault, Then, world
  <1>10. ASSUME NEW n \in Names, StatChild(n) PROVE Same
    BY <1>1, <1>10 DEF StatChild, Then, world
  <1>11. CASE ListRoot \/ ListChild \/ Decide \/ CheckRoot \/ CheckEntry \/ Relist
    BY <1>1, <1>11 DEF ListRoot, ListChild, Decide, CheckRoot, CheckEntry, Relist, Then, world
  <1> QED
    BY <1>2, <1>3, <1>4, <1>5, <1>6, <1>7, <1>8, <1>9, <1>10, <1>11 DEF ClearStep

\* A scan's step is seen in what the scan is doing.
LEMMA ScanShows ==
  ASSUME IInv, NEW w \in Writers, ScanStep(w) \/ \E n \in Names : SaveCache(w, n)
  PROVE  scan' # scan
  <1>1. scan \in [Writers -> Scan]
    BY DEF IInv, TypeOK
  <1> QED
    BY <1>1 DEF ScanStep, MakeEntry, MakeRoot, MakeTemporary, ReplaceCache, CleanUp, CrashScan,
       SaveCache, Scans, Put, Scan

\* No step of clear_cache destroys anything that is not in the layout it
\* recognises, wherever it appeared and whenever.
THEOREM ForeignKept == Spec => NeverDeletesForeign
  <1>1. IInv /\ [Next]_vars =>
          [scan' = scan /\ foreign' = foreign =>
             Unowned(home') \cup Unowned(beside') = Unowned(home) \cup Unowned(beside)]_vars
    <2> SUFFICES ASSUME IInv, Next, scan' = scan, foreign' = foreign
                 PROVE  Unowned(home') \cup Unowned(beside') = Unowned(home) \cup Unowned(beside)
      OBVIOUS
    <2>1. CASE LookAtRoot \/ CrashClear
      BY <2>1 DEF LookAtRoot, CrashClear, Then, world
    <2>2. ~ForeignStep
      <3>1. ForeignStep => foreign' = foreign + 1
        BY DEF ForeignStep, DropFileBeside, DropChild, DropFile, SwapEntry, SwapRoot, Meddle
      <3>2. foreign \in Nat
        BY DEF IInv, TypeOK
      <3> QED
        BY <3>1, <3>2
    <2> QED
      BY <2>1, <2>2, HoldingsKept, ScanShows DEF Next
  <1> QED
    BY <1>1, Invariant, PTL DEF Spec, NeverDeletesForeign
=============================================================================
