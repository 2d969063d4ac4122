--------------------------- MODULE DpcScan_proofs ---------------------------
(***************************************************************************)
(* Theorems of the change scan's windows.  Whatever happens, no window     *)
(* reaches behind the import cutoff; and if no hold comes or goes while a  *)
(* scan runs, no edit is lost.                                             *)
(***************************************************************************)
EXTENDS DpcScan, TLAPS

-----------------------------------------------------------------------------
(* What is always so.                                                      *)

Places == {"idle", "import", "mark", "take", "each", "snapshot", "failed",
           "create", "build", "retire"}

Shapes ==
    /\ now \in Times /\ watermark \in Times /\ baseline \in Times
    /\ started \in Times /\ from \in Times
    /\ edits \in [Sources -> SUBSET Nat] /\ settled \in [Sources -> SUBSET Nat]
    /\ pkg \in [Sources -> Package \cup {None}]
    /\ row \in [Sources -> Times \cup {None}]
    /\ attempt \in [Sources -> Times \cup {None}]
    /\ retired \in [Sources -> Times \cup {None}]
    /\ blocked \subseteq Sources /\ todo \subseteq Sources /\ eligible \subseteq Sources
    /\ pc \in Places /\ manual \in BOOLEAN /\ cur \in Sources \cup {None}

\* Nothing lies in the future.
Limits ==
    /\ watermark <= now /\ baseline <= now /\ started <= now
    /\ \A s \in Sources :
        /\ \A e \in edits[s] : 1 <= e /\ e <= now
        /\ settled[s] \subseteq edits[s]
        /\ pkg[s] # None => pkg[s].from <= pkg[s].at /\ pkg[s].at <= now
        /\ row[s] # None => row[s] <= now
        /\ attempt[s] # None =>
            row[s] # None /\ row[s] <= attempt[s] /\ attempt[s] <= now

\* A job that has its clock: all it finds is between the cutoff and its start.
Begun ==
    pc \notin {"idle", "import"} =>
        /\ baseline <= started /\ watermark <= started
        /\ \A s \in Sources :
            /\ pkg[s] # None => baseline <= pkg[s].from /\ pkg[s].at <= started
            /\ row[s] # None => baseline <= row[s] /\ row[s] <= started

\* A job that works on a source.
Working ==
    /\ pc \in {"snapshot", "failed", "create", "build"} => cur \in Sources
    /\ pc = "failed" => row[cur] # None
    /\ pc \in {"snapshot", "create"} => baseline <= from /\ from <= started

TInv == Shapes /\ Limits /\ Begun /\ Working


\* The window of a package.
LEMMA PackageIs ==
    /\ None \notin Package /\ None \notin Times /\ Times \subseteq Nat
    /\ \A p \in Package : p.from \in Times /\ p.at \in Times /\ p.built \in BOOLEAN
  BY ScanAssumption DEF Package, Times

\* What marking a source for replay comes to.
LEMMA MarkedIs ==
    ASSUME row \in [Sources -> Times \cup {None}],
           NEW s \in Sources, NEW b \in Times, row' = Marked(s, b)
    PROVE  /\ row' \in [Sources -> Times \cup {None}]
           /\ row'[s] \in Nat /\ row'[s] # None /\ row'[s] <= b
           /\ row[s] # None => row'[s] <= row[s]
           /\ row'[s] = b \/ row'[s] = row[s]
           /\ \A u \in Sources : u # s => row'[u] = row[u]
  <1>1. None \notin Times /\ Times \subseteq Nat
    BY PackageIs
  <1>2. row' = [row EXCEPT ![s] = IF row[s] # None /\ row[s] < b THEN row[s] ELSE b]
    BY DEF Marked
  <1>3. row'[s] = IF row[s] # None /\ row[s] < b THEN row[s] ELSE b
    BY <1>2
  <1>4. row' \in [Sources -> Times \cup {None}]
    BY <1>2
  <1>5. row'[s] \in Times /\ row'[s] <= b /\ (row[s] # None => row'[s] <= row[s])
    <2>1. CASE row[s] = None
      BY <2>1, <1>1, <1>3
    <2>2. CASE row[s] # None
      <3>1. row[s] \in Nat /\ row[s] \in Times /\ b \in Nat
        BY <2>2, <1>1
      <3> QED  BY <3>1, <1>3
    <2> QED  BY <2>1, <2>2
  <1>6. \A u \in Sources : u # s => row'[u] = row[u]
    BY <1>2
  <1> QED  BY <1>1, <1>3, <1>4, <1>5, <1>6

\* What completing a package comes to.
LEMMA CompletedIs ==
    ASSUME pkg \in [Sources -> Package \cup {None}],
           NEW s \in Sources, pkg' = Completed(s)
    PROVE  /\ pkg' \in [Sources -> Package \cup {None}]
           /\ pkg'[s] = None <=> pkg[s] = None
           /\ pkg'[s] # None => /\ pkg'[s].from = pkg[s].from
                                /\ pkg'[s].at = pkg[s].at
                                /\ pkg'[s].built
           /\ \A u \in Sources : u # s => pkg'[u] = pkg[u]
  <1> DEFINE q == [pkg[s] EXCEPT !.built = TRUE]
  <1>1. pkg' = [pkg EXCEPT ![s] = IF pkg[s] = None THEN None ELSE q]
    BY DEF Completed
  <1>2. pkg[s] # None =>
            q \in Package /\ q.from = pkg[s].from /\ q.at = pkg[s].at /\ q.built
    BY DEF Package
  <1>3. pkg[s] # None => q # None
    BY <1>2, PackageIs
  <1> HIDE DEF q
  <1> QED  BY <1>1, <1>2, <1>3

\* Settled edits are edits.
LEMMA SettledIs ==
    ASSUME Shapes, Limits, NEW s \in Sources,
           NEW set, set \subseteq edits[s], Settle(s, set)
    PROVE  /\ settled' \in [Sources -> SUBSET Nat]
           /\ settled'[s] = settled[s] \cup set
           /\ \A u \in Sources : settled'[u] \subseteq edits[u]
           /\ \A u \in Sources : u # s => settled'[u] = settled[u]
  <1>1. settled' = [settled EXCEPT ![s] = settled[s] \cup set]
    BY DEF Settle
  <1>2. settled \in [Sources -> SUBSET Nat] /\ edits \in [Sources -> SUBSET Nat]
    BY DEF Shapes
  <1>3. \A u \in Sources : settled[u] \subseteq edits[u]
    BY DEF Limits
  <1> QED  BY <1>1, <1>2, <1>3

\* A step that touches the rows of one source.
LEMMA LimitsKept ==
    ASSUME Limits, NEW s \in Sources,
           UNCHANGED <<now, edits, baseline>>, watermark' <= now, started' <= now,
           \A u \in Sources : settled'[u] \subseteq edits[u],
           \A u \in Sources : u # s =>
                pkg'[u] = pkg[u] /\ row'[u] = row[u] /\ attempt'[u] = attempt[u],
           pkg'[s] # None => pkg'[s].from <= pkg'[s].at /\ pkg'[s].at <= now,
           row'[s] # None => row'[s] <= now,
           attempt'[s] # None =>
                row'[s] # None /\ row'[s] <= attempt'[s] /\ attempt'[s] <= now
    PROVE  Limits'
  <1>1. watermark' <= now' /\ baseline' <= now' /\ started' <= now'
    BY DEF Limits
  <1>2. ASSUME NEW u \in Sources
        PROVE  /\ \A e \in edits'[u] : 1 <= e /\ e <= now'
               /\ settled'[u] \subseteq edits'[u]
               /\ pkg'[u] # None => pkg'[u].from <= pkg'[u].at /\ pkg'[u].at <= now'
               /\ row'[u] # None => row'[u] <= now'
               /\ attempt'[u] # None =>
                    row'[u] # None /\ row'[u] <= attempt'[u] /\ attempt'[u] <= now'
    <2>1. CASE u = s  BY <2>1 DEF Limits
    <2>2. CASE u # s  BY <2>2 DEF Limits
    <2> QED  BY <2>1, <2>2
  <1> QED  BY <1>1, <1>2 DEF Limits

LEMMA BegunKept ==
    ASSUME Begun, NEW s \in Sources, pc \notin {"idle", "import"},
           UNCHANGED <<baseline, started>>, watermark' <= started,
           \A u \in Sources : u # s => pkg'[u] = pkg[u] /\ row'[u] = row[u],
           pkg'[s] # None => baseline <= pkg'[s].from /\ pkg'[s].at <= started,
           row'[s] # None => baseline <= row'[s] /\ row'[s] <= started
    PROVE  Begun'
  <1>1. baseline' <= started' /\ watermark' <= started'
    BY DEF Begun
  <1>2. ASSUME NEW u \in Sources
        PROVE  /\ pkg'[u] # None => baseline' <= pkg'[u].from /\ pkg'[u].at <= started'
               /\ row'[u] # None => baseline' <= row'[u] /\ row'[u] <= started'
    <2>1. CASE u = s  BY <2>1
    <2>2. CASE u # s  BY <2>2 DEF Begun
    <2> QED  BY <2>1, <2>2
  <1> QED  BY <1>1, <1>2 DEF Begun

LEMMA TInit == Init => TInv
  <1> SUFFICES ASSUME Init  PROVE TInv  OBVIOUS
  <1> USE PackageIs, ScanAssumption
  <1>1. 0 \in Times  BY DEF Times
  <1>2. Legacy \in Package  BY <1>1 DEF Legacy, Package
  <1>3. Shapes  BY <1>1, <1>2 DEF Init, Shapes, Places
  <1>4. Limits
    BY <1>1, <1>2 DEF Init, Limits, Legacy
  <1>5. Begun /\ Working  BY DEF Init, Begun, Working
  <1> QED  BY <1>3, <1>4, <1>5 DEF TInv

-----------------------------------------------------------------------------
(* What happens beside the scan.                                           *)

LEMMA TEdit ==
    ASSUME TInv, NEW s \in Sources, Edit(s)  PROVE TInv'
  <1> USE PackageIs, ScanAssumption DEF TInv
  <1>1. Shapes'
    BY DEF Edit, Shapes, Times, rowVars, jobVars
  <1>2. Limits'
    BY DEF Edit, Shapes, Limits, Times, rowVars, jobVars
  <1>3. Begun' /\ Working'
    BY DEF Edit, Begun, Working, rowVars, jobVars
  <1> QED  BY <1>1, <1>2, <1>3

LEMMA TBlock ==
    ASSUME TInv, NEW s \in Sources, Block(s)  PROVE TInv'
  <1> USE DEF TInv, archiveVars, rowVars, jobVars
  <1>1. Shapes'  BY DEF Block, Shapes
  <1>2. Limits'  BY DEF Block, Limits
  <1>3. Begun' /\ Working'  BY DEF Block, Begun, Working
  <1> QED  BY <1>1, <1>2, <1>3

LEMMA TPublish ==
    ASSUME TInv, NEW s \in Sources, Publish(s)  PROVE TInv'
  <1> USE PackageIs DEF TInv
  <1>0. /\ pkg[s] \in Package /\ row \in [Sources -> Times \cup {None}]
        /\ UpTo(s, pkg[s].at) \subseteq edits[s]
    BY DEF Publish, Shapes, UpTo
  <1>1. row' = Marked(s, pkg[s].at)  BY DEF Publish
  <1>2. /\ row' \in [Sources -> Times \cup {None}]
        /\ row'[s] \in Nat /\ row'[s] # None /\ row'[s] <= pkg[s].at
        /\ row[s] # None => row'[s] <= row[s]
        /\ \A u \in Sources : u # s => row'[u] = row[u]
    BY <1>0, <1>1, MarkedIs
  <1>3. Settle(s, UpTo(s, pkg[s].at))  BY DEF Publish
  <1>4. /\ settled' \in [Sources -> SUBSET Nat]
        /\ \A u \in Sources : settled'[u] \subseteq edits[u]
    BY <1>0, <1>3, SettledIs
  <1>5. Shapes'
    BY <1>2, <1>4 DEF Publish, Shapes, jobVars
  <1>6. Limits'
    <2>1. /\ UNCHANGED <<now, edits, baseline, attempt>>
          /\ watermark' <= now /\ started' <= now
          /\ \A u \in Sources : u # s => pkg'[u] = pkg[u]
          /\ pkg'[s] = None
      BY DEF Publish, Shapes, Limits, jobVars
    <2>2. pkg[s].at \in Times /\ now \in Times /\ pkg[s].at <= now
      BY <1>0 DEF Shapes, Limits
    <2>a. row'[s] \in Nat /\ pkg[s].at \in Nat /\ now \in Nat
      BY <2>2, <1>2
    <2>3. row'[s] <= now
      BY <2>2, <1>2, <2>a
    <2>4. attempt[s] # None =>
            /\ row[s] \in Nat /\ row[s] # None /\ attempt[s] \in Nat
            /\ row[s] <= attempt[s] /\ attempt[s] <= now
      BY DEF Shapes, Limits
    <2>5. attempt'[s] # None =>
            row'[s] # None /\ row'[s] <= attempt'[s] /\ attempt'[s] <= now
      BY <2>1, <2>4, <1>2, <2>a
    <2> QED  BY <1>2, <1>4, <2>1, <2>3, <2>5, LimitsKept
  <1>7. Begun' /\ Working'
    BY DEF Publish, Idle, Begun, Working, jobVars
  <1> QED  BY <1>5, <1>6, <1>7

LEMMA TDiscard ==
    ASSUME TInv, NEW s \in Sources, Discard(s)  PROVE TInv'
  <1> USE PackageIs DEF TInv
  <1>0. UpTo(s, pkg[s].at) \subseteq edits[s]  BY DEF UpTo
  <1>3. Settle(s, UpTo(s, pkg[s].at))  BY DEF Discard
  <1>4. /\ settled' \in [Sources -> SUBSET Nat]
        /\ \A u \in Sources : settled'[u] \subseteq edits[u]
    BY <1>0, <1>3, SettledIs
  <1>5. Shapes'
    BY <1>4 DEF Discard, Shapes, jobVars
  <1>6. Limits'
    <2>1. /\ UNCHANGED <<now, edits, baseline, row, attempt>>
          /\ watermark' <= now /\ started' <= now
          /\ \A u \in Sources : u # s => pkg'[u] = pkg[u]
          /\ pkg'[s] = None
      BY DEF Discard, Shapes, Limits, jobVars
    <2>2. /\ row[s] # None => row[s] <= now
          /\ attempt[s] # None =>
                row[s] # None /\ row[s] <= attempt[s] /\ attempt[s] <= now
      BY DEF Limits
    <2> QED  BY <1>4, <2>1, <2>2, LimitsKept
  <1>7. Begun' /\ Working'
    BY DEF Discard, Idle, Begun, Working, jobVars
  <1> QED  BY <1>5, <1>6, <1>7

-----------------------------------------------------------------------------
(* The start of both jobs.                                                 *)

\* A job that ends leaves nothing behind.
LEMMA TQuit ==
    ASSUME TInv, Quit,
           UNCHANGED <<archiveVars, watermark, baseline, blocked>>,
           \/ UNCHANGED rowVars
           \/ UNCHANGED <<edits>> /\ Shapes' /\ Limits'
    PROVE  TInv'
  <1> USE PackageIs, ScanAssumption DEF TInv
  <1>0. 0 \in Times /\ pc' = "idle"  BY DEF Times, Quit
  <1>1. Shapes'
    BY <1>0 DEF Quit, Shapes, Places, archiveVars, rowVars
  <1>2. Limits'
    BY <1>0 DEF Quit, Shapes, Limits, archiveVars, rowVars
  <1>3. Begun' /\ Working'
    BY <1>0 DEF Begun, Working
  <1> QED  BY <1>1, <1>2, <1>3

LEMMA TBegin ==
    ASSUME TInv, NEW m \in BOOLEAN, Begin(m)  PROVE TInv'
  <1> USE PackageIs, ScanAssumption DEF TInv
  <1>0. baseline' \in Nat /\ baseline' <= now /\ baseline' \in Times
    BY DEF Begin, Shapes, Limits, Times
  <1>1. Shapes'
    BY <1>0 DEF Begin, Shapes, Places, archiveVars, rowVars
  <1>2. Limits'
    BY <1>0 DEF Begin, Limits, archiveVars, rowVars
  <1>3. Begun' /\ Working'
    BY DEF Begin, Begun, Working
  <1> QED  BY <1>1, <1>2, <1>3

LEMMA TDropStale ==
    ASSUME TInv, NEW s \in Sources, DropStale(s)  PROVE TInv'
  <1> USE PackageIs DEF TInv
  <1>a. CASE s \in blocked
    <2>1. Quit /\ UNCHANGED rowVars /\ UNCHANGED <<archiveVars, watermark, baseline, blocked>>
      BY <1>a DEF DropStale
    <2> QED  BY <2>1, TQuit
  <1>b. CASE s \notin blocked
    <2>0. /\ pkg[s] \in Package /\ row \in [Sources -> Times \cup {None}]
          /\ pkg[s].from \in Times
      BY DEF DropStale, Stale, Shapes
    <2>1. /\ row' = Marked(s, pkg[s].from) /\ pkg' = [pkg EXCEPT ![s] = None]
          /\ UNCHANGED <<attempt, jobVars, archiveVars, watermark, baseline, blocked>>
      BY <1>b DEF DropStale
    <2>2. /\ row' \in [Sources -> Times \cup {None}]
          /\ row'[s] \in Nat /\ row'[s] # None /\ row'[s] <= pkg[s].from
          /\ row[s] # None => row'[s] <= row[s]
          /\ \A u \in Sources : u # s => row'[u] = row[u]
      BY <2>0, <2>1, MarkedIs
    <2>3. Shapes'
      BY <2>1, <2>2 DEF Shapes, jobVars, archiveVars
    <2>4. Limits'
      <3>1. /\ UNCHANGED <<now, edits, baseline, attempt, settled>>
            /\ watermark' <= now /\ started' <= now
            /\ \A u \in Sources : u # s => pkg'[u] = pkg[u]
            /\ pkg'[s] = None
            /\ \A u \in Sources : settled[u] \subseteq edits[u]
        BY <2>1 DEF Shapes, Limits, jobVars, archiveVars
      <3>2. /\ pkg[s].at \in Times /\ now \in Times
            /\ pkg[s].from <= pkg[s].at /\ pkg[s].at <= now
        BY <2>0 DEF Shapes, Limits
      <3>a. /\ row'[s] \in Nat /\ pkg[s].from \in Nat /\ pkg[s].at \in Nat
            /\ now \in Nat
        BY <2>0, <2>2, <3>2
      <3>3. row'[s] <= now
        BY <2>2, <3>2, <3>a
      <3>4. attempt[s] # None =>
              /\ row[s] \in Nat /\ row[s] # None /\ attempt[s] \in Nat
              /\ row[s] <= attempt[s] /\ attempt[s] <= now
        BY DEF Shapes, Limits
      <3>5. attempt'[s] # None =>
              row'[s] # None /\ row'[s] <= attempt'[s] /\ attempt'[s] <= now
        BY <2>2, <3>1, <3>4, <3>a
      <3> QED  BY <2>2, <3>1, <3>3, <3>5, LimitsKept
    <2>5. pc' = "import"
      BY <2>1 DEF DropStale, jobVars
    <2>6. Begun' /\ Working'
      BY <2>5 DEF Begun, Working
    <2> QED  BY <2>3, <2>4, <2>6
  <1> QED  BY <1>a, <1>b

LEMMA TRebaseReplay ==
    ASSUME TInv, RebaseReplay  PROVE TInv'
  <1> USE PackageIs DEF TInv
  <1>1. \A s \in Sources :
            /\ row'[s] = IF row[s] = None THEN None
                         ELSE IF row[s] > baseline THEN row[s] ELSE baseline
            /\ attempt'[s] =
                IF row[s] # None /\ attempt[s] # None
                   /\ (row[s] < baseline \/ attempt[s] < baseline)
                THEN None ELSE attempt[s]
    BY DEF RebaseReplay, Rebased, Later
  <1>2. row' \in [Sources -> Times \cup {None}]
    <2>1. \A s \in Sources : Rebased(s) \in Times \cup {None}
      BY DEF Shapes, Rebased, Later
    <2> QED  BY <2>1 DEF RebaseReplay
  <1>3. attempt' \in [Sources -> Times \cup {None}]
    BY DEF RebaseReplay, Shapes
  <1>4. Shapes'
    BY <1>2, <1>3 DEF RebaseReplay, Shapes, Places, archiveVars
  <1>a. /\ now \in Nat /\ baseline \in Nat /\ watermark <= now /\ baseline <= now
        /\ UNCHANGED <<now, edits, settled, watermark, baseline, pkg>>
        /\ started' = now
    BY DEF RebaseReplay, Shapes, Limits, archiveVars
  <1>b. ASSUME NEW s \in Sources
        PROVE  /\ row'[s] # None => baseline <= row'[s] /\ row'[s] <= now
               /\ attempt'[s] # None =>
                    row'[s] # None /\ row'[s] <= attempt'[s] /\ attempt'[s] <= now
    <2>1. row[s] # None => row[s] \in Nat /\ row[s] <= now
      BY DEF Shapes, Limits
    <2>2. attempt[s] # None =>
            /\ attempt[s] \in Nat /\ row[s] # None
            /\ row[s] <= attempt[s] /\ attempt[s] <= now
      BY DEF Shapes, Limits
    <2>3. row[s] = None => row'[s] = None
      BY <1>1
    <2>4. row[s] # None =>
            row'[s] = IF row[s] > baseline THEN row[s] ELSE baseline
      BY <1>1
    <2>5. row'[s] # None => baseline <= row'[s] /\ row'[s] <= now
      BY <1>a, <2>1, <2>3, <2>4
    <2>6. attempt'[s] # None =>
            attempt[s] # None /\ attempt'[s] = attempt[s] /\ ~(row[s] < baseline)
      BY <1>1, <2>2
    <2>7. attempt'[s] # None => row'[s] = row[s]
      BY <1>a, <2>1, <2>2, <2>4, <2>6
    <2> QED  BY <2>2, <2>5, <2>6, <2>7
  <1>5. Limits'
    <2>1. ASSUME NEW s \in Sources
          PROVE  /\ \A e \in edits'[s] : 1 <= e /\ e <= now'
                 /\ settled'[s] \subseteq edits'[s]
                 /\ pkg'[s] # None => pkg'[s].from <= pkg'[s].at /\ pkg'[s].at <= now'
      BY <1>a DEF Limits
    <2> QED  BY <1>a, <1>b, <2>1 DEF Limits
  <1>6. Begun'
    <2>1. ASSUME NEW s \in Sources, pkg[s] # None
          PROVE  baseline <= pkg[s].from /\ pkg[s].at <= now
      <3>1. ~(pkg[s].from < baseline) /\ pkg[s].from \in Nat /\ pkg[s].at <= now
        BY <2>1 DEF RebaseReplay, Stale, Shapes, Limits
      <3> QED  BY <3>1, <1>a
    <2> QED  BY <1>a, <1>b, <2>1 DEF Begun
  <1>7. Working'
    BY DEF RebaseReplay, Working
  <1> QED  BY <1>4, <1>5, <1>6, <1>7

-----------------------------------------------------------------------------
(* A job that has its clock.                                               *)

Clocked == pc \notin {"idle", "import"}

\* The bounds that such a job may find, in numbers.
LEMMA ClockedIs ==
    ASSUME TInv, Clocked, NEW s \in Sources
    PROVE  /\ baseline \in Nat /\ started \in Nat /\ now \in Nat /\ watermark \in Nat
           /\ baseline \in Times /\ started \in Times /\ watermark \in Times
           /\ baseline <= started /\ started <= now /\ watermark <= started
           /\ Since \in Times /\ Since \in Nat /\ baseline <= Since /\ Since <= started
           /\ pkg[s] # None =>
                /\ pkg[s] \in Package
                /\ pkg[s].from \in Times /\ pkg[s].from \in Nat /\ pkg[s].at \in Nat
                /\ baseline <= pkg[s].from /\ pkg[s].from <= pkg[s].at
                /\ pkg[s].at <= started
           /\ row[s] # None =>
                /\ row[s] \in Times /\ row[s] \in Nat
                /\ baseline <= row[s] /\ row[s] <= started
           /\ attempt[s] # None =>
                /\ attempt[s] \in Nat /\ row[s] # None
                /\ row[s] <= attempt[s] /\ attempt[s] <= now
           /\ settled[s] \subseteq edits[s] /\ edits[s] \subseteq Nat
  <1> USE PackageIs DEF TInv
  <1>1. /\ baseline \in Nat /\ started \in Nat /\ now \in Nat /\ watermark \in Nat
        /\ baseline \in Times /\ started \in Times /\ watermark \in Times
    BY DEF Shapes
  <1>2. baseline <= started /\ started <= now /\ watermark <= started
    BY DEF Limits, Begun, Clocked
  <1>3. Since \in Times /\ Since \in Nat /\ baseline <= Since /\ Since <= started
    BY <1>1, <1>2 DEF Since, Later
  <1>4. pkg[s] # None =>
            /\ pkg[s] \in Package
            /\ pkg[s].from \in Times /\ pkg[s].from \in Nat /\ pkg[s].at \in Nat
            /\ baseline <= pkg[s].from /\ pkg[s].from <= pkg[s].at
            /\ pkg[s].at <= started
    BY DEF Shapes, Limits, Begun, Clocked
  <1>5. row[s] # None =>
            /\ row[s] \in Times /\ row[s] \in Nat
            /\ baseline <= row[s] /\ row[s] <= started
    BY DEF Shapes, Begun, Clocked
  <1>6. attempt[s] # None =>
            /\ attempt[s] \in Nat /\ row[s] # None
            /\ row[s] <= attempt[s] /\ attempt[s] <= now
    BY DEF Shapes, Limits
  <1>7. settled[s] \subseteq edits[s] /\ edits[s] \subseteq Nat
    BY DEF Shapes, Limits
  <1> QED  BY <1>1, <1>2, <1>3, <1>4, <1>5, <1>6, <1>7

\* A step of such a job that touches the rows of one source.
LEMMA SourceStep ==
    ASSUME TInv, Clocked, NEW s \in Sources, Shapes', Working',
           UNCHANGED <<now, edits, baseline>>,
           watermark' = watermark \/ watermark' = started,
           \A u \in Sources : settled'[u] \subseteq edits[u],
           \A u \in Sources : u # s =>
                pkg'[u] = pkg[u] /\ row'[u] = row[u] /\ attempt'[u] = attempt[u],
           pkg'[s] # None => /\ baseline <= pkg'[s].from /\ pkg'[s].from <= pkg'[s].at
                             /\ pkg'[s].at <= started,
           row'[s] # None => baseline <= row'[s] /\ row'[s] <= started,
           attempt'[s] # None =>
                row'[s] # None /\ row'[s] <= attempt'[s] /\ attempt'[s] <= now,
           started' = started \/ (pc' = "idle" /\ started' = 0)
    PROVE  TInv'
  <1>1. /\ baseline \in Nat /\ started \in Nat /\ now \in Nat
        /\ started <= now /\ watermark <= started /\ watermark \in Nat
    BY ClockedIs
  <1>2. watermark' <= now /\ watermark' <= started /\ started' <= now
    BY <1>1
  <1>3. pkg'[s] # None => pkg'[s] \in Package
    BY DEF Shapes
  <1>4. pkg'[s] # None => pkg'[s].at \in Nat
    BY <1>3, PackageIs
  <1>5. row'[s] # None => row'[s] \in Nat
    BY PackageIs DEF Shapes
  <1>6. /\ pkg'[s] # None => pkg'[s].from <= pkg'[s].at /\ pkg'[s].at <= now
        /\ row'[s] # None => row'[s] <= now
    BY <1>1, <1>4, <1>5
  <1>7. Limits'
    BY <1>2, <1>6, LimitsKept DEF TInv
  <1>8. CASE started' = started
    <2>1. Begun'
      BY <1>2, <1>8, BegunKept DEF TInv, Clocked
    <2> QED  BY <1>7, <2>1 DEF TInv
  <1>9. CASE pc' = "idle"
    <2>1. Begun'  BY <1>9 DEF Begun
    <2> QED  BY <1>7, <2>1 DEF TInv
  <1> QED  BY <1>8, <1>9

\* A step of such a job that touches no row.
LEMMA JobStep ==
    ASSUME TInv, Clocked, Shapes', Working',
           UNCHANGED <<now, edits, settled, baseline, pkg, row>>,
           \A s \in Sources : attempt'[s] = attempt[s],
           watermark' = watermark \/ watermark' = started,
           started' = started \/ (pc' = "idle" /\ started' = 0)
    PROVE  TInv'
  <1>1. /\ started \in Nat /\ now \in Nat /\ watermark \in Nat /\ baseline \in Nat
        /\ started <= now /\ watermark <= started /\ baseline <= started
    <2>1. CASE Sources = {}
      BY PackageIs DEF TInv, Shapes, Limits, Begun, Clocked
    <2>2. CASE Sources # {}
      BY <2>2, ClockedIs
    <2> QED  BY <2>1, <2>2
  <1>2. watermark' <= now /\ watermark' <= started /\ started' <= now
    BY <1>1
  <1>3. Limits'
    <2>1. baseline' <= now' /\ watermark' <= now' /\ started' <= now'
      BY <1>2 DEF TInv, Limits
    <2> QED  BY <2>1 DEF TInv, Limits
  <1>4. CASE started' = started
    <2>1. Begun'
      BY <1>1, <1>2, <1>4 DEF TInv, Clocked, Begun
    <2> QED  BY <1>3, <2>1 DEF TInv
  <1>5. CASE pc' = "idle"
    <2>1. Begun'  BY <1>5 DEF Begun
    <2> QED  BY <1>3, <2>1 DEF TInv
  <1> QED  BY <1>4, <1>5

\* How a job leaves a source.
LEMMA LeaveIs ==
    ASSUME Shapes, cur \in Sources, NEW bound \in Times \cup {None}, Leave(bound)
    PROVE  /\ started' \in Times /\ from' \in Times
           /\ retired' \in [Sources -> Times \cup {None}]
           /\ todo' \subseteq Sources /\ eligible' \subseteq Sources
           /\ pc' \in Places /\ manual' \in BOOLEAN /\ cur' = None
           /\ pc' \in {"idle", "each"}
           /\ started' = started \/ (pc' = "idle" /\ started' = 0)
           /\ Working'
  <1>0. 0 \in Times  BY ScanAssumption DEF Times
  <1>1. CASE manual
    <2>1. Quit  BY <1>1 DEF Leave
    <2> QED  BY <1>0, <2>1 DEF Quit, Places, Working
  <1>2. CASE ~manual
    <2>1. Finished(cur) /\ retired' = [retired EXCEPT ![cur] = bound]
      BY <1>2 DEF Leave
    <2>2. retired' \in [Sources -> Times \cup {None}]
      BY <2>1 DEF Shapes
    <2> QED  BY <2>1, <2>2 DEF Finished, Shapes, Places, Working
  <1> QED  BY <1>1, <1>2

-----------------------------------------------------------------------------
(* The plan, and one source.                                               *)

LEMMA TMarkIncomplete ==
    ASSUME TInv, NEW s \in Sources, MarkIncomplete(s)  PROVE TInv'
  <1>1. Clocked /\ pkg[s] # None
    BY DEF MarkIncomplete, Unmarked, Clocked
  <1>2. /\ UNCHANGED <<archiveVars, watermark, baseline, pkg, attempt, blocked, jobVars>>
        /\ row' = Marked(s, pkg[s].from)
    BY DEF MarkIncomplete
  <1>3. /\ pkg[s].from \in Times /\ pkg[s].from \in Nat /\ pkg[s].at \in Nat
        /\ started \in Nat /\ baseline \in Nat
        /\ baseline <= pkg[s].from /\ pkg[s].from <= pkg[s].at /\ pkg[s].at <= started
        /\ row[s] # None => baseline <= row[s] /\ row[s] \in Nat
        /\ attempt[s] # None =>
            attempt[s] \in Nat /\ row[s] # None /\ row[s] <= attempt[s] /\ attempt[s] <= now
    BY <1>1, ClockedIs
  <1>4. /\ row' \in [Sources -> Times \cup {None}]
        /\ row'[s] \in Nat /\ row'[s] # None /\ row'[s] <= pkg[s].from
        /\ row[s] # None => row'[s] <= row[s]
        /\ row'[s] = pkg[s].from \/ row'[s] = row[s]
        /\ \A u \in Sources : u # s => row'[u] = row[u]
    BY <1>2, <1>3, MarkedIs DEF TInv, Shapes
  <1>5. Shapes'
    BY <1>2, <1>4 DEF TInv, Shapes, archiveVars, jobVars
  <1>6. Working'
    BY <1>2 DEF MarkIncomplete, Working, jobVars
  <1>7. baseline <= row'[s] /\ row'[s] <= started
    BY <1>3, <1>4
  <1>8. attempt[s] # None => row'[s] <= attempt[s]
    BY <1>3, <1>4
  <1>9. \A u \in Sources : settled[u] \subseteq edits[u]
    BY DEF TInv, Limits
  <1> QED
    BY <1>1, <1>2, <1>3, <1>4, <1>5, <1>6, <1>7, <1>8, <1>9, SourceStep
    DEF archiveVars, jobVars

LEMMA TPlan ==
    ASSUME TInv, Plan  PROVE TInv'
  <1>1. /\ Clocked /\ pc' = "each" /\ eligible' \subseteq Sources /\ todo' \subseteq Sources
        /\ UNCHANGED <<archiveVars, watermark, baseline, rowVars, blocked, manual,
                       started, cur, from, retired>>
    BY DEF Plan, Clocked
  <1>2. Shapes'
    BY <1>1 DEF TInv, Shapes, Places, archiveVars, rowVars
  <1>3. Working'
    BY <1>1 DEF Working
  <1> QED  BY <1>1, <1>2, <1>3, JobStep DEF archiveVars, rowVars

LEMMA TSkip ==
    ASSUME TInv, NEW s \in Sources, Skip(s)  PROVE TInv'
  <1>1. /\ Clocked /\ pc' = "each" /\ todo' \subseteq todo /\ cur' = None
        /\ UNCHANGED <<archiveVars, watermark, baseline, rowVars, blocked, manual,
                       started, eligible, from, retired>>
    BY DEF Skip, Turn, Finished, Clocked
  <1>2. Shapes'
    BY <1>1 DEF TInv, Shapes, Places, archiveVars, rowVars
  <1>3. Working'
    BY <1>1 DEF Working
  <1> QED  BY <1>1, <1>2, <1>3, JobStep DEF archiveVars, rowVars

LEMMA TDefer ==
    ASSUME TInv, NEW s \in Sources, Defer(s)  PROVE TInv'
  <1>1. /\ Clocked /\ pc' = "each" /\ todo' \subseteq todo /\ cur' = None
        /\ UNCHANGED <<archiveVars, watermark, baseline, pkg, attempt, blocked, manual,
                       started, eligible, from, retired>>
        /\ row' = Marked(s, Bound(s))
    BY DEF Defer, Turn, Finished, Clocked
  <1>2. /\ Bound(s) \in Times /\ Bound(s) \in Nat
        /\ baseline <= Bound(s) /\ Bound(s) <= started
        /\ started \in Nat /\ baseline \in Nat
        /\ row[s] # None => Bound(s) = row[s]
        /\ attempt[s] # None =>
            attempt[s] \in Nat /\ row[s] # None /\ row[s] <= attempt[s] /\ attempt[s] <= now
        /\ pkg[s] # None => /\ baseline <= pkg[s].from /\ pkg[s].from <= pkg[s].at
                            /\ pkg[s].at <= started
    BY <1>1, ClockedIs DEF Bound
  <1>3. /\ row' \in [Sources -> Times \cup {None}]
        /\ row'[s] # None /\ row'[s] = Bound(s)
        /\ \A u \in Sources : u # s => row'[u] = row[u]
    BY <1>1, <1>2, MarkedIs DEF TInv, Shapes
  <1>4. Shapes'
    BY <1>1, <1>3 DEF TInv, Shapes, Places, archiveVars
  <1>5. Working'
    BY <1>1 DEF Working
  <1>6. \A u \in Sources : settled[u] \subseteq edits[u]
    BY DEF TInv, Limits
  <1>7. attempt[s] # None => row'[s] <= attempt[s]
    BY <1>2, <1>3
  <1> QED
    BY <1>1, <1>2, <1>3, <1>4, <1>5, <1>6, <1>7, SourceStep DEF archiveVars

\* Queueing members leaves the source's bounds in order.
LEMMA QueuedIs ==
    ASSUME TInv, Clocked, NEW s \in Sources, row' = Queued(s)
    PROVE  /\ row' \in [Sources -> Times \cup {None}]
           /\ \A u \in Sources : u # s => row'[u] = row[u]
           /\ row'[s] # None =>
                row'[s] \in Nat /\ baseline <= row'[s] /\ row'[s] <= started
           /\ attempt[s] # None => row'[s] # None /\ row'[s] <= attempt[s]
           /\ row[s] # None => row'[s] # None /\ row'[s] <= row[s]
           /\ row'[s] = row[s] \/ (pkg[s] # None /\ row'[s] = pkg[s].from)
  <1>1. CASE pkg[s] # None /\ ~pkg[s].built
    <2>1. row' = Marked(s, pkg[s].from)
      BY <1>1 DEF Queued
    <2>2. /\ pkg[s].from \in Times /\ pkg[s].from \in Nat /\ pkg[s].at \in Nat
          /\ started \in Nat /\ baseline \in Nat
          /\ baseline <= pkg[s].from /\ pkg[s].from <= pkg[s].at /\ pkg[s].at <= started
          /\ row[s] # None => baseline <= row[s] /\ row[s] \in Nat
          /\ attempt[s] # None =>
              attempt[s] \in Nat /\ row[s] # None /\ row[s] <= attempt[s]
      BY <1>1, ClockedIs
    <2>3. /\ row' \in [Sources -> Times \cup {None}]
          /\ row'[s] \in Nat /\ row'[s] # None /\ row'[s] <= pkg[s].from
          /\ row[s] # None => row'[s] <= row[s]
          /\ row'[s] = pkg[s].from \/ row'[s] = row[s]
          /\ \A u \in Sources : u # s => row'[u] = row[u]
      BY <2>1, <2>2, MarkedIs DEF TInv, Shapes
    <2>4. baseline <= row'[s] /\ row'[s] <= started
      BY <2>2, <2>3
    <2>5. attempt[s] # None => row'[s] <= attempt[s]
      BY <2>2, <2>3
    <2> QED  BY <1>1, <2>3, <2>4, <2>5
  <1>2. CASE ~(pkg[s] # None /\ ~pkg[s].built)
    <2>1. row' = row  BY <1>2 DEF Queued
    <2>2. row \in [Sources -> Times \cup {None}]
      BY DEF TInv, Shapes
    <2>3. /\ row[s] # None =>
            row[s] \in Nat /\ baseline <= row[s] /\ row[s] <= started
          /\ attempt[s] # None => row[s] # None /\ row[s] <= attempt[s]
      BY ClockedIs
    <2> QED  BY <2>1, <2>2, <2>3
  <1> QED  BY <1>1, <1>2

LEMMA TQuiet ==
    ASSUME TInv, NEW s \in Sources, Quiet(s)  PROVE TInv'
  <1>1. /\ Clocked /\ pc' = "each" /\ todo' \subseteq todo /\ cur' = None
        /\ UNCHANGED <<now, edits, watermark, baseline, attempt, blocked, manual,
                       started, eligible, from>>
        /\ row' = Queued(s) /\ pkg' = Completed(s) /\ Settle(s, Looked(s))
        /\ retired' = [retired EXCEPT ![s] = Bound(s)]
    BY DEF Quiet, Turn, Finished, Clocked
  <1>2. Looked(s) \subseteq edits[s]
    BY DEF Looked, Window
  <1>3. /\ settled' \in [Sources -> SUBSET Nat]
        /\ \A u \in Sources : settled'[u] \subseteq edits[u]
    BY <1>1, <1>2, SettledIs DEF TInv
  <1>4. /\ row' \in [Sources -> Times \cup {None}]
        /\ \A u \in Sources : u # s => row'[u] = row[u]
        /\ row'[s] # None => baseline <= row'[s] /\ row'[s] <= started
        /\ attempt[s] # None => row'[s] # None /\ row'[s] <= attempt[s]
    BY <1>1, QueuedIs
  <1>5. /\ pkg' \in [Sources -> Package \cup {None}]
        /\ pkg'[s] # None => /\ pkg[s] # None
                             /\ pkg'[s].from = pkg[s].from /\ pkg'[s].at = pkg[s].at
        /\ \A u \in Sources : u # s => pkg'[u] = pkg[u]
    BY <1>1, CompletedIs DEF TInv, Shapes
  <1>6. Bound(s) \in Times
    BY <1>1, ClockedIs DEF Bound
  <1>7. retired' \in [Sources -> Times \cup {None}]
    BY <1>1, <1>6 DEF TInv, Shapes
  <1>8. Shapes'
    BY <1>1, <1>3, <1>4, <1>5, <1>7 DEF TInv, Shapes, Places
  <1>9. Working'
    BY <1>1 DEF Working
  <1>10. pkg'[s] # None => /\ baseline <= pkg'[s].from /\ pkg'[s].from <= pkg'[s].at
                           /\ pkg'[s].at <= started
    BY <1>1, <1>5, ClockedIs
  <1>11. attempt[s] # None => attempt[s] <= now
    BY <1>1, ClockedIs
  <1> QED
    BY <1>1, <1>3, <1>4, <1>5, <1>8, <1>9, <1>10, <1>11, SourceStep

LEMMA TLook ==
    ASSUME TInv, NEW s \in Sources, Look(s)  PROVE TInv'
  <1>1. /\ Clocked /\ pc' = "snapshot" /\ cur' = s
        /\ from' = IF pkg[s] # None THEN pkg[s].from ELSE Bound(s)
        /\ UNCHANGED <<archiveVars, watermark, baseline, pkg, attempt, blocked,
                       manual, started, todo, eligible, retired>>
        /\ row' = Queued(s)
    BY DEF Look, Turn, Clocked
  <1>2. /\ row' \in [Sources -> Times \cup {None}]
        /\ \A u \in Sources : u # s => row'[u] = row[u]
        /\ row'[s] # None => baseline <= row'[s] /\ row'[s] <= started
        /\ attempt[s] # None => row'[s] # None /\ row'[s] <= attempt[s]
    BY <1>1, QueuedIs
  <1>3. Bound(s) \in Times /\ baseline <= Bound(s) /\ Bound(s) <= started
    BY <1>1, ClockedIs DEF Bound
  <1>4. /\ pkg[s] # None => /\ pkg[s].from \in Times /\ pkg[s].from \in Nat /\ pkg[s].at \in Nat
                            /\ baseline <= pkg[s].from /\ pkg[s].from <= pkg[s].at
                            /\ pkg[s].at <= started
        /\ attempt[s] # None => attempt[s] <= now
        /\ started \in Nat
    BY <1>1, ClockedIs
  <1>5. from' \in Times /\ baseline <= from' /\ from' <= started
    BY <1>1, <1>3, <1>4
  <1>6. Shapes'
    BY <1>1, <1>2, <1>5 DEF TInv, Shapes, Places, archiveVars
  <1>7. Working'
    BY <1>1, <1>5 DEF Working
  <1>8. \A u \in Sources : settled[u] \subseteq edits[u]
    BY DEF TInv, Limits
  <1> QED
    BY <1>1, <1>2, <1>4, <1>6, <1>7, <1>8, SourceStep DEF archiveVars

LEMMA TTake ==
    ASSUME TInv, NEW s \in Sources, Take(s)  PROVE TInv'
  <1>0. /\ Clocked
        /\ UNCHANGED <<archiveVars, watermark, baseline, rowVars, blocked>>
    BY DEF Take, Clocked
  <1>1. CASE pkg[s] # None \/ s \in blocked
    <2>1. Quit  BY <1>1 DEF Take
    <2> QED  BY <1>0, <2>1, TQuit
  <1>2. CASE ~(pkg[s] # None \/ s \in blocked)
    <2> DEFINE b == IF row[s] # None /\ row[s] < watermark THEN row[s] ELSE watermark
    <2>1. /\ from' = Later(baseline, b) /\ cur' = s /\ pc' = "snapshot"
          /\ UNCHANGED <<manual, started, todo, eligible, retired>>
      BY <1>2 DEF Take
    <2>2. b \in Times /\ b \in Nat /\ b <= started /\ baseline \in Nat /\ baseline \in Times
          /\ baseline <= started
      BY <1>0, ClockedIs
    <2>3. from' \in Times /\ baseline <= from' /\ from' <= started
      BY <2>1, <2>2 DEF Later
    <2>4. Shapes'
      BY <1>0, <2>1, <2>3 DEF TInv, Shapes, Places, archiveVars, rowVars
    <2>5. Working'
      BY <1>0, <2>1, <2>3 DEF Working
    <2> QED  BY <1>0, <2>1, <2>4, <2>5, JobStep DEF archiveVars, rowVars
  <1> QED  BY <1>1, <1>2

-----------------------------------------------------------------------------
(* The source snapshot, and the end of a scan.                             *)

\* What a job does beside the rows when it leaves a source.
Beside == UNCHANGED <<now, edits, watermark, baseline, blocked>>

LEMMA TSnapshotFails ==
    ASSUME TInv, SnapshotFails  PROVE TInv'
  <1>1. /\ Clocked /\ pc' = "failed" /\ cur \in Sources
        /\ UNCHANGED <<archiveVars, watermark, baseline, pkg, attempt, blocked,
                       manual, started, todo, eligible, cur, from, retired>>
        /\ row' = Marked(cur, from)
        /\ baseline <= from /\ from <= started
    BY DEF SnapshotFails, Clocked, TInv, Working
  <1>2. /\ row[cur] # None => baseline <= row[cur] /\ row[cur] \in Nat
        /\ attempt[cur] # None =>
            /\ attempt[cur] \in Nat /\ row[cur] # None
            /\ row[cur] \in Nat /\ row[cur] <= attempt[cur] /\ attempt[cur] <= now
        /\ started \in Nat /\ baseline \in Nat
        /\ pkg[cur] # None => /\ baseline <= pkg[cur].from
                              /\ pkg[cur].from <= pkg[cur].at /\ pkg[cur].at <= started
    BY <1>1, ClockedIs
  <1>a. from \in Times /\ from \in Nat
    BY PackageIs DEF TInv, Shapes
  <1>3. /\ row' \in [Sources -> Times \cup {None}]
        /\ row'[cur] \in Nat /\ row'[cur] # None /\ row'[cur] <= from
        /\ row[cur] # None => row'[cur] <= row[cur]
        /\ row'[cur] = from \/ row'[cur] = row[cur]
        /\ \A u \in Sources : u # cur => row'[u] = row[u]
    BY <1>1, <1>a, MarkedIs DEF TInv, Shapes
  <1>4. Shapes'
    BY <1>1, <1>3 DEF TInv, Shapes, Places, archiveVars
  <1>5. Working'
    BY <1>1, <1>3 DEF Working
  <1>6. baseline <= row'[cur] /\ row'[cur] <= started
    BY <1>1, <1>2, <1>3, <1>a
  <1>7. attempt[cur] # None => row'[cur] <= attempt[cur]
    BY <1>2, <1>3
  <1>8. \A u \in Sources : settled[u] \subseteq edits[u]
    BY DEF TInv, Limits
  <1> QED
    BY <1>1, <1>2, <1>3, <1>4, <1>5, <1>6, <1>7, <1>8, SourceStep DEF archiveVars

LEMMA TRecordFailure ==
    ASSUME TInv, RecordFailure  PROVE TInv'
  <1>1. /\ Clocked /\ cur \in Sources
        /\ UNCHANGED <<archiveVars, watermark, baseline, pkg, row, blocked>>
        /\ attempt' = [attempt EXCEPT ![cur] = IF attempt[cur] = None THEN started
                                               ELSE Later(attempt[cur], started)]
        /\ Leave(retired[cur]) /\ row[cur] # None
    BY DEF RecordFailure, Clocked, TInv, Working
  <1>2. retired[cur] \in Times \cup {None}
    BY <1>1 DEF TInv, Shapes
  <1>3. /\ started' \in Times /\ from' \in Times
        /\ retired' \in [Sources -> Times \cup {None}]
        /\ todo' \subseteq Sources /\ eligible' \subseteq Sources
        /\ pc' \in Places /\ manual' \in BOOLEAN /\ cur' = None
        /\ started' = started \/ (pc' = "idle" /\ started' = 0)
        /\ Working'
    BY <1>1, <1>2, LeaveIs DEF TInv
  <1>4. /\ started \in Nat /\ started \in Times /\ now \in Nat /\ started <= now
        /\ row[cur] \in Nat /\ baseline <= row[cur] /\ row[cur] <= started
        /\ attempt[cur] # None =>
            /\ attempt[cur] \in Nat /\ row[cur] <= attempt[cur] /\ attempt[cur] <= now
        /\ pkg[cur] # None => /\ baseline <= pkg[cur].from
                              /\ pkg[cur].from <= pkg[cur].at /\ pkg[cur].at <= started
    BY <1>1, ClockedIs
  <1>5. attempt \in [Sources -> Times \cup {None}]
    BY DEF TInv, Shapes
  <1>6. /\ attempt'[cur] = IF attempt[cur] = None THEN started
                           ELSE Later(attempt[cur], started)
        /\ \A u \in Sources : u # cur => attempt'[u] = attempt[u]
    BY <1>1, <1>5
  <1>7. row[cur] <= attempt'[cur] /\ attempt'[cur] <= now /\ attempt'[cur] \in Times
    BY <1>4, <1>5, <1>1, <1>6 DEF Later
  <1>8. attempt' \in [Sources -> Times \cup {None}]
    BY <1>1, <1>5, <1>6, <1>7
  <1>9. Shapes'
    BY <1>1, <1>3, <1>8 DEF TInv, Shapes, archiveVars
  <1>10. \A u \in Sources : settled[u] \subseteq edits[u]
    BY DEF TInv, Limits
  <1> QED
    BY <1>1, <1>3, <1>4, <1>6, <1>7, <1>9, <1>10, SourceStep DEF archiveVars

\* A step that leaves the source, its package and row being in order.
LEMMA LeaveStep ==
    ASSUME TInv, pc \in {"snapshot", "failed", "create", "build"},
           NEW bound \in Times \cup {None}, Leave(bound), Beside,
           UNCHANGED attempt,
           settled' \in [Sources -> SUBSET Nat],
           \A u \in Sources : settled'[u] \subseteq edits[u],
           pkg' \in [Sources -> Package \cup {None}],
           row' \in [Sources -> Times \cup {None}],
           \A u \in Sources : u # cur => pkg'[u] = pkg[u] /\ row'[u] = row[u],
           pkg'[cur] # None => /\ pkg'[cur].from = pkg[cur].from
                               /\ pkg'[cur].at = pkg[cur].at /\ pkg[cur] # None,
           row'[cur] # None => baseline <= row'[cur] /\ row'[cur] <= started,
           attempt[cur] # None => row'[cur] # None /\ row'[cur] <= attempt[cur]
    PROVE  TInv'
  <1>1. Clocked /\ cur \in Sources
    BY DEF Clocked, TInv, Working
  <1>2. /\ started' \in Times /\ from' \in Times
        /\ retired' \in [Sources -> Times \cup {None}]
        /\ todo' \subseteq Sources /\ eligible' \subseteq Sources
        /\ pc' \in Places /\ manual' \in BOOLEAN /\ cur' = None
        /\ started' = started \/ (pc' = "idle" /\ started' = 0)
        /\ Working'
    BY <1>1, LeaveIs DEF TInv
  <1>3. Shapes'
    BY <1>2 DEF TInv, Shapes, Beside
  <1>4. /\ pkg[cur] # None => /\ baseline <= pkg[cur].from
                              /\ pkg[cur].from <= pkg[cur].at /\ pkg[cur].at <= started
        /\ attempt[cur] # None => attempt[cur] <= now
    BY <1>1, ClockedIs
  <1> QED  BY <1>1, <1>2, <1>3, <1>4, SourceStep DEF Beside

LEMMA TIrrelevant ==
    ASSUME TInv, Irrelevant  PROVE TInv'
  <1>1. /\ pc = "snapshot" /\ Clocked /\ cur \in Sources
        /\ Beside /\ UNCHANGED <<row, attempt>>
        /\ pkg' = Completed(cur) /\ Settle(cur, Looked(cur)) /\ Leave(Bound(cur))
    BY DEF Irrelevant, Clocked, Beside, TInv, Working
  <1>2. Looked(cur) \subseteq edits[cur]
    BY DEF Looked, Window
  <1>3. /\ settled' \in [Sources -> SUBSET Nat]
        /\ \A u \in Sources : settled'[u] \subseteq edits[u]
    BY <1>1, <1>2, SettledIs DEF TInv
  <1>4. /\ pkg' \in [Sources -> Package \cup {None}]
        /\ pkg'[cur] # None => /\ pkg'[cur].from = pkg[cur].from
                               /\ pkg'[cur].at = pkg[cur].at /\ pkg[cur] # None
        /\ \A u \in Sources : u # cur => pkg'[u] = pkg[u]
    BY <1>1, CompletedIs DEF TInv, Shapes
  <1>5. Bound(cur) \in Times \cup {None}
    BY <1>1, ClockedIs DEF Bound
  <1>6. /\ row' \in [Sources -> Times \cup {None}] /\ row' = row
        /\ row[cur] # None => baseline <= row[cur] /\ row[cur] <= started
        /\ attempt[cur] # None => row[cur] # None /\ row[cur] <= attempt[cur]
    BY <1>1, ClockedIs DEF TInv, Shapes
  <1> QED  BY <1>1, <1>3, <1>4, <1>5, <1>6, LeaveStep

\* What dropping a package leaves.
LEMMA DroppedIs ==
    ASSUME TInv, pc = "snapshot", cur \in Sources, Dropped
    PROVE  /\ pkg' \in [Sources -> Package \cup {None}] /\ pkg'[cur] = None
           /\ row' \in [Sources -> Times \cup {None}]
           /\ \A u \in Sources : u # cur => pkg'[u] = pkg[u] /\ row'[u] = row[u]
           /\ row'[cur] # None =>
                row'[cur] \in Nat /\ baseline <= row'[cur] /\ row'[cur] <= started
           /\ attempt[cur] # None => row'[cur] # None /\ row'[cur] <= attempt[cur]
           /\ pkg[cur] = None => row' = row
           /\ pkg[cur] # None => row'[cur] # None /\ row'[cur] <= from
           /\ row[cur] # None => row'[cur] # None /\ row'[cur] <= row[cur]
           /\ row'[cur] = row[cur] \/ row'[cur] = from
           /\ from \in Nat /\ from \in Times /\ baseline <= from /\ from <= started
  <1>1. Clocked /\ baseline <= from /\ from <= started
    BY DEF Clocked, TInv, Working
  <1>2. from \in Times /\ from \in Nat
    BY PackageIs DEF TInv, Shapes
  <1>3. pkg' = [pkg EXCEPT ![cur] = None]
    BY DEF Dropped
  <1>4. /\ pkg' \in [Sources -> Package \cup {None}] /\ pkg'[cur] = None
        /\ \A u \in Sources : u # cur => pkg'[u] = pkg[u]
    BY <1>3 DEF TInv, Shapes
  <1>5. /\ row[cur] # None =>
            row[cur] \in Nat /\ baseline <= row[cur] /\ row[cur] <= started
        /\ attempt[cur] # None =>
            attempt[cur] \in Nat /\ row[cur] # None /\ row[cur] <= attempt[cur]
        /\ started \in Nat /\ baseline \in Nat
    BY <1>1, ClockedIs
  <1>6. CASE pkg[cur] = None
    <2>1. row' = row  BY <1>6 DEF Dropped
    <2>2. row \in [Sources -> Times \cup {None}]  BY DEF TInv, Shapes
    <2> QED  BY <1>1, <1>2, <1>4, <1>5, <1>6, <2>1, <2>2
  <1>7. CASE pkg[cur] # None
    <2>1. row' = Marked(cur, from)  BY <1>7 DEF Dropped
    <2>2. /\ row' \in [Sources -> Times \cup {None}]
          /\ row'[cur] \in Nat /\ row'[cur] # None /\ row'[cur] <= from
          /\ row[cur] # None => row'[cur] <= row[cur]
          /\ row'[cur] = from \/ row'[cur] = row[cur]
          /\ \A u \in Sources : u # cur => row'[u] = row[u]
      BY <1>2, <2>1, MarkedIs DEF TInv, Shapes
    <2>3. baseline <= row'[cur] /\ row'[cur] <= started
      BY <1>1, <1>2, <1>5, <2>2
    <2>4. attempt[cur] # None => row'[cur] <= attempt[cur]
      BY <1>5, <2>2
    <2> QED  BY <1>1, <1>2, <1>4, <1>5, <1>7, <2>2, <2>3, <2>4
  <1> QED  BY <1>6, <1>7

LEMMA TCancel ==
    ASSUME TInv, Cancel  PROVE TInv'
  <1> DEFINE W == Window(cur, IF pkg[cur] # None THEN from ELSE Lower(cur))
  <1>1. /\ pc = "snapshot" /\ Clocked /\ cur \in Sources
        /\ Beside /\ UNCHANGED attempt
        /\ Dropped /\ Settle(cur, W) /\ Leave(from)
    BY DEF Cancel, Clocked, Beside, TInv, Working
  <1>2. W \subseteq edits[cur]
    BY DEF Window
  <1> HIDE DEF W
  <1>3. /\ settled' \in [Sources -> SUBSET Nat]
        /\ \A u \in Sources : settled'[u] \subseteq edits[u]
    BY <1>1, <1>2, SettledIs DEF TInv
  <1>4. from \in Times \cup {None}
    BY DEF TInv, Shapes
  <1> QED  BY <1>1, <1>3, <1>4, DroppedIs, LeaveStep

LEMMA TReplace ==
    ASSUME TInv, Replace  PROVE TInv'
  <1>1. /\ pc = "snapshot" /\ Clocked /\ cur \in Sources /\ pc' = "create"
        /\ UNCHANGED <<archiveVars, watermark, baseline, attempt, blocked, manual,
                       started, todo, eligible, cur, from, retired>>
        /\ Dropped
        /\ baseline <= from /\ from <= started
    BY DEF Replace, Clocked, TInv, Working
  <1>2. /\ pkg' \in [Sources -> Package \cup {None}] /\ pkg'[cur] = None
        /\ row' \in [Sources -> Times \cup {None}]
        /\ \A u \in Sources : u # cur => pkg'[u] = pkg[u] /\ row'[u] = row[u]
        /\ row'[cur] # None => baseline <= row'[cur] /\ row'[cur] <= started
        /\ attempt[cur] # None => row'[cur] # None /\ row'[cur] <= attempt[cur]
    BY <1>1, DroppedIs
  <1>3. Shapes'
    BY <1>1, <1>2 DEF TInv, Shapes, Places, archiveVars
  <1>4. Working'
    BY <1>1 DEF Working
  <1>5. attempt[cur] # None => attempt[cur] <= now
    BY <1>1, ClockedIs
  <1>6. \A u \in Sources : settled[u] \subseteq edits[u]
    BY DEF TInv, Limits
  <1> QED
    BY <1>1, <1>2, <1>3, <1>4, <1>5, <1>6, SourceStep DEF archiveVars

LEMMA TCreate ==
    ASSUME TInv, Create  PROVE TInv'
  <1> DEFINE p == [from |-> from, at |-> started, built |-> FALSE]
  <1>1. /\ pc \in {"snapshot", "create"} /\ Clocked /\ cur \in Sources /\ pc' = "build"
        /\ UNCHANGED <<archiveVars, watermark, baseline, attempt, blocked, manual,
                       started, todo, eligible, cur, from, retired>>
        /\ row' = Marked(cur, from)
        /\ pkg' = [pkg EXCEPT ![cur] = p]
        /\ baseline <= from /\ from <= started
    BY DEF Create, Clocked, TInv, Working
  <1>2. /\ row[cur] # None => baseline <= row[cur] /\ row[cur] \in Nat
        /\ attempt[cur] # None =>
            /\ attempt[cur] \in Nat /\ row[cur] # None
            /\ row[cur] \in Nat /\ row[cur] <= attempt[cur] /\ attempt[cur] <= now
        /\ started \in Nat /\ baseline \in Nat /\ started \in Times
    BY <1>1, ClockedIs
  <1>a. from \in Times /\ from \in Nat
    BY PackageIs DEF TInv, Shapes
  <1>3. /\ row' \in [Sources -> Times \cup {None}]
        /\ row'[cur] \in Nat /\ row'[cur] # None /\ row'[cur] <= from
        /\ row[cur] # None => row'[cur] <= row[cur]
        /\ row'[cur] = from \/ row'[cur] = row[cur]
        /\ \A u \in Sources : u # cur => row'[u] = row[u]
    BY <1>1, <1>a, MarkedIs DEF TInv, Shapes
  <1>b. p \in Package /\ p.from = from /\ p.at = started
    BY <1>2, <1>a DEF Package
  <1> HIDE DEF p
  <1>c. pkg \in [Sources -> Package \cup {None}]
    BY DEF TInv, Shapes
  <1>4. /\ pkg' \in [Sources -> Package \cup {None}] /\ pkg'[cur] = p
        /\ \A u \in Sources : u # cur => pkg'[u] = pkg[u]
    BY <1>1, <1>b, <1>c
  <1>5. Shapes'
    BY <1>1, <1>3, <1>4 DEF TInv, Shapes, Places, archiveVars
  <1>6. Working'
    BY <1>1 DEF Working
  <1>7. baseline <= row'[cur] /\ row'[cur] <= started
    BY <1>1, <1>2, <1>3, <1>a
  <1>8. attempt[cur] # None => row'[cur] <= attempt[cur]
    BY <1>2, <1>3
  <1>9. \A u \in Sources : settled[u] \subseteq edits[u]
    BY DEF TInv, Limits
  <1>10. baseline <= pkg'[cur].from /\ pkg'[cur].from <= pkg'[cur].at /\ pkg'[cur].at <= started
    BY <1>1, <1>2, <1>4, <1>b
  <1> QED
    BY <1>1, <1>2, <1>3, <1>4, <1>5, <1>6, <1>7, <1>8, <1>9, <1>10, SourceStep
    DEF archiveVars

LEMMA TBuild ==
    ASSUME TInv, Build  PROVE TInv'
  <1>1. /\ pc = "build" /\ Clocked /\ cur \in Sources
        /\ Beside /\ UNCHANGED <<row, attempt, settled>>
        /\ pkg' = Completed(cur) /\ Leave(from)
    BY DEF Build, Clocked, Beside, TInv, Working, archiveVars
  <1>2. /\ settled' \in [Sources -> SUBSET Nat]
        /\ \A u \in Sources : settled'[u] \subseteq edits[u]
    BY <1>1 DEF TInv, Shapes, Limits
  <1>3. /\ pkg' \in [Sources -> Package \cup {None}]
        /\ pkg'[cur] # None => /\ pkg'[cur].from = pkg[cur].from
                               /\ pkg'[cur].at = pkg[cur].at /\ pkg[cur] # None
        /\ \A u \in Sources : u # cur => pkg'[u] = pkg[u]
    BY <1>1, CompletedIs DEF TInv, Shapes
  <1>4. from \in Times \cup {None}
    BY DEF TInv, Shapes
  <1>5. /\ row' \in [Sources -> Times \cup {None}] /\ row' = row
        /\ row[cur] # None => baseline <= row[cur] /\ row[cur] <= started
        /\ attempt[cur] # None => row[cur] # None /\ row[cur] <= attempt[cur]
    BY <1>1, ClockedIs DEF TInv, Shapes
  <1> QED  BY <1>1, <1>2, <1>3, <1>4, <1>5, LeaveStep

LEMMA TComplete ==
    ASSUME TInv, Complete  PROVE TInv'
  <1>1. /\ Clocked /\ pc' = "retire" /\ watermark' = started
        /\ UNCHANGED <<archiveVars, baseline, rowVars, blocked, manual, started,
                       todo, eligible, cur, from, retired>>
    BY DEF Complete, Clocked
  <1>2. Shapes'
    BY <1>1 DEF TInv, Shapes, Places, archiveVars, rowVars
  <1>3. Working'
    BY <1>1 DEF Working
  <1> QED  BY <1>1, <1>2, <1>3, JobStep DEF archiveVars, rowVars

LEMMA TRetire ==
    ASSUME TInv, NEW s \in Sources, Retire(s)  PROVE TInv'
  <1>1. /\ Clocked
        /\ UNCHANGED <<archiveVars, watermark, baseline, pkg, blocked, pc, manual,
                       started, todo, eligible, cur, from>>
        /\ row' = [row EXCEPT ![s] = IF SameBound(s) THEN None ELSE row[s]]
        /\ attempt' = [attempt EXCEPT ![s] = IF SameBound(s) THEN None ELSE attempt[s]]
        /\ retired' = [retired EXCEPT ![s] = None]
    BY DEF Retire, Clocked
  <1>2. Shapes'
    BY <1>1 DEF TInv, Shapes, archiveVars
  <1>3. Working'
    BY <1>1 DEF Retire, Working
  <1>4. row \in [Sources -> Times \cup {None}] /\ attempt \in [Sources -> Times \cup {None}]
    BY DEF TInv, Shapes
  <1>5. /\ \A u \in Sources : u # s => row'[u] = row[u] /\ attempt'[u] = attempt[u]
        /\ \/ row'[s] = None /\ attempt'[s] = None
           \/ row'[s] = row[s] /\ attempt'[s] = attempt[s]
    BY <1>1, <1>4
  <1>6. \A u \in Sources : settled[u] \subseteq edits[u]
    BY DEF TInv, Limits
  <1>7. /\ pkg[s] # None => /\ baseline <= pkg[s].from
                            /\ pkg[s].from <= pkg[s].at /\ pkg[s].at <= started
        /\ row[s] # None => baseline <= row[s] /\ row[s] <= started
        /\ attempt[s] # None => /\ row[s] # None
                                /\ row[s] <= attempt[s] /\ attempt[s] <= now
    BY <1>1, ClockedIs
  <1> QED
    BY <1>1, <1>2, <1>3, <1>5, <1>6, <1>7, SourceStep DEF archiveVars

LEMMA TEnd ==
    ASSUME TInv, End \/ Stop  PROVE TInv'
  <1>1. Quit /\ UNCHANGED rowVars
        /\ UNCHANGED <<archiveVars, watermark, baseline, blocked>>
    BY DEF End, Stop
  <1> QED  BY <1>1, TQuit

LEMMA TNext ==
    ASSUME TInv, [Next]_vars  PROVE TInv'
  <1>1. ASSUME NEW s \in Sources, Edit(s) \/ Block(s) \/ Publish(s) \/ Discard(s)
        PROVE  TInv'
    BY <1>1, TEdit, TBlock, TPublish, TDiscard
  <1>2. ASSUME NEW m \in BOOLEAN, Begin(m)  PROVE TInv'
    BY <1>2, TBegin
  <1>3. ASSUME NEW s \in Sources, DropStale(s) \/ MarkIncomplete(s) \/ Take(s) \/ Retire(s)
        PROVE  TInv'
    BY <1>3, TDropStale, TMarkIncomplete, TTake, TRetire
  <1>4. ASSUME NEW s \in Sources, Skip(s) \/ Defer(s) \/ Quiet(s) \/ Look(s)
        PROVE  TInv'
    BY <1>4, TSkip, TDefer, TQuiet, TLook
  <1>5. CASE RebaseReplay \/ Plan \/ RecordFailure \/ Replace \/ Build \/ Complete \/ End
    BY <1>5, TRebaseReplay, TPlan, TRecordFailure, TReplace, TBuild, TComplete, TEnd
  <1>6. CASE SnapshotFails \/ Irrelevant \/ Cancel \/ Create \/ Stop
    BY <1>6, TSnapshotFails, TIrrelevant, TCancel, TCreate, TEnd
  <1>7. CASE UNCHANGED vars
    BY <1>7 DEF vars, archiveVars, rowVars, jobVars, TInv, Shapes, Limits, Begun, Working
  <1> QED
    BY <1>1, <1>2, <1>3, <1>4, <1>5, <1>6, <1>7 DEF Next, Step

LEMMA TAlways == Spec => []TInv
  <1> QED  BY TInit, TNext, PTL DEF Spec

\* Every variable has its type; nothing lies in the future, and no window is upside
\* down.
THEOREM TypeCorrect == Spec => []TypeOK
  <1>1. TInv => TypeOK
    <2> SUFFICES ASSUME TInv  PROVE TypeOK  OBVIOUS
    <2> USE PackageIs DEF TInv
    <2>1. /\ now \in Nat /\ watermark \in Nat /\ baseline \in Nat /\ now \in Times
          /\ watermark <= now /\ baseline <= now
      BY DEF Shapes, Limits
    <2>2. watermark \in 0 .. now /\ baseline \in 0 .. now
      BY <2>1
    <2>3. ASSUME NEW s \in Sources
          PROVE  settled[s] \subseteq edits[s] /\ edits[s] \subseteq 1 .. now
      <3>1. edits[s] \subseteq Nat /\ \A e \in edits[s] : 1 <= e /\ e <= now
        BY DEF Shapes, Limits
      <3>2. edits[s] \subseteq 1 .. now
        BY <2>1, <3>1
      <3> QED  BY <3>2 DEF Limits
    <2>4. /\ pkg \in [Sources -> Package \cup {None}]
          /\ row \in [Sources -> Times \cup {None}]
          /\ retired \in [Sources -> Times \cup {None}]
          /\ eligible \cup todo \cup blocked \subseteq Sources
      BY DEF Shapes
    <2>5. \A s \in Sources :
            /\ pkg[s] # None => pkg[s].from <= pkg[s].at
            /\ attempt[s] # None => row[s] # None /\ row[s] <= attempt[s] /\ attempt[s] <= now
      BY DEF Limits
    <2> QED  BY <2>1, <2>2, <2>3, <2>4, <2>5 DEF TypeOK
  <1> QED  BY <1>1, TAlways, PTL

\* Whatever else happens, no window of a job that has dealt with the import cutoff
\* reaches behind it.
THEOREM CutoffExcluded == Spec => []ImportExcluded
  <1>1. TInv => ImportExcluded
    <2> SUFFICES ASSUME TInv, pc \notin {"idle", "import"}, NEW s \in Sources
                 PROVE  /\ pkg[s] # None => pkg[s].from >= baseline
                        /\ row[s] # None => row[s] >= baseline
      BY DEF ImportExcluded
    <2> QED  BY ClockedIs DEF Clocked
  <1> QED  BY <1>1, TAlways, PTL

-----------------------------------------------------------------------------
(* What keeps the edits.                                                   *)

Scanning == pc \in {"each", "snapshot", "failed", "create", "build"} /\ ~manual

Unsettled(s) == {e \in edits[s] : e \notin settled[s] /\ baseline < e}

Packed(s, e) == pkg[s] # None /\ pkg[s].from < e /\ e <= pkg[s].at
Covered(s, e) == (row[s] # None /\ row[s] < e) \/ Packed(s, e)

Kept(s) == \A e \in Unsettled(s) : e <= watermark => Covered(s, e)

\* No package and no row begins after an edit that it should bring.
PackageKnows(s) == pkg[s] # None => \A e \in Unsettled(s) : pkg[s].from < e
RowKnows(s) == row[s] # None => \A e \in Unsettled(s) : Covered(s, e)

\* What the scan has dealt with is kept up to its start.
Handled(s) ==
    Scanning /\ s \notin todo =>
        \A e \in Unsettled(s) : e <= started => Covered(s, e)

\* A row that will be retired is not needed any more.
Retirable(s) ==
    /\ Scanning /\ s \in todo => retired[s] = None
    /\ Scanning \/ pc = "retire" =>
        (retired[s] # None /\ row[s] = retired[s] =>
            \A e \in Unsettled(s) : e <= started => Packed(s, e))

\* The plan of the scan still fits what it has to deal with.
Planned(s) ==
    Scanning /\ s \in todo /\ (s = cur => pc = "snapshot") =>
        /\ s \in eligible <=> (row[s] # None /\ s \notin blocked)
        /\ pkg[s] # None /\ ~pkg[s].built => row[s] # None
        /\ s = cur => s \notin blocked

\* The lower bound of the package under way.
FromKnows ==
    /\ pc \in {"snapshot", "create"} => \A e \in Unsettled(cur) : from < e
    /\ pc = "snapshot" /\ pkg[cur] # None => from = pkg[cur].from
    /\ pc = "create" => pkg[cur] = None
    /\ pc = "build" =>
        /\ pkg[cur] # None /\ pkg[cur].at = started
        /\ pkg[cur].from = from

Job ==
    /\ pc \in {"mark", "each", "retire"} => ~manual
    /\ pc = "retire" => watermark = started
    /\ pc \in {"idle", "import", "mark", "take"} => \A s \in Sources : retired[s] = None
    /\ pc \in {"idle", "import", "mark", "take", "each"} => cur = None
    /\ pc = "take" => manual
    /\ pc \in {"snapshot", "failed", "create", "build"} /\ ~manual => cur \in todo

SourceInv(s) ==
    /\ Kept(s) /\ PackageKnows(s) /\ RowKnows(s)
    /\ Handled(s) /\ Retirable(s) /\ Planned(s)

KInv == (\A s \in Sources : SourceInv(s)) /\ FromKnows /\ Job

IInv == TInv /\ KInv

Doing == {"each", "snapshot", "failed", "create", "build"}

\* What does not depend on where the job is.
Basic(s) == Kept(s) /\ PackageKnows(s) /\ RowKnows(s)

\* The numbers of a source, whatever the job does.
LEMMA NumbersIs ==
    ASSUME TInv, NEW s \in Sources
    PROVE  /\ baseline \in Nat /\ watermark \in Nat /\ now \in Nat /\ started \in Nat
           /\ from \in Nat /\ watermark <= now /\ started <= now
           /\ pkg[s] # None =>
                /\ pkg[s].from \in Nat /\ pkg[s].at \in Nat /\ pkg[s].from \in Times
                /\ pkg[s].at \in Times
                /\ pkg[s].from <= pkg[s].at /\ pkg[s].at <= now
           /\ row[s] # None => row[s] \in Nat /\ row[s] <= now
           /\ \A e \in edits[s] : e \in Nat /\ e <= now
           /\ s # None
  <1> USE PackageIs DEF TInv
  <1>1. pkg[s] # None => pkg[s] \in Package
    BY DEF Shapes
  <1>2. s # None  BY ScanAssumption
  <1>3. /\ baseline \in Nat /\ watermark \in Nat /\ now \in Nat /\ started \in Nat
        /\ from \in Nat /\ watermark <= now /\ started <= now
    BY DEF Shapes, Limits
  <1>4. pkg[s] # None =>
            /\ pkg[s].from \in Nat /\ pkg[s].at \in Nat /\ pkg[s].from \in Times
            /\ pkg[s].at \in Times
            /\ pkg[s].from <= pkg[s].at /\ pkg[s].at <= now
    BY <1>1 DEF Limits
  <1>5. row[s] # None => row[s] \in Nat /\ row[s] <= now
    BY DEF Shapes, Limits
  <1>6. \A e \in edits[s] : e \in Nat /\ e <= now
    BY DEF Shapes, Limits
  <1> QED  BY <1>2, <1>3, <1>4, <1>5, <1>6

\* An edit that the watermark has not passed, or that is kept, when there is no row:
\* the package has it, or it comes after the bound of an ordinary scan.
LEMMA AfterSince ==
    ASSUME TInv, Clocked, NEW s \in Sources, Kept(s), row[s] = None,
           NEW e \in Unsettled(s)
    PROVE  Packed(s, e) \/ Since < e
  <1>1. /\ e \in Nat /\ baseline < e /\ baseline \in Nat /\ watermark \in Nat
    BY NumbersIs DEF Unsettled
  <1>2. CASE e <= watermark
    BY <1>2 DEF Kept, Covered
  <1>3. CASE ~(e <= watermark)
    BY <1>1, <1>3 DEF Since, Later
  <1> QED  BY <1>2, <1>3

LEMMA BasicSame ==
    ASSUME NEW u \in Sources, SourceInv(u),
           edits'[u] = edits[u], settled'[u] = settled[u],
           pkg'[u] = pkg[u], row'[u] = row[u], UNCHANGED <<baseline, watermark>>
    PROVE  Basic(u)'
  <1>1. Unsettled(u)' = Unsettled(u)
    BY DEF Unsettled
  <1>2. \A e : Covered(u, e)' <=> Covered(u, e)
    BY DEF Covered, Packed
  <1>3. Kept(u)'  BY <1>1, <1>2 DEF SourceInv, Kept
  <1>4. PackageKnows(u)'  BY <1>1 DEF SourceInv, PackageKnows
  <1>5. RowKnows(u)'  BY <1>1, <1>2 DEF SourceInv, RowKnows
  <1> QED  BY <1>3, <1>4, <1>5 DEF Basic

\* When no scan is under way nothing else is asked of a source.
LEMMA BasicOnly ==
    ASSUME NEW u \in Sources, Basic(u)',
           (pc' \notin Doing /\ pc' # "retire") \/ (pc' \in Doing /\ manual')
    PROVE  SourceInv(u)'
  <1>1. ~Scanning' /\ pc' # "retire"
    BY DEF Scanning, Doing
  <1> QED  BY <1>1 DEF SourceInv, Basic, Handled, Retirable, Planned

\* A source that the job is not working on.
LEMMA OtherSource ==
    ASSUME TInv, KInv, NEW s \in Sources, NEW u \in Sources, u # s,
           edits'[u] = edits[u], settled'[u] = settled[u],
           pkg'[u] = pkg[u], row'[u] = row[u], retired'[u] = retired[u],
           UNCHANGED <<baseline, watermark, started, manual, eligible, blocked>>,
           u \in todo' <=> u \in todo,
           pc \in Doing, pc' \in Doing, cur \in {s, None}, cur' \in {s, None}
    PROVE  SourceInv(u)'
  <1>1. SourceInv(u) /\ u # None /\ u # cur /\ u # cur'
    BY NumbersIs DEF KInv
  <1>2. Basic(u)'
    BY <1>1, BasicSame
  <1>3. CASE manual
    BY <1>2, <1>3, BasicOnly
  <1>4. CASE ~manual
    <2>1. Scanning /\ Scanning' /\ pc' # "retire"
      BY <1>4 DEF Scanning, Doing
    <2>2. Unsettled(u)' = Unsettled(u)
      BY DEF Unsettled
    <2>3. \A e : (Covered(u, e)' <=> Covered(u, e)) /\ (Packed(u, e)' <=> Packed(u, e))
      BY DEF Covered, Packed
    <2>4. Handled(u)'
      BY <1>1, <2>1, <2>2, <2>3 DEF SourceInv, Handled
    <2>5. Retirable(u)'
      BY <1>1, <2>1, <2>2, <2>3 DEF SourceInv, Retirable
    <2>6. Planned(u)'
      BY <1>1, <2>1 DEF SourceInv, Planned
    <2> QED  BY <1>2, <2>4, <2>5, <2>6 DEF SourceInv, Basic
  <1> QED  BY <1>3, <1>4

\* A job that ends.
LEMMA KQuit ==
    ASSUME TInv, KInv, Quit,
           UNCHANGED <<archiveVars, watermark, baseline, blocked, rowVars>>
    PROVE  KInv'
  <1>1. pc' = "idle" /\ cur' = None /\ \A s \in Sources : retired'[s] = None
    BY DEF Quit
  <1>2. ASSUME NEW u \in Sources  PROVE SourceInv(u)'
    <2>1. Basic(u)'
      BY BasicSame DEF KInv, archiveVars, rowVars
    <2> QED  BY <1>1, <2>1, BasicOnly DEF Doing
  <1>3. FromKnows' /\ Job'
    BY <1>1 DEF FromKnows, Job
  <1> QED  BY <1>2, <1>3 DEF KInv

\* A job that leaves a source.
LEMMA KLeave ==
    ASSUME TInv, KInv, NEW c \in Sources, c = cur,
           pc \in {"snapshot", "failed", "create", "build"},
           NEW bound \in Times \cup {None}, Leave(bound), Beside,
           \A u \in Sources : u # c =>
                pkg'[u] = pkg[u] /\ row'[u] = row[u] /\ settled'[u] = settled[u],
           Basic(c)',
           \A e \in Unsettled(c)' : e <= started => Covered(c, e)',
           bound # None => \A e \in Unsettled(c)' : e <= started => Packed(c, e)'
    PROVE  KInv'
  <1>1. CASE manual
    <2>1. Quit  BY <1>1 DEF Leave
    <2>2. pc' = "idle" /\ cur' = None /\ \A s \in Sources : retired'[s] = None
      BY <2>1 DEF Quit
    <2>3. ASSUME NEW u \in Sources  PROVE SourceInv(u)'
      <3>1. Basic(u)'
        BY BasicSame DEF KInv, Beside
      <3> QED  BY <2>2, <3>1, BasicOnly DEF Doing
    <2>4. FromKnows' /\ Job'
      BY <2>2 DEF FromKnows, Job
    <2> QED  BY <2>3, <2>4 DEF KInv
  <1>2. CASE ~manual
    <2>1. /\ pc' = "each" /\ todo' = todo \ {c} /\ cur' = None
          /\ UNCHANGED <<manual, started, eligible>>
          /\ retired' = [retired EXCEPT ![c] = bound]
      BY <1>2 DEF Leave, Finished
    <2>2. /\ retired'[c] = bound
          /\ \A u \in Sources : u # c => retired'[u] = retired[u]
      BY <2>1 DEF TInv, Shapes
    <2>3. ASSUME NEW u \in Sources, u # c  PROVE SourceInv(u)'
      BY <2>1, <2>2, <2>3, OtherSource DEF Beside, Doing
    <2>4. SourceInv(c)'
      <3>1. Scanning' /\ c \notin todo' /\ pc' # "retire" /\ started' = started
        BY <1>2, <2>1 DEF Scanning
      <3>2. Handled(c)'
        BY <3>1 DEF Handled
      <3>3. Retirable(c)'
        BY <3>1, <2>2 DEF Retirable
      <3>4. Planned(c)'
        BY <3>1 DEF Planned
      <3> QED  BY <3>2, <3>3, <3>4 DEF SourceInv, Basic
    <2>5. FromKnows' /\ Job'
      BY <1>2, <2>1 DEF FromKnows, Job
    <2> QED  BY <2>3, <2>4, <2>5 DEF KInv
  <1> QED  BY <1>1, <1>2

LEMMA KInit == Init => KInv
  <1> SUFFICES ASSUME Init  PROVE KInv  OBVIOUS
  <1>1. ASSUME NEW s \in Sources  PROVE SourceInv(s)
    <2>1. Unsettled(s) = {} /\ ~Scanning /\ pc # "retire"
      BY DEF Init, Unsettled, Scanning
    <2> QED
      BY <2>1 DEF SourceInv, Kept, PackageKnows, RowKnows, Handled, Retirable, Planned
  <1>2. FromKnows /\ Job
    BY DEF Init, FromKnows, Job
  <1> QED  BY <1>1, <1>2 DEF KInv

-----------------------------------------------------------------------------
(* What happens beside the scan.                                           *)

LEMMA KEdit ==
    ASSUME TInv, KInv, NEW s \in Sources, Edit(s)  PROVE KInv'
  <1>1. /\ UNCHANGED <<settled, watermark, baseline, pkg, row, attempt, blocked, pc,
                       manual, started, todo, eligible, cur, from, retired>>
        /\ edits' = [edits EXCEPT ![s] = edits[s] \cup {now + 1}]
    BY DEF Edit, rowVars, jobVars
  <1>2. \A u \in Sources : edits'[u] \subseteq edits[u] \cup {now + 1}
    BY <1>1 DEF TInv, Shapes
  <1>3. ASSUME NEW u \in Sources  PROVE SourceInv(u)'
    <2>1. \A e \in Unsettled(u)' : e \in Unsettled(u) \/ e = now + 1
      BY <1>1, <1>2 DEF Unsettled
    <2>2. \A e : (Covered(u, e)' <=> Covered(u, e)) /\ (Packed(u, e)' <=> Packed(u, e))
      BY <1>1 DEF Covered, Packed
    <2>3. /\ ~(now + 1 <= watermark) /\ ~(now + 1 <= started)
          /\ pkg[u] # None => pkg[u].from < now + 1
          /\ row[u] # None => row[u] < now + 1
      BY NumbersIs
    <2>4. SourceInv(u)  BY DEF KInv
    <2>5. Kept(u)'
      BY <1>1, <2>1, <2>2, <2>3, <2>4 DEF SourceInv, Kept
    <2>6. PackageKnows(u)'
      BY <1>1, <2>1, <2>3, <2>4 DEF SourceInv, PackageKnows
    <2>7. RowKnows(u)'
      BY <1>1, <2>1, <2>2, <2>3, <2>4 DEF SourceInv, RowKnows, Covered
    <2>8. Handled(u)'
      BY <1>1, <2>1, <2>2, <2>3, <2>4 DEF SourceInv, Handled, Scanning
    <2>9. Retirable(u)'
      BY <1>1, <2>1, <2>2, <2>3, <2>4 DEF SourceInv, Retirable, Scanning
    <2>10. Planned(u)'
      BY <1>1, <2>4 DEF SourceInv, Planned, Scanning
    <2> QED  BY <2>5, <2>6, <2>7, <2>8, <2>9, <2>10 DEF SourceInv
  <1>4. FromKnows'
    <2>1. ASSUME pc \in {"snapshot", "create"}
          PROVE  \A e \in Unsettled(cur)' : from < e
      <3>1. cur \in Sources /\ from <= started
        BY <2>1 DEF TInv, Working
      <3>2. from < now + 1
        BY <3>1, NumbersIs
      <3>3. \A e \in Unsettled(cur)' : e \in Unsettled(cur) \/ e = now + 1
        BY <1>1, <1>2, <3>1 DEF Unsettled
      <3>4. \A e \in Unsettled(cur) : from < e
        BY <2>1 DEF KInv, FromKnows
      <3> QED  BY <3>2, <3>3, <3>4
    <2> QED  BY <1>1, <2>1 DEF KInv, FromKnows
  <1>5. Job'
    BY <1>1 DEF KInv, Job
  <1> QED  BY <1>3, <1>4, <1>5 DEF KInv

\* A step that leaves the job where it is, idle or at the start.
Early == pc \in {"idle", "import"}

LEMMA KEarly ==
    ASSUME KInv, Early, Early', UNCHANGED <<cur, retired>>,
           \A u \in Sources : Basic(u)'
    PROVE  KInv'
  <1>1. \A u \in Sources : SourceInv(u)'
    BY BasicOnly DEF Early, Doing
  <1>2. FromKnows' /\ Job'
    BY DEF Early, FromKnows, Job, KInv
  <1> QED  BY <1>1, <1>2 DEF KInv

LEMMA KBlock ==
    ASSUME KInv, NEW s \in Sources, Block(s), Idle  PROVE KInv'
  <1>1. \A u \in Sources : Basic(u)'
    BY BasicSame DEF Block, KInv, archiveVars, rowVars
  <1>2. Early /\ Early' /\ UNCHANGED <<cur, retired>>
    BY DEF Block, Idle, Early, jobVars
  <1> QED  BY <1>1, <1>2, KEarly

LEMMA KPublish ==
    ASSUME TInv, KInv, NEW s \in Sources, Publish(s)  PROVE KInv'
  <1>1. /\ pc = "idle" /\ pkg[s] # None
        /\ row' = Marked(s, pkg[s].at) /\ pkg' = [pkg EXCEPT ![s] = None]
        /\ Settle(s, UpTo(s, pkg[s].at))
        /\ UNCHANGED <<now, edits, watermark, baseline, jobVars>>
    BY DEF Publish, Idle
  <1>2. pkg[s].at \in Times /\ pkg[s].at \in Nat
    BY <1>1, NumbersIs
  <1>3. /\ row'[s] \in Nat /\ row'[s] # None /\ row'[s] <= pkg[s].at
        /\ \A u \in Sources : u # s => row'[u] = row[u]
    BY <1>1, <1>2, MarkedIs DEF TInv, Shapes
  <1>4. UpTo(s, pkg[s].at) \subseteq edits[s]
    BY DEF UpTo
  <1>5. /\ settled'[s] = settled[s] \cup UpTo(s, pkg[s].at)
        /\ \A u \in Sources : u # s => settled'[u] = settled[u]
    BY <1>1, <1>4, SettledIs DEF TInv
  <1>6. pkg'[s] = None /\ \A u \in Sources : u # s => pkg'[u] = pkg[u]
    BY <1>1 DEF TInv, Shapes
  <1>7. ASSUME NEW e \in Unsettled(s)'  PROVE Covered(s, e)'
    <2>1. e \in edits[s] /\ ~(e <= pkg[s].at)
      BY <1>1, <1>5 DEF Unsettled, UpTo
    <2>2. e \in Nat  BY <2>1, NumbersIs
    <2>3. row'[s] < e  BY <1>2, <1>3, <2>1, <2>2
    <2> QED  BY <1>3, <2>3 DEF Covered
  <1>8. Basic(s)'
    BY <1>6, <1>7 DEF Basic, Kept, PackageKnows, RowKnows
  <1>9. \A u \in Sources : u # s => Basic(u)'
    BY <1>1, <1>3, <1>5, <1>6, BasicSame DEF KInv
  <1>10. Early /\ Early' /\ UNCHANGED <<cur, retired>>
    BY <1>1 DEF Early, jobVars
  <1> QED  BY <1>8, <1>9, <1>10, KEarly

LEMMA KDiscard ==
    ASSUME TInv, KInv, NEW s \in Sources, Discard(s)  PROVE KInv'
  <1>1. /\ pc = "idle" /\ pkg[s] # None /\ row[s] = None
        /\ pkg' = [pkg EXCEPT ![s] = None]
        /\ Settle(s, UpTo(s, pkg[s].at))
        /\ UNCHANGED <<now, edits, watermark, baseline, row, jobVars>>
    BY DEF Discard, Idle
  <1>4. UpTo(s, pkg[s].at) \subseteq edits[s]
    BY DEF UpTo
  <1>5. /\ settled'[s] = settled[s] \cup UpTo(s, pkg[s].at)
        /\ \A u \in Sources : u # s => settled'[u] = settled[u]
    BY <1>1, <1>4, SettledIs DEF TInv
  <1>6. pkg'[s] = None /\ \A u \in Sources : u # s => pkg'[u] = pkg[u]
    BY <1>1 DEF TInv, Shapes
  <1>7. ASSUME NEW e \in Unsettled(s)', e <= watermark  PROVE FALSE
    <2>1. e \in Unsettled(s) /\ ~(e <= pkg[s].at)
      BY <1>1, <1>5 DEF Unsettled, UpTo
    <2>2. Covered(s, e)
      BY <1>7, <2>1 DEF KInv, SourceInv, Kept
    <2> QED  BY <1>1, <2>1, <2>2 DEF Covered, Packed
  <1>8. Basic(s)'
    BY <1>1, <1>6, <1>7 DEF Basic, Kept, PackageKnows, RowKnows
  <1>9. \A u \in Sources : u # s => Basic(u)'
    BY <1>1, <1>5, <1>6, BasicSame DEF KInv
  <1>10. Early /\ Early' /\ UNCHANGED <<cur, retired>>
    BY <1>1 DEF Early, jobVars
  <1> QED  BY <1>8, <1>9, <1>10, KEarly

-----------------------------------------------------------------------------
(* The start of both jobs.                                                 *)

LEMMA KBegin ==
    ASSUME TInv, KInv, NEW m \in BOOLEAN, Begin(m)  PROVE KInv'
  <1>1. /\ pc = "idle" /\ pc' = "import" /\ UNCHANGED <<cur, retired>>
        /\ UNCHANGED <<edits, settled, watermark, pkg, row>>
    BY DEF Begin, Idle, archiveVars, rowVars
  <1>2. baseline \in Nat /\ baseline' \in Nat /\ baseline <= baseline'
    BY DEF Begin, TInv, Shapes, Limits, Times
  <1>3. ASSUME NEW u \in Sources  PROVE Basic(u)'
    <2>1. \A e \in Unsettled(u)' : e \in Unsettled(u)
      <3>1. \A e \in edits[u] : e \in Nat  BY NumbersIs
      <3> QED  BY <1>1, <1>2, <3>1 DEF Unsettled
    <2>2. \A e : Covered(u, e)' <=> Covered(u, e)
      BY <1>1 DEF Covered, Packed
    <2>3. SourceInv(u)  BY DEF KInv
    <2>4. Kept(u)'  BY <1>1, <2>1, <2>2, <2>3 DEF SourceInv, Kept
    <2>5. PackageKnows(u)'  BY <1>1, <2>1, <2>3 DEF SourceInv, PackageKnows
    <2>6. RowKnows(u)'  BY <1>1, <2>1, <2>2, <2>3 DEF SourceInv, RowKnows
    <2> QED  BY <2>4, <2>5, <2>6 DEF Basic
  <1> QED  BY <1>1, <1>3, KEarly DEF Early

LEMMA KDropStale ==
    ASSUME TInv, KInv, NEW s \in Sources, DropStale(s)  PROVE KInv'
  <1>1. CASE s \in blocked
    <2>1. Quit /\ UNCHANGED <<archiveVars, watermark, baseline, blocked, rowVars>>
      BY <1>1 DEF DropStale
    <2> QED  BY <2>1, KQuit
  <1>2. CASE s \notin blocked
    <2>1. /\ pc = "import" /\ pkg[s] # None
          /\ row' = Marked(s, pkg[s].from) /\ pkg' = [pkg EXCEPT ![s] = None]
          /\ UNCHANGED <<archiveVars, watermark, baseline, jobVars>>
      BY <1>2 DEF DropStale, Stale
    <2>2. pkg[s].from \in Times /\ pkg[s].from \in Nat
      BY <2>1, NumbersIs
    <2>3. /\ row'[s] \in Nat /\ row'[s] # None /\ row'[s] <= pkg[s].from
          /\ \A u \in Sources : u # s => row'[u] = row[u]
      BY <2>1, <2>2, MarkedIs DEF TInv, Shapes
    <2>4. pkg'[s] = None /\ \A u \in Sources : u # s => pkg'[u] = pkg[u]
      BY <2>1 DEF TInv, Shapes
    <2>5. ASSUME NEW e \in Unsettled(s)'  PROVE Covered(s, e)'
      <3>1. e \in Unsettled(s) /\ e \in Nat
        BY <2>1, NumbersIs DEF Unsettled, archiveVars
      <3>2. pkg[s].from < e
        BY <2>1, <3>1 DEF KInv, SourceInv, PackageKnows
      <3>3. row'[s] < e  BY <2>2, <2>3, <3>1, <3>2
      <3> QED  BY <2>3, <3>3 DEF Covered
    <2>6. Basic(s)'
      BY <2>4, <2>5 DEF Basic, Kept, PackageKnows, RowKnows
    <2>7. \A u \in Sources : u # s => Basic(u)'
      BY <2>1, <2>3, <2>4, BasicSame DEF KInv, archiveVars
    <2>8. Early /\ Early' /\ UNCHANGED <<cur, retired>>
      BY <2>1 DEF Early, jobVars
    <2> QED  BY <2>6, <2>7, <2>8, KEarly
  <1> QED  BY <1>1, <1>2

LEMMA KRebaseReplay ==
    ASSUME TInv, KInv, RebaseReplay  PROVE KInv'
  <1>1. /\ pc = "import" /\ pc' = IF manual THEN "take" ELSE "mark"
        /\ UNCHANGED <<archiveVars, watermark, baseline, pkg, manual, cur, retired>>
        /\ row' = [s \in Sources |-> Rebased(s)]
    BY DEF RebaseReplay
  <1>2. ASSUME NEW u \in Sources  PROVE Basic(u)'
    <2>1. /\ Unsettled(u)' = Unsettled(u)
          /\ \A e \in Unsettled(u) : baseline < e /\ e \in Nat
      BY <1>1, NumbersIs DEF Unsettled, archiveVars
    <2>2. row'[u] = IF row[u] = None THEN None
                    ELSE IF row[u] > baseline THEN row[u] ELSE baseline
      BY <1>1 DEF Rebased, Later
    <2>3. (row[u] # None => row[u] \in Nat) /\ baseline \in Nat
      BY NumbersIs
    <2>4. row[u] = None <=> row'[u] = None
      BY <2>2, <2>3, PackageIs, ScanAssumption
    <2>5. \A e \in Unsettled(u) : row[u] # None /\ row[u] < e => row'[u] < e
      BY <2>1, <2>2, <2>3
    <2>6. \A e \in Unsettled(u) : Covered(u, e) => Covered(u, e)'
      BY <1>1, <2>4, <2>5 DEF Covered, Packed
    <2>7. SourceInv(u)  BY DEF KInv
    <2>8. Kept(u)'  BY <1>1, <2>1, <2>6, <2>7 DEF SourceInv, Kept
    <2>9. PackageKnows(u)'  BY <1>1, <2>1, <2>7 DEF SourceInv, PackageKnows
    <2>10. RowKnows(u)'  BY <2>1, <2>4, <2>6, <2>7 DEF SourceInv, RowKnows
    <2> QED  BY <2>8, <2>9, <2>10 DEF Basic
  <1>3. \A u \in Sources : SourceInv(u)'
    BY <1>1, <1>2, BasicOnly DEF Doing
  <1>4. FromKnows' /\ Job'
    BY <1>1 DEF FromKnows, Job, KInv
  <1> QED  BY <1>3, <1>4 DEF KInv

-----------------------------------------------------------------------------
(* The plan, and one source.                                               *)

\* A source whose row is marked, not later than all that it should bring.
LEMMA MarkedCovers ==
    ASSUME TInv, NEW s \in Sources, NEW b \in Times, row' = Marked(s, b),
           \A e \in Unsettled(s) : b < e
    PROVE  /\ row'[s] # None /\ \A e \in Unsettled(s) : row'[s] < e
           /\ row'[s] \in Nat /\ row'[s] <= b
           /\ \A u \in Sources : u # s => row'[u] = row[u]
  <1>1. /\ row'[s] \in Nat /\ row'[s] # None /\ row'[s] <= b
        /\ \A u \in Sources : u # s => row'[u] = row[u]
    BY MarkedIs DEF TInv, Shapes
  <1>2. b \in Nat  BY PackageIs
  <1>3. \A e \in Unsettled(s) : e \in Nat
    BY NumbersIs DEF Unsettled
  <1> QED  BY <1>1, <1>2, <1>3

\* A job that goes on with a source.
LEMMA KStay ==
    ASSUME TInv, KInv, NEW c \in Sources,
           pc \in Doing, pc' \in Doing \ {"each"}, cur \in {c, None}, cur' = c,
           manual \/ c \in todo,
           \A u \in Sources : u # c => pkg'[u] = pkg[u] /\ row'[u] = row[u],
           UNCHANGED <<edits, settled, baseline, watermark, started, manual,
                       eligible, blocked, todo, retired>>,
           Basic(c)', Planned(c)', FromKnows'
    PROVE  KInv'
  <1>1. ASSUME NEW u \in Sources, u # c  PROVE SourceInv(u)'
    BY <1>1, OtherSource
  <1>2. SourceInv(c)'
    <2>1. CASE manual
      BY <2>1, BasicOnly
    <2>2. CASE ~manual
      <3>1. c \in todo /\ c \in todo' /\ pc' # "retire" /\ Scanning
        BY <2>2 DEF Doing, Scanning
      <3>2. retired'[c] = None
        BY <3>1 DEF KInv, SourceInv, Retirable
      <3>3. Handled(c)' /\ Retirable(c)'
        BY <3>1, <3>2 DEF Handled, Retirable
      <3> QED  BY <3>3 DEF SourceInv, Basic
    <2> QED  BY <2>1, <2>2
  <1>3. Job'
    BY DEF Job, KInv, Doing
  <1> QED  BY <1>1, <1>2, <1>3 DEF KInv

LEMMA KMarkIncomplete ==
    ASSUME TInv, KInv, NEW s \in Sources, MarkIncomplete(s)  PROVE KInv'
  <1>1. /\ pc = "mark" /\ pkg[s] # None /\ row' = Marked(s, pkg[s].from)
        /\ UNCHANGED <<archiveVars, watermark, baseline, pkg, jobVars>>
    BY DEF MarkIncomplete, Unmarked
  <1>2. pkg[s].from \in Times /\ \A e \in Unsettled(s) : pkg[s].from < e
    BY <1>1, NumbersIs DEF KInv, SourceInv, PackageKnows
  <1>3. /\ row'[s] # None /\ \A e \in Unsettled(s) : row'[s] < e
        /\ \A u \in Sources : u # s => row'[u] = row[u]
    BY <1>1, <1>2, MarkedCovers
  <1>4. Unsettled(s)' = Unsettled(s)
    BY <1>1 DEF Unsettled, archiveVars
  <1>5. Basic(s)'
    BY <1>1, <1>2, <1>3, <1>4 DEF Basic, Kept, PackageKnows, RowKnows, Covered
  <1>6. \A u \in Sources : u # s => Basic(u)'
    BY <1>1, <1>3, BasicSame DEF KInv, archiveVars
  <1>7. \A u \in Sources : SourceInv(u)'
    BY <1>1, <1>5, <1>6, BasicOnly DEF Doing, jobVars
  <1>8. FromKnows' /\ Job'
    BY <1>1 DEF FromKnows, Job, KInv, jobVars
  <1> QED  BY <1>7, <1>8 DEF KInv

LEMMA KPlan ==
    ASSUME TInv, KInv, Plan  PROVE KInv'
  <1>1. /\ pc = "mark" /\ pc' = "each" /\ Clocked
        /\ \A s \in Sources : ~Unmarked(s)
        /\ eligible' = {s \in Sources : row[s] # None /\ s \notin blocked}
        /\ todo' = eligible' \cup {s \in Sources : Window(s, Since) # {}}
        /\ UNCHANGED <<archiveVars, watermark, baseline, rowVars, blocked, manual,
                       started, cur, from, retired>>
        /\ ~manual /\ cur = None /\ \A s \in Sources : retired[s] = None
    BY DEF Plan, KInv, Job, Clocked
  <1>2. ASSUME NEW u \in Sources  PROVE SourceInv(u)'
    <2>1. SourceInv(u)  BY DEF KInv
    <2>2. Basic(u)'
      BY <1>1, <2>1, BasicSame DEF archiveVars, rowVars
    <2>3. Unsettled(u)' = Unsettled(u) /\ \A e : Covered(u, e)' <=> Covered(u, e)
      BY <1>1 DEF Unsettled, Covered, Packed, archiveVars, rowVars
    <2>4. ASSUME u \notin todo', NEW e \in Unsettled(u), e <= started
          PROVE  Covered(u, e)
      <3>1. Window(u, Since) = {}  BY <1>1, <2>4
      <3>2. e \in edits[u] /\ ~(Since < e)
        BY <2>4, <3>1 DEF Unsettled, Window
      <3>3. CASE row[u] = None
        <4>1. Packed(u, e)
          BY <1>1, <2>1, <2>4, <3>2, <3>3, AfterSince DEF SourceInv
        <4> QED  BY <4>1 DEF Covered
      <3>4. CASE row[u] # None
        BY <2>1, <3>4 DEF SourceInv, RowKnows
      <3> QED  BY <3>3, <3>4
    <2>5. Handled(u)'
      BY <1>1, <2>3, <2>4 DEF Handled
    <2>6. Retirable(u)'
      BY <1>1 DEF Retirable
    <2>7. ASSUME pkg[u] # None, ~pkg[u].built  PROVE row[u] # None
      <3>1. row = Marked(u, pkg[u].from)
        BY <1>1, <2>7 DEF Unmarked
      <3>2. pkg[u].from \in Nat /\ pkg[u].from # None
        BY <2>7, NumbersIs, ScanAssumption
      <3>3. [row EXCEPT ![u] = IF row[u] # None /\ row[u] < pkg[u].from THEN row[u]
                               ELSE pkg[u].from][u] # None
        BY <3>2 DEF TInv, Shapes
      <3>4. Marked(u, pkg[u].from) =
              [row EXCEPT ![u] = IF row[u] # None /\ row[u] < pkg[u].from THEN row[u]
                                 ELSE pkg[u].from]
        BY DEF Marked
      <3> QED  BY <3>1, <3>3, <3>4
    <2>8. Planned(u)'
      <3>1. u # None  BY NumbersIs
      <3> QED  BY <1>1, <2>7, <3>1 DEF Planned, rowVars
    <2> QED  BY <2>2, <2>5, <2>6, <2>8 DEF SourceInv, Basic
  <1>3. FromKnows' /\ Job'
    BY <1>1 DEF FromKnows, Job
  <1> QED  BY <1>2, <1>3 DEF KInv

\* A source that has its turn.
LEMMA TurnIs ==
    ASSUME TInv, KInv, NEW s \in Sources, Turn(s)
    PROVE  /\ pc = "each" /\ s \in todo /\ Clocked /\ Scanning /\ ~manual
           /\ cur = None /\ s # cur /\ retired[s] = None
           /\ s \in eligible <=> (row[s] # None /\ s \notin blocked)
           /\ pkg[s] # None /\ ~pkg[s].built => row[s] # None
           /\ SourceInv(s)
  <1>1. pc = "each" /\ s \in todo /\ Clocked /\ ~manual /\ cur = None
    BY DEF Turn, Clocked, KInv, Job
  <1>2. Scanning /\ s # cur  BY <1>1, NumbersIs DEF Scanning
  <1>3. SourceInv(s)  BY DEF KInv
  <1> QED  BY <1>1, <1>2, <1>3 DEF SourceInv, Retirable, Planned

\* A scan that has dealt with a source in its turn.
LEMMA KFinish ==
    ASSUME TInv, KInv, NEW s \in Sources, Turn(s), Finished(s),
           UNCHANGED <<now, edits, watermark, baseline, blocked>>,
           \A u \in Sources : u # s =>
                /\ pkg'[u] = pkg[u] /\ row'[u] = row[u]
                /\ settled'[u] = settled[u] /\ retired'[u] = retired[u],
           Basic(s)',
           \A e \in Unsettled(s)' : e <= started => Covered(s, e)',
           \/ retired'[s] = None
           \/ \A e \in Unsettled(s)' : e <= started => Packed(s, e)'
    PROVE  KInv'
  <1>1. /\ pc = "each" /\ pc' = "each" /\ todo' = todo \ {s} /\ cur' = None
        /\ UNCHANGED <<manual, started, eligible>> /\ ~manual /\ cur = None
    BY TurnIs DEF Finished
  <1>2. ASSUME NEW u \in Sources, u # s  PROVE SourceInv(u)'
    BY <1>1, <1>2, OtherSource DEF Doing
  <1>3. Scanning' /\ s \notin todo'
    BY <1>1 DEF Scanning
  <1>4. Handled(s)'  BY <1>1, <1>3 DEF Handled
  <1>5. Retirable(s)'  BY <1>1, <1>3 DEF Retirable
  <1>6. Planned(s)'  BY <1>3 DEF Planned
  <1>7. SourceInv(s)'
    BY <1>4, <1>5, <1>6 DEF SourceInv, Basic
  <1>8. FromKnows' /\ Job'
    BY <1>1 DEF FromKnows, Job
  <1> QED  BY <1>2, <1>7, <1>8 DEF KInv

LEMMA KSkip ==
    ASSUME TInv, KInv, NEW s \in Sources, Skip(s)  PROVE KInv'
  <1>1. /\ Turn(s) /\ Finished(s) /\ attempt[s] # None
        /\ UNCHANGED <<archiveVars, watermark, baseline, rowVars, blocked, retired>>
    BY DEF Skip, Dormant
  <1>2. SourceInv(s) /\ retired[s] = None
    BY <1>1, TurnIs
  <1>3. row[s] # None
    BY <1>1 DEF TInv, Limits
  <1>4. Basic(s)'
    BY <1>1, <1>2, BasicSame DEF archiveVars, rowVars
  <1>5. \A e \in Unsettled(s)' : Covered(s, e)'
    BY <1>1, <1>3, <1>4 DEF Basic, RowKnows, rowVars
  <1> QED
    BY <1>1, <1>2, <1>4, <1>5, KFinish DEF archiveVars, rowVars

LEMMA KDefer ==
    ASSUME TInv, KInv, NEW s \in Sources, Defer(s)  PROVE KInv'
  <1>1. /\ Turn(s) /\ Finished(s) /\ row' = Marked(s, Bound(s))
        /\ UNCHANGED <<archiveVars, watermark, baseline, pkg, attempt, blocked, retired>>
    BY DEF Defer
  <1>2. SourceInv(s) /\ retired[s] = None /\ Clocked
    BY <1>1, TurnIs
  <1>3. /\ Bound(s) \in Times /\ Bound(s) \in Nat
        /\ Bound(s) = IF row[s] # None THEN row[s] ELSE Since
    BY <1>2, ClockedIs DEF Bound
  <1>4. /\ row'[s] # None /\ row'[s] = Bound(s)
        /\ \A u \in Sources : u # s => row'[u] = row[u]
    BY <1>1, <1>3, MarkedIs DEF TInv, Shapes
  <1>5. Unsettled(s)' = Unsettled(s)
    BY <1>1 DEF Unsettled, archiveVars
  <1>6. ASSUME NEW e \in Unsettled(s)  PROVE Covered(s, e)'
    <2>1. CASE row[s] # None
      <3>1. Covered(s, e)  BY <1>2, <2>1 DEF SourceInv, RowKnows
      <3> QED  BY <1>1, <1>3, <1>4, <2>1, <3>1 DEF Covered, Packed
    <2>2. CASE row[s] = None
      <3>1. Packed(s, e) \/ Since < e
        BY <1>2, <2>2, AfterSince DEF SourceInv
      <3> QED  BY <1>1, <1>3, <1>4, <2>2, <3>1 DEF Covered, Packed
    <2> QED  BY <2>1, <2>2
  <1>7. Basic(s)'
    BY <1>1, <1>2, <1>5, <1>6 DEF Basic, Kept, PackageKnows, RowKnows, SourceInv
  <1> QED
    BY <1>1, <1>2, <1>4, <1>5, <1>6, <1>7, KFinish DEF archiveVars

\* A package whose later edits have been looked at knows of all the others; without
\* a package, all edits have been looked at.
LEMMA LookedAtPackage ==
    ASSUME TInv, Clocked, NEW s \in Sources, SourceInv(s), pkg[s] # None,
           UNCHANGED <<edits, baseline>>,
           settled'[s] = settled[s] \cup Looked(s),
           pkg'[s] # None, pkg'[s].from = pkg[s].from, pkg'[s].at = pkg[s].at
    PROVE  /\ \A e \in Unsettled(s)' : pkg'[s].from < e
           /\ \A e \in Unsettled(s)' : e <= started => Packed(s, e)'
  <1>1. Looked(s) = Window(s, pkg[s].at)
    BY DEF Looked
  <1>2. \A e \in Unsettled(s)' :
            e \in Unsettled(s) /\ ~(pkg[s].at < e /\ e <= started) /\ e \in Nat
    BY <1>1, NumbersIs DEF Unsettled, Window
  <1>3. pkg[s].at \in Nat  BY NumbersIs
  <1>4. \A e \in Unsettled(s) : pkg[s].from < e
    BY DEF SourceInv, PackageKnows
  <1> QED  BY <1>2, <1>3, <1>4 DEF Packed

LEMMA LookedAtAll ==
    ASSUME TInv, Clocked, NEW s \in Sources, SourceInv(s), pkg[s] = None,
           s \in eligible <=> row[s] # None,
           UNCHANGED <<edits, baseline>>,
           settled'[s] = settled[s] \cup Window(s, Lower(s))
    PROVE  \A e \in Unsettled(s)' : ~(e <= started)
  <1>1. SUFFICES ASSUME NEW e \in Unsettled(s)', e <= started  PROVE FALSE
    OBVIOUS
  <1>2. e \in Unsettled(s) /\ ~(Lower(s) < e)
    BY <1>1 DEF Unsettled, Window
  <1>3. CASE row[s] # None
    <2>1. Covered(s, e) /\ Lower(s) = row[s]
      BY <1>2, <1>3 DEF SourceInv, RowKnows, Lower
    <2> QED  BY <1>2, <2>1 DEF Covered, Packed
  <1>4. CASE row[s] = None
    <2>1. Lower(s) = Since  BY <1>4 DEF Lower
    <2>2. Packed(s, e) \/ Since < e
      BY <1>2, <1>4, AfterSince DEF SourceInv
    <2> QED  BY <1>2, <2>1, <2>2 DEF Packed
  <1> QED  BY <1>3, <1>4

\* Nothing up to the start is left that the package does not have.
LEMMA BasicLooked ==
    ASSUME TInv, Clocked, NEW s \in Sources, UNCHANGED <<edits, watermark, baseline>>,
           row'[s] # None => row'[s] \in Nat /\ row'[s] <= started,
           pkg'[s] # None => \A e \in Unsettled(s)' : pkg'[s].from < e,
           \A e \in Unsettled(s)' : e <= started => Packed(s, e)'
    PROVE  Basic(s)'
  <1>1. started \in Nat /\ watermark \in Nat /\ watermark <= started
    BY ClockedIs
  <1>2. \A e \in Unsettled(s)' : e \in Nat
    BY NumbersIs DEF Unsettled
  <1>3. \A e \in Unsettled(s)' : e <= watermark => e <= started
    BY <1>1, <1>2
  <1>4. Kept(s)'
    BY <1>3 DEF Kept, Covered
  <1>5. PackageKnows(s)'
    BY DEF PackageKnows
  <1>6. \A e \in Unsettled(s)' : ~(e <= started) => (row'[s] # None => row'[s] < e)
    BY <1>1, <1>2
  <1>7. RowKnows(s)'
    BY <1>6 DEF RowKnows, Covered
  <1> QED  BY <1>4, <1>5, <1>7 DEF Basic

LEMMA KQuiet ==
    ASSUME TInv, KInv, NEW s \in Sources, Quiet(s)  PROVE KInv'
  <1>1. /\ Turn(s) /\ Finished(s) /\ s \notin blocked
        /\ row' = Queued(s) /\ pkg' = Completed(s) /\ Settle(s, Looked(s))
        /\ retired' = [retired EXCEPT ![s] = Bound(s)]
        /\ UNCHANGED <<now, edits, watermark, baseline, attempt, blocked>>
    BY DEF Quiet
  <1>2. /\ SourceInv(s) /\ Clocked
        /\ s \in eligible <=> row[s] # None
    BY <1>1, TurnIs
  <1>3. /\ \A u \in Sources : u # s => row'[u] = row[u]
        /\ row'[s] # None => row'[s] \in Nat /\ row'[s] <= started
    BY <1>1, <1>2, QueuedIs
  <1>4. /\ pkg'[s] = None <=> pkg[s] = None
        /\ pkg'[s] # None => pkg'[s].from = pkg[s].from /\ pkg'[s].at = pkg[s].at
        /\ \A u \in Sources : u # s => pkg'[u] = pkg[u]
    BY <1>1, CompletedIs DEF TInv, Shapes
  <1>5. Looked(s) \subseteq edits[s]
    BY DEF Looked, Window
  <1>6. /\ settled'[s] = settled[s] \cup Looked(s)
        /\ \A u \in Sources : u # s => settled'[u] = settled[u]
    BY <1>1, <1>5, SettledIs DEF TInv
  <1>7. \A u \in Sources : u # s => retired'[u] = retired[u]
    BY <1>1 DEF TInv, Shapes
  <1>8. /\ pkg'[s] # None => \A e \in Unsettled(s)' : pkg'[s].from < e
        /\ \A e \in Unsettled(s)' : e <= started => Packed(s, e)'
    <2>1. CASE pkg[s] # None
      BY <1>1, <1>2, <1>4, <1>6, <2>1, LookedAtPackage
    <2>2. CASE pkg[s] = None
      <3>1. Looked(s) = Window(s, Lower(s))  BY <2>2 DEF Looked
      <3> QED  BY <1>1, <1>2, <1>4, <1>6, <2>2, <3>1, LookedAtAll
    <2> QED  BY <2>1, <2>2
  <1>9. Basic(s)'
    BY <1>1, <1>2, <1>3, <1>8, BasicLooked
  <1>10. \A e \in Unsettled(s)' : e <= started => Covered(s, e)'
    BY <1>8 DEF Covered
  <1> QED
    BY <1>1, <1>3, <1>4, <1>6, <1>7, <1>8, <1>9, <1>10, KFinish

\* Without a package, a source's bound comes before all that is left of it.
LEMMA BoundBefore ==
    ASSUME TInv, Clocked, NEW s \in Sources, SourceInv(s), pkg[s] = None
    PROVE  \A e \in Unsettled(s) : Bound(s) < e
  <1> SUFFICES ASSUME NEW e \in Unsettled(s)  PROVE Bound(s) < e
    OBVIOUS
  <1>1. CASE row[s] # None
    BY <1>1 DEF SourceInv, RowKnows, Covered, Packed, Bound
  <1>2. CASE row[s] = None
    <2>1. Packed(s, e) \/ Since < e
      BY <1>2, AfterSince DEF SourceInv
    <2> QED  BY <1>2, <2>1 DEF Packed, Bound
  <1> QED  BY <1>1, <1>2

LEMMA KLook ==
    ASSUME TInv, KInv, NEW s \in Sources, Look(s)  PROVE KInv'
  <1>1. /\ Turn(s) /\ s \notin blocked
        /\ row' = Queued(s) /\ cur' = s /\ pc' = "snapshot"
        /\ from' = IF pkg[s] # None THEN pkg[s].from ELSE Bound(s)
        /\ UNCHANGED <<archiveVars, watermark, baseline, pkg, attempt, blocked,
                       manual, started, todo, eligible, retired>>
    BY DEF Look
  <1>2. /\ SourceInv(s) /\ Clocked /\ pc = "each" /\ s \in todo /\ cur = None /\ ~manual
        /\ s \in eligible <=> row[s] # None
        /\ pkg[s] # None /\ ~pkg[s].built => row[s] # None
    BY <1>1, TurnIs
  <1>3. /\ \A u \in Sources : u # s => row'[u] = row[u]
        /\ row'[s] # None => row'[s] \in Nat
        /\ row[s] # None => row'[s] # None /\ row'[s] <= row[s]
        /\ row'[s] = row[s] \/ (pkg[s] # None /\ row'[s] = pkg[s].from)
    BY <1>1, <1>2, QueuedIs
  <1>4. Unsettled(s)' = Unsettled(s)
    BY <1>1 DEF Unsettled, archiveVars
  <1>5. pkg[s] # None => \A e \in Unsettled(s) : pkg[s].from < e
    BY <1>2 DEF SourceInv, PackageKnows
  <1>6. \A e \in Unsettled(s) : from' < e
    BY <1>1, <1>2, <1>5, BoundBefore
  <1>7. \A e \in Unsettled(s) : Covered(s, e) => Covered(s, e)'
    <2>1. CASE row'[s] = row[s]
      BY <1>1, <2>1 DEF Covered, Packed
    <2>2. CASE pkg[s] # None /\ row'[s] = pkg[s].from
      <3>1. row'[s] # None  BY <2>2, NumbersIs, ScanAssumption
      <3> QED  BY <1>5, <2>2, <3>1 DEF Covered
    <2> QED  BY <1>3, <2>1, <2>2
  <1>8. Basic(s)'
    <2>1. Kept(s)'
      BY <1>1, <1>2, <1>4, <1>7 DEF SourceInv, Kept
    <2>2. PackageKnows(s)'
      BY <1>1, <1>4, <1>5 DEF PackageKnows
    <2>3. RowKnows(s)'
      <3>1. CASE row'[s] = row[s]
        BY <1>2, <1>4, <1>7, <3>1 DEF SourceInv, RowKnows
      <3>2. CASE pkg[s] # None /\ row'[s] = pkg[s].from
        BY <1>4, <1>5, <3>2 DEF RowKnows, Covered
      <3> QED  BY <1>3, <3>1, <3>2
    <2> QED  BY <2>1, <2>2, <2>3 DEF Basic
  <1>9. row'[s] # None <=> row[s] # None
    <2>1. CASE pkg[s] # None /\ ~pkg[s].built
      BY <1>2, <1>3, <2>1
    <2>2. CASE ~(pkg[s] # None /\ ~pkg[s].built)
      BY <1>1, <2>2 DEF Queued
    <2> QED  BY <2>1, <2>2
  <1>10. Planned(s)'
    BY <1>1, <1>2, <1>9 DEF Planned
  <1>11. FromKnows'
    BY <1>1, <1>4, <1>6 DEF FromKnows
  <1> QED
    BY <1>1, <1>2, <1>3, <1>8, <1>10, <1>11, KStay DEF Doing, archiveVars

LEMMA KTake ==
    ASSUME TInv, KInv, NEW s \in Sources, Take(s)  PROVE KInv'
  <1>0. /\ pc = "take" /\ Clocked /\ manual
        /\ UNCHANGED <<archiveVars, watermark, baseline, rowVars, blocked>>
        /\ \A u \in Sources : retired[u] = None
    BY DEF Take, Clocked, KInv, Job
  <1>1. CASE pkg[s] # None \/ s \in blocked
    <2>1. Quit  BY <1>1 DEF Take
    <2> QED  BY <1>0, <2>1, KQuit
  <1>2. CASE ~(pkg[s] # None \/ s \in blocked)
    <2> DEFINE b == IF row[s] # None /\ row[s] < watermark THEN row[s] ELSE watermark
    <2>1. /\ from' = Later(baseline, b) /\ cur' = s /\ pc' = "snapshot"
          /\ UNCHANGED <<manual, started, todo, eligible, retired>>
          /\ pkg[s] = None
      BY <1>2 DEF Take
    <2>2. ASSUME NEW e \in Unsettled(s)  PROVE from' < e
      <3>1. e \in Nat /\ baseline < e /\ baseline \in Nat /\ watermark \in Nat
        BY NumbersIs DEF Unsettled
      <3>2. row[s] # None => row[s] < e /\ row[s] \in Nat
        BY <2>1, NumbersIs DEF KInv, SourceInv, RowKnows, Covered, Packed
      <3>3. row[s] = None => ~(e <= watermark)
        BY <2>1 DEF KInv, SourceInv, Kept, Covered, Packed
      <3>4. b < e /\ b \in Nat
        BY <3>1, <3>2, <3>3
      <3> HIDE DEF b
      <3> QED  BY <2>1, <3>1, <3>4 DEF Later
    <2>3. \A u \in Sources : Basic(u)'
      BY <1>0, BasicSame DEF KInv, archiveVars, rowVars
    <2>4. \A u \in Sources : SourceInv(u)'
      BY <1>0, <2>1, <2>3, BasicOnly DEF Doing
    <2>5. Unsettled(s)' = Unsettled(s) /\ pkg'[s] = None
      BY <1>0, <2>1 DEF Unsettled, archiveVars, rowVars
    <2>6. FromKnows'
      BY <2>1, <2>2, <2>5 DEF FromKnows
    <2>7. Job'
      BY <1>0, <2>1 DEF Job
    <2> QED  BY <2>4, <2>6, <2>7 DEF KInv
  <1> QED  BY <1>1, <1>2

-----------------------------------------------------------------------------
(* The source snapshot, and the end of a scan.                             *)

\* A job that works on a source.
LEMMA WorkIs ==
    ASSUME TInv, KInv, pc \in {"snapshot", "failed", "create", "build"}
    PROVE  /\ cur \in Sources /\ Clocked /\ SourceInv(cur) /\ pc \in Doing
           /\ manual \/ (cur \in todo /\ retired[cur] = None)
           /\ from \in Nat /\ from \in Times
           /\ pc \in {"snapshot", "create"} => from <= started
  <1>1. cur \in Sources /\ Clocked /\ pc \in Doing
    BY DEF TInv, Working, Clocked, Doing
  <1>2. SourceInv(cur)  BY <1>1 DEF KInv
  <1>3. manual \/ cur \in todo  BY DEF KInv, Job
  <1>4. manual \/ retired[cur] = None
    BY <1>2, <1>3 DEF SourceInv, Retirable, Scanning
  <1>5. from \in Nat /\ from \in Times
    BY PackageIs DEF TInv, Shapes
  <1> QED  BY <1>1, <1>2, <1>3, <1>4, <1>5 DEF TInv, Working

\* The bound is marked, and all edits come after it.
LEMMA BasicMarked ==
    ASSUME NEW c \in Sources, Unsettled(c)' = Unsettled(c),
           row'[c] # None, \A e \in Unsettled(c) : row'[c] < e,
           pkg'[c] # None => \A e \in Unsettled(c) : pkg'[c].from < e
    PROVE  Basic(c)'
  BY DEF Basic, Kept, PackageKnows, RowKnows, Covered

LEMMA KSnapshotFails ==
    ASSUME TInv, KInv, SnapshotFails  PROVE KInv'
  <1>1. /\ pc = "snapshot" /\ pc' = "failed" /\ row' = Marked(cur, from)
        /\ UNCHANGED <<archiveVars, watermark, baseline, pkg, attempt, blocked,
                       manual, started, todo, eligible, cur, from, retired>>
    BY DEF SnapshotFails
  <1>2. PICK c \in Sources : c = cur  BY <1>1, WorkIs
  <1>3. /\ SourceInv(c) /\ pc \in Doing /\ (manual \/ c \in todo) /\ from \in Times
        /\ \A e \in Unsettled(c) : from < e
    BY <1>1, <1>2, WorkIs DEF KInv, FromKnows
  <1>4. /\ row'[c] # None /\ \A e \in Unsettled(c) : row'[c] < e
        /\ \A u \in Sources : u # c => row'[u] = row[u]
    BY <1>1, <1>2, <1>3, MarkedCovers
  <1>5. Unsettled(c)' = Unsettled(c)
    BY <1>1 DEF Unsettled, archiveVars
  <1>6. Basic(c)'
    BY <1>1, <1>3, <1>4, <1>5, BasicMarked DEF SourceInv, PackageKnows
  <1>7. Planned(c)' /\ FromKnows'
    BY <1>1, <1>2 DEF Planned, FromKnows
  <1> QED
    BY <1>1, <1>2, <1>3, <1>4, <1>6, <1>7, KStay DEF Doing, archiveVars

LEMMA KRecordFailure ==
    ASSUME TInv, KInv, RecordFailure  PROVE KInv'
  <1>1. /\ pc = "failed" /\ Leave(retired[cur]) /\ row[cur] # None
        /\ UNCHANGED <<archiveVars, watermark, baseline, pkg, row, blocked>>
    BY DEF RecordFailure, TInv, Working
  <1>2. PICK c \in Sources : c = cur  BY <1>1, WorkIs
  <1>3. SourceInv(c) /\ (manual \/ retired[c] = None)
    BY <1>1, <1>2, WorkIs
  <1>4. Basic(c)'
    BY <1>1, <1>3, BasicSame DEF archiveVars
  <1>5. \A e \in Unsettled(c)' : Covered(c, e)'
    BY <1>1, <1>2, <1>4 DEF Basic, RowKnows
  <1>6. Beside /\ UNCHANGED settled
    BY <1>1 DEF Beside, archiveVars
  <1>7. CASE manual
    <2>1. Leave(None)  BY <1>1, <1>7 DEF Leave
    <2> QED  BY <1>1, <1>2, <1>4, <1>5, <1>6, <2>1, KLeave
  <1>8. CASE retired[c] = None
    <2>1. Leave(None)  BY <1>1, <1>2, <1>8
    <2> QED  BY <1>1, <1>2, <1>4, <1>5, <1>6, <2>1, KLeave
  <1> QED  BY <1>3, <1>7, <1>8

LEMMA KIrrelevant ==
    ASSUME TInv, KInv, Irrelevant  PROVE KInv'
  <1>1. /\ pc = "snapshot" /\ pkg[cur] # None
        /\ pkg' = Completed(cur) /\ Settle(cur, Looked(cur)) /\ Leave(Bound(cur))
        /\ UNCHANGED <<now, edits, watermark, baseline, row, attempt, blocked>>
    BY DEF Irrelevant
  <1>2. PICK c \in Sources : c = cur  BY <1>1, WorkIs
  <1>3. SourceInv(c) /\ Clocked  BY <1>1, <1>2, WorkIs
  <1>4. /\ pkg'[c] # None /\ pkg'[c].from = pkg[c].from /\ pkg'[c].at = pkg[c].at
        /\ \A u \in Sources : u # c => pkg'[u] = pkg[u]
    BY <1>1, <1>2, CompletedIs DEF TInv, Shapes
  <1>5. Looked(c) \subseteq edits[c]
    BY DEF Looked, Window
  <1>6. /\ settled'[c] = settled[c] \cup Looked(c)
        /\ \A u \in Sources : u # c => settled'[u] = settled[u]
    BY <1>1, <1>2, <1>5, SettledIs DEF TInv
  <1>7. /\ \A e \in Unsettled(c)' : pkg'[c].from < e
        /\ \A e \in Unsettled(c)' : e <= started => Packed(c, e)'
    BY <1>1, <1>2, <1>3, <1>4, <1>6, LookedAtPackage
  <1>8. row'[c] # None => row'[c] \in Nat /\ row'[c] <= started
    BY <1>1, <1>3, ClockedIs
  <1>9. Basic(c)'
    BY <1>1, <1>3, <1>7, <1>8, BasicLooked
  <1>10. \A e \in Unsettled(c)' : e <= started => Covered(c, e)'
    BY <1>7 DEF Covered
  <1>11. Bound(c) \in Times \cup {None} /\ Leave(Bound(c))
    BY <1>1, <1>2, <1>3, ClockedIs DEF Bound
  <1>12. Beside  BY <1>1 DEF Beside
  <1> QED
    BY <1>1, <1>2, <1>4, <1>6, <1>7, <1>9, <1>10, <1>11, <1>12, KLeave

LEMMA KCancel ==
    ASSUME TInv, KInv, Cancel  PROVE KInv'
  <1> DEFINE low == IF pkg[cur] # None THEN from ELSE Lower(cur)
  <1>1. /\ pc = "snapshot" /\ ~manual /\ Dropped /\ Leave(from)
        /\ Settle(cur, Window(cur, low))
        /\ UNCHANGED <<now, edits, watermark, baseline, attempt, blocked>>
    BY DEF Cancel
  <1>2. PICK c \in Sources : c = cur  BY <1>1, WorkIs
  <1>3. /\ SourceInv(c) /\ Clocked /\ c \in todo /\ Scanning /\ from \in Times
        /\ from \in Nat
        /\ \A e \in Unsettled(c) : from < e
    BY <1>1, <1>2, WorkIs DEF KInv, FromKnows, Scanning
  <1>4. /\ pkg'[c] = None
        /\ \A u \in Sources : u # c => pkg'[u] = pkg[u] /\ row'[u] = row[u]
        /\ row'[c] # None => row'[c] \in Nat /\ row'[c] <= started
    BY <1>1, <1>2, DroppedIs
  <1>5. Window(c, low) \subseteq edits[c]
    BY DEF Window
  <1>6. /\ settled'[c] = settled[c] \cup Window(c, low)
        /\ \A u \in Sources : u # c => settled'[u] = settled[u]
    BY <1>1, <1>2, <1>5, SettledIs DEF TInv
  <1>7. \A e \in Unsettled(c)' : ~(e <= started)
    <2>1. CASE pkg[c] # None
      <3>1. low = from  BY <1>2, <2>1
      <3>2. \A e \in Unsettled(c)' : e \in Unsettled(c) /\ ~(from < e /\ e <= started)
        BY <1>1, <1>6, <3>1 DEF Unsettled, Window
      <3> QED  BY <1>3, <3>2
    <2>2. CASE pkg[c] = None
      <3>1. low = Lower(c)  BY <1>2, <2>2
      <3>2. c \in eligible <=> row[c] # None
        BY <1>1, <1>2, <1>3 DEF SourceInv, Planned
      <3> QED  BY <1>1, <1>3, <1>6, <2>2, <3>1, <3>2, LookedAtAll
    <2> QED  BY <2>1, <2>2
  <1>8. Basic(c)'
    BY <1>1, <1>3, <1>4, <1>7, BasicLooked
  <1>9. Beside  BY <1>1 DEF Beside
  <1> QED
    BY <1>1, <1>2, <1>3, <1>4, <1>6, <1>7, <1>8, <1>9, KLeave

LEMMA KReplace ==
    ASSUME TInv, KInv, Replace  PROVE KInv'
  <1>1. /\ pc = "snapshot" /\ pc' = "create" /\ pkg[cur] # None /\ Dropped
        /\ UNCHANGED <<archiveVars, watermark, baseline, attempt, blocked, manual,
                       started, todo, eligible, cur, from, retired>>
    BY DEF Replace
  <1>2. PICK c \in Sources : c = cur  BY <1>1, WorkIs
  <1>3. /\ SourceInv(c) /\ pc \in Doing /\ (manual \/ c \in todo) /\ from \in Times
        /\ \A e \in Unsettled(c) : from < e
    BY <1>1, <1>2, WorkIs DEF KInv, FromKnows
  <1>4. row' = Marked(c, from)
    BY <1>1, <1>2 DEF Dropped
  <1>5. /\ row'[c] # None /\ \A e \in Unsettled(c) : row'[c] < e
        /\ \A u \in Sources : u # c => row'[u] = row[u]
    BY <1>3, <1>4, MarkedCovers
  <1>6. pkg'[c] = None /\ \A u \in Sources : u # c => pkg'[u] = pkg[u]
    BY <1>1, <1>2, DroppedIs
  <1>7. Unsettled(c)' = Unsettled(c)
    BY <1>1 DEF Unsettled, archiveVars
  <1>8. Basic(c)'
    BY <1>5, <1>6, <1>7, BasicMarked
  <1>9. Planned(c)' /\ FromKnows'
    BY <1>1, <1>2, <1>3, <1>6, <1>7 DEF Planned, FromKnows
  <1> QED
    BY <1>1, <1>2, <1>3, <1>5, <1>6, <1>8, <1>9, KStay DEF Doing, archiveVars

LEMMA KCreate ==
    ASSUME TInv, KInv, Create  PROVE KInv'
  <1> DEFINE p == [from |-> from, at |-> started, built |-> FALSE]
  <1>1. /\ pc \in {"snapshot", "create"} /\ pc' = "build"
        /\ row' = Marked(cur, from) /\ pkg' = [pkg EXCEPT ![cur] = p]
        /\ UNCHANGED <<archiveVars, watermark, baseline, attempt, blocked, manual,
                       started, todo, eligible, cur, from, retired>>
    BY DEF Create
  <1>2. PICK c \in Sources : c = cur  BY <1>1, WorkIs
  <1>3. /\ SourceInv(c) /\ pc \in Doing /\ (manual \/ c \in todo) /\ from \in Times
        /\ \A e \in Unsettled(c) : from < e
    BY <1>1, <1>2, WorkIs DEF KInv, FromKnows
  <1>4. /\ row'[c] # None /\ \A e \in Unsettled(c) : row'[c] < e
        /\ \A u \in Sources : u # c => row'[u] = row[u]
    BY <1>1, <1>2, <1>3, MarkedCovers
  <1>5. p # None /\ p.from = from /\ p.at = started
    <2>1. p \in Package
      BY <1>3 DEF Package, TInv, Shapes
    <2> QED  BY <2>1, PackageIs
  <1> HIDE DEF p
  <1>6. pkg'[c] = p /\ \A u \in Sources : u # c => pkg'[u] = pkg[u]
    BY <1>1, <1>2 DEF TInv, Shapes
  <1>7. Unsettled(c)' = Unsettled(c)
    BY <1>1 DEF Unsettled, archiveVars
  <1>8. Basic(c)'
    BY <1>3, <1>4, <1>5, <1>6, <1>7, BasicMarked
  <1>9. Planned(c)' /\ FromKnows'
    BY <1>1, <1>2, <1>5, <1>6 DEF Planned, FromKnows
  <1> QED
    BY <1>1, <1>2, <1>3, <1>4, <1>6, <1>8, <1>9, KStay DEF Doing, archiveVars

LEMMA KBuild ==
    ASSUME TInv, KInv, Build  PROVE KInv'
  <1>1. /\ pc = "build" /\ pkg' = Completed(cur) /\ Leave(from)
        /\ UNCHANGED <<archiveVars, watermark, baseline, row, attempt, blocked>>
    BY DEF Build
  <1>2. PICK c \in Sources : c = cur  BY <1>1, WorkIs
  <1>3. /\ SourceInv(c) /\ Clocked /\ from \in Times
        /\ pkg[c] # None /\ pkg[c].at = started
    BY <1>1, <1>2, WorkIs DEF KInv, FromKnows
  <1>4. /\ pkg'[c] # None /\ pkg'[c].from = pkg[c].from /\ pkg'[c].at = pkg[c].at
        /\ \A u \in Sources : u # c => pkg'[u] = pkg[u]
    BY <1>1, <1>2, <1>3, CompletedIs DEF TInv, Shapes
  <1>5. Unsettled(c)' = Unsettled(c)
    BY <1>1 DEF Unsettled, archiveVars
  <1>6. /\ \A e \in Unsettled(c)' : pkg'[c].from < e
        /\ \A e \in Unsettled(c)' : e <= started => Packed(c, e)'
    BY <1>3, <1>4, <1>5 DEF SourceInv, PackageKnows, Packed
  <1>7. row'[c] # None => row'[c] \in Nat /\ row'[c] <= started
    BY <1>1, <1>3, ClockedIs
  <1>8. Basic(c)'
    BY <1>1, <1>3, <1>6, <1>7, BasicLooked DEF archiveVars
  <1>9. \A e \in Unsettled(c)' : e <= started => Covered(c, e)'
    BY <1>6 DEF Covered
  <1>10. Beside /\ UNCHANGED settled  BY <1>1 DEF Beside, archiveVars
  <1> QED
    BY <1>1, <1>2, <1>3, <1>4, <1>6, <1>8, <1>9, <1>10, KLeave

LEMMA KComplete ==
    ASSUME TInv, KInv, Complete  PROVE KInv'
  <1>1. /\ pc = "each" /\ pc' = "retire" /\ todo = {} /\ watermark' = started
        /\ UNCHANGED <<archiveVars, baseline, rowVars, blocked, manual, started,
                       todo, eligible, cur, from, retired>>
        /\ ~manual /\ Scanning
    BY DEF Complete, KInv, Job, Scanning
  <1>2. ASSUME NEW u \in Sources  PROVE SourceInv(u)'
    <2>1. SourceInv(u)  BY DEF KInv
    <2>2. /\ Unsettled(u)' = Unsettled(u)
          /\ \A e : Covered(u, e)' <=> Covered(u, e)
          /\ \A e : Packed(u, e)' <=> Packed(u, e)
      BY <1>1 DEF Unsettled, Covered, Packed, archiveVars, rowVars
    <2>3. Kept(u)'
      BY <1>1, <2>1, <2>2 DEF SourceInv, Handled, Kept
    <2>4. PackageKnows(u)' /\ RowKnows(u)'
      BY <1>1, <2>1, <2>2 DEF SourceInv, PackageKnows, RowKnows, rowVars
    <2>5. ~Scanning'  BY <1>1 DEF Scanning
    <2>6. Handled(u)' /\ Planned(u)'
      BY <2>5 DEF Handled, Planned
    <2>7. Retirable(u)'
      BY <1>1, <2>1, <2>2, <2>5 DEF SourceInv, Retirable, rowVars
    <2> QED  BY <2>3, <2>4, <2>6, <2>7 DEF SourceInv
  <1>3. FromKnows' /\ Job'
    BY <1>1 DEF FromKnows, Job
  <1> QED  BY <1>2, <1>3 DEF KInv

LEMMA KRetire ==
    ASSUME TInv, KInv, NEW s \in Sources, Retire(s)  PROVE KInv'
  <1>1. /\ pc = "retire" /\ pc' = "retire" /\ retired[s] # None
        /\ row' = [row EXCEPT ![s] = IF SameBound(s) THEN None ELSE row[s]]
        /\ retired' = [retired EXCEPT ![s] = None]
        /\ UNCHANGED <<archiveVars, watermark, baseline, pkg, blocked, manual,
                       started, todo, eligible, cur, from>>
        /\ watermark = started /\ ~manual
    BY DEF Retire, KInv, Job
  <1>2. /\ \A u \in Sources : u # s => row'[u] = row[u] /\ retired'[u] = retired[u]
        /\ row'[s] = IF SameBound(s) THEN None ELSE row[s]
        /\ retired'[s] = None
    BY <1>1 DEF TInv, Shapes
  <1>3. ASSUME NEW u \in Sources  PROVE Basic(u)' /\ Retirable(u)'
    <2>1. SourceInv(u)  BY DEF KInv
    <2>2. Unsettled(u)' = Unsettled(u) /\ \A e : Packed(u, e)' <=> Packed(u, e)
      BY <1>1 DEF Unsettled, Packed, archiveVars
    <2>3. ~Scanning' /\ ~Scanning  BY <1>1 DEF Scanning
    <2>4. CASE u # s \/ ~SameBound(s)
      <3>1. row'[u] = row[u]  BY <1>2, <2>4
      <3>2. Basic(u)'
        BY <1>1, <2>1, <3>1, BasicSame DEF archiveVars
      <3>3. retired'[u] = None \/ retired'[u] = retired[u]
        BY <1>2
      <3>4. Retirable(u)'
        BY <1>1, <2>1, <2>2, <2>3, <3>1, <3>3 DEF SourceInv, Retirable
      <3> QED  BY <3>2, <3>4
    <2>5. CASE u = s /\ SameBound(s)
      <3>1. row'[u] = None /\ retired'[u] = None  BY <1>2, <2>5
      <3>2. \A e \in Unsettled(u) : e <= started => Packed(u, e)
        BY <1>1, <2>1, <2>5 DEF SourceInv, Retirable, SameBound
      <3>3. Basic(u)'
        BY <1>1, <2>1, <2>2, <3>1, <3>2
        DEF Basic, Kept, PackageKnows, RowKnows, Covered, SourceInv
      <3>4. Retirable(u)'
        BY <2>3, <3>1 DEF Retirable
      <3> QED  BY <3>3, <3>4
    <2> QED  BY <2>4, <2>5
  <1>4. ASSUME NEW u \in Sources  PROVE SourceInv(u)'
    <2>1. ~Scanning'  BY <1>1 DEF Scanning
    <2>2. Handled(u)' /\ Planned(u)'  BY <2>1 DEF Handled, Planned
    <2> QED  BY <1>3, <2>2 DEF SourceInv, Basic
  <1>5. FromKnows' /\ Job'
    BY <1>1 DEF FromKnows, Job
  <1> QED  BY <1>4, <1>5 DEF KInv

LEMMA KEnd ==
    ASSUME TInv, KInv, End \/ Stop  PROVE KInv'
  <1>1. Quit /\ UNCHANGED <<archiveVars, watermark, baseline, blocked, rowVars>>
    BY DEF End, Stop
  <1> QED  BY <1>1, KQuit

LEMMA KNext ==
    ASSUME TInv, KInv, [Next]_vars, "block" \notin Events  PROVE KInv'
  <1>1. ASSUME NEW s \in Sources, Block(s)  PROVE KInv'
    <2>1. Idle  BY <1>1 DEF Block
    <2> QED  BY <1>1, <2>1, KBlock
  <1>2. ASSUME NEW s \in Sources, Edit(s) \/ Publish(s) \/ Discard(s)  PROVE KInv'
    BY <1>2, KEdit, KPublish, KDiscard
  <1>3. ASSUME NEW m \in BOOLEAN, Begin(m)  PROVE KInv'
    BY <1>3, KBegin
  <1>4. ASSUME NEW s \in Sources, DropStale(s) \/ MarkIncomplete(s) \/ Take(s) \/ Retire(s)
        PROVE  KInv'
    BY <1>4, KDropStale, KMarkIncomplete, KTake, KRetire
  <1>5. ASSUME NEW s \in Sources, Skip(s) \/ Defer(s) \/ Quiet(s) \/ Look(s)
        PROVE  KInv'
    BY <1>5, KSkip, KDefer, KQuiet, KLook
  <1>6. CASE RebaseReplay \/ Plan \/ RecordFailure \/ Replace \/ Build \/ Complete \/ End
    BY <1>6, KRebaseReplay, KPlan, KRecordFailure, KReplace, KBuild, KComplete, KEnd
  <1>7. CASE SnapshotFails \/ Irrelevant \/ Cancel \/ Create \/ Stop
    BY <1>7, KSnapshotFails, KIrrelevant, KCancel, KCreate, KEnd
  <1>8. CASE UNCHANGED vars
    <2>1. UNCHANGED <<archiveVars, watermark, baseline, rowVars, blocked, jobVars>>
      BY <1>8 DEF vars
    <2>2. ASSUME NEW u \in Sources  PROVE SourceInv(u)'
      BY <2>1 DEF KInv, SourceInv, Kept, PackageKnows, RowKnows, Handled, Retirable,
                  Planned, Unsettled, Covered, Packed, Scanning,
                  archiveVars, rowVars, jobVars
    <2>3. FromKnows' /\ Job'
      BY <2>1 DEF KInv, FromKnows, Job, Unsettled, archiveVars, rowVars, jobVars
    <2> QED  BY <2>2, <2>3 DEF KInv
  <1> QED
    BY <1>1, <1>2, <1>3, <1>4, <1>5, <1>6, <1>7, <1>8 DEF Next, Step

\* If no hold comes or goes while a scan runs, no edit is lost: deaths of the Worker,
\* failed snapshots, discards and import cutoffs notwithstanding.
THEOREM NoEditLost ==
    ASSUME "block" \notin Events  PROVE Spec => []EditsKept
  <1>1. Init => IInv
    BY TInit, KInit DEF IInv
  <1>2. IInv /\ [Next]_vars => IInv'
    BY TNext, KNext DEF IInv
  <1>3. IInv => EditsKept
    <2> SUFFICES ASSUME IInv, NEW s \in Sources, NEW e \in edits[s] \ settled[s],
                        baseline < e, e <= watermark
                 PROVE  \/ row[s] # None /\ row[s] < e
                        \/ pkg[s] # None /\ pkg[s].from < e /\ e <= pkg[s].at
      BY DEF EditsKept
    <2>1. e \in Unsettled(s)  BY DEF Unsettled
    <2>2. Covered(s, e)
      BY <2>1 DEF IInv, KInv, SourceInv, Kept
    <2> QED  BY <2>2 DEF Covered, Packed
  <1> QED  BY <1>1, <1>2, <1>3, PTL DEF Spec

=============================================================================
