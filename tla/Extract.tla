------------------------------- MODULE Extract -------------------------------
(***************************************************************************)
(* pipeline/extract: copying a watermarked entity of the bank (transactions*)
(* or loan applications) into bronze.core_banking, page by page.           *)
(*                                                                         *)
(* The bank serves pages in the order of (updatedOn, id), after a cursor.  *)
(* A sweep starts from the cursor the last one stored, lands every page as *)
(* it comes, and stores its own cursor at the end.  Cursors are stored to  *)
(* the second, although the bank stamps changes to the millisecond, and in *)
(* a table that is read in two ways: the largest watermark of all its rows,*)
(* and the cursor id of the newest row.                                    *)
(*                                                                         *)
(* Sweeps run in the extract loop and, at the same time, for POST /refresh.*)
(* Time is counted in milliseconds of the bank; TICKS of them are a second.*)
(***************************************************************************)
EXTENDS Naturals, FiniteSets

CONSTANTS
  NumIds,                \* records of the entity, identified by 1 .. NumIds
  Loop, Refresh,         \* who sweeps: the extract loop, requests to /refresh
  PAGE_SIZE, MAX_PAGES,
  TICKS,
  MaxClock,              \* bound: the bank's time
  MaxChanges,            \* bound: changes of the bank's records
  MaxFailures            \* bound: failed requests, restarts, branches that move

ASSUME ExtractAssumption ==
  /\ NumIds \in Nat \ {0} /\ PAGE_SIZE \in Nat \ {0} /\ MAX_PAGES \in Nat \ {0}
  /\ TICKS \in Nat \ {0} /\ Loop # Refresh
  /\ MaxClock \in Nat /\ MaxChanges \in Nat /\ MaxFailures \in Nat

Ids == 1 .. NumIds
Sweepers == {Loop, Refresh}

\* A DateTime column drops the fraction of a second.
Second(t) == (t \div TICKS) * TICKS

VARIABLES
  clock,                 \* the bank's time
  src,                   \* src[id]: updatedOn and number of changes, 0 before there are any
  open,                  \* open[id]: the stamp a transaction not yet committed gave it, or 0
  changes,               \* how many there were
  region,                \* the branch's region, joined to every record served
  bronze,                \* rows landed
  geo,                   \* the branches last landed
  fingerprint,           \* the branch fingerprint last stored
  older, newest,         \* gold.ingest_watermarks: its newest row, watermarks of the others
  boot,                  \* the loop has not swept since the process started
  step, since, cursor, pages, pageWatermark,
  served,                \* observed: the largest updatedOn ever served,
  late,                  \* and the records whose last change became visible too late
  failures

bankVars == <<clock, src, open, changes, region>>
landVars == <<bronze, geo, served>>
storeVars == <<fingerprint, older, newest>>
sweepVars == <<since, cursor, pages, pageWatermark>>
extractVars == <<bankVars, landVars, storeVars, sweepVars, boot, step, late, failures>>

Largest(S) == CHOOSE x \in S : \A y \in S : y <= x

ExtractInit ==
  /\ clock = TICKS + 1 /\ src = [id \in Ids |-> [upd |-> 0, val |-> 0]]
  /\ open = [id \in Ids |-> 0] /\ changes = 0
  /\ region = 1 /\ geo = 0 /\ fingerprint = 0
  /\ bronze = {}
  /\ older = {} /\ newest = [wm |-> 0, id |-> 0]
  /\ boot = TRUE
  /\ step = [s \in Sweepers |-> "idle"]
  /\ since = [s \in Sweepers |-> 0] /\ cursor = [s \in Sweepers |-> 0]
  /\ pages = [s \in Sweepers |-> 0] /\ pageWatermark = [s \in Sweepers |-> 0]
  /\ served = 0 /\ late = {} /\ failures = 0

\* The loop asks for a full sweep once, however that ends (run_extract catches).
Booted(s) == boot' = (boot /\ s # Loop)
Failure == failures < MaxFailures /\ failures' = failures + 1
Goto(s, label) == step' = [step EXCEPT ![s] = label]

\* A sweep is over, and its locals are gone.
End(s) ==
  /\ Goto(s, "idle")
  /\ since' = [since EXCEPT ![s] = 0] /\ cursor' = [cursor EXCEPT ![s] = 0]
  /\ pages' = [pages EXCEPT ![s] = 0] /\ pageWatermark' = [pageWatermark EXCEPT ![s] = 0]
-----------------------------------------------------------------------------
(* The bank (nexabank/backend).                                             *)

Tick ==
  /\ clock < MaxClock /\ clock' = clock + 1
  /\ UNCHANGED <<src, open, changes, region, landVars, storeVars, sweepVars, boot, step, late, failures>>

\* A statement stamps the record it writes, and its transaction holds the record's
\* lock; others see the change once it commits.
Change(i) ==
  /\ open[i] = 0 /\ changes < MaxChanges /\ changes' = changes + 1
  /\ open' = [open EXCEPT ![i] = clock]
  /\ UNCHANGED <<clock, src, region, landVars, storeVars, sweepVars, boot, step, late, failures>>

\* Too late for a change stamped t to become visible: a watermark of its second or a
\* later one may be stored, or a sweep under way has passed its stamp.
Behind(t) ==
  \/ t <= Second(served)
  \/ \E s \in Sweepers : step[s] = "fetch" /\ t <= since[s]

\* Transactions commit in any order: those that wrote the records S.
Commit(S) ==
  /\ S # {} /\ \A i \in S : open[i] > 0
  /\ src' = [i \in Ids |-> IF i \in S THEN [upd |-> open[i], val |-> src[i].val + 1] ELSE src[i]]
  /\ late' = (late \ S) \cup {i \in S : Behind(open[i])}
  /\ open' = [i \in Ids |-> IF i \in S THEN 0 ELSE open[i]]
  /\ UNCHANGED <<clock, changes, region, landVars, storeVars, sweepVars, boot, step, failures>>

\* A branch is assigned to another region; no record is touched.
MoveBranch ==
  /\ Failure /\ region' = region + 1
  /\ UNCHANGED <<clock, src, open, changes, landVars, storeVars, sweepVars, boot, step, late>>

\* (t, i) comes after the cursor (ts, id); without an id the boundary is exclusive.
After(t, i, ts, id) == t > ts \/ (id # 0 /\ t = ts /\ i > id)

\* Mutant: the cursor's id is ignored, as in `{ gt: since }`.
EligibleByTime(ts, id) == {i \in Ids : src[i].val > 0 /\ src[i].upd > ts}

\* keysetWhere: the records after a cursor.
Eligible(ts, id) == {i \in Ids : src[i].val > 0 /\ After(src[i].upd, i, ts, id)}

\* Mutant: pages in the order of the id alone.
PageById(ts, id) ==
  {i \in Eligible(ts, id) : Cardinality({j \in Eligible(ts, id) : j < i}) < PAGE_SIZE}

\* orderBy, take: the first PAGE_SIZE of them.
Page(ts, id) ==
  {i \in Eligible(ts, id) :
     Cardinality({j \in Eligible(ts, id) : After(src[i].upd, i, src[j].upd, j)}) < PAGE_SIZE}

\* nextWatermark, nextCursorId: the last record of a page.
LastOf(P) == CHOOSE i \in P : \A j \in P : ~After(src[j].upd, j, src[i].upd, i)
-----------------------------------------------------------------------------
(* A sweep (core_banking.run).                                              *)

\* Any request to the bank or to ClickHouse may raise, which ends the sweep.
Fail(s) ==
  /\ step[s] # "idle" /\ Failure /\ End(s) /\ Booted(s)
  /\ UNCHANGED <<bankVars, landVars, storeVars, late>>

\* Branches first: all of them are landed.
Start(s) ==
  /\ step[s] = "idle"
  /\ geo' = region
  /\ Goto(s, "branches")
  /\ UNCHANGED <<bankVars, bronze, served, storeVars, sweepVars, boot, late, failures>>

\* write_watermark: a row that replaces the others once the parts are merged.
WriteWatermark(wm, id) ==
  /\ older' = older \cup {newest.wm}
  /\ newest' = [wm |-> Second(wm), id |-> id]

\* _invalidate_on_branch_change
Invalidate(s) ==
  /\ step[s] = "branches"
  /\ IF fingerprint = geo THEN UNCHANGED storeVars
                          ELSE WriteWatermark(0, 0) /\ fingerprint' = geo
  /\ Goto(s, "watermark")
  /\ UNCHANGED <<bankVars, landVars, sweepVars, boot, late, failures>>

\* The feeds are reset, but the new fingerprint could not be stored.
InvalidateFails(s) ==
  /\ step[s] = "branches" /\ fingerprint # geo /\ Failure
  /\ WriteWatermark(0, 0) /\ End(s) /\ Booted(s)
  /\ UNCHANGED <<bankVars, landVars, fingerprint, late>>

Fetching(s, wm) ==
  /\ since' = [since EXCEPT ![s] = wm]
  /\ pageWatermark' = [pageWatermark EXCEPT ![s] = wm]
  /\ pages' = [pages EXCEPT ![s] = 0]

\* A full sweep reads from the beginning: the loop's first, and on request.
ReadFull(s) ==
  /\ step[s] = "watermark" /\ (s = Loop => boot)
  /\ Fetching(s, 0) /\ cursor' = [cursor EXCEPT ![s] = 0]
  /\ Booted(s)
  /\ Goto(s, "fetch")
  /\ UNCHANGED <<bankVars, landVars, storeVars, late, failures>>

\* read_watermark: max(watermark), without FINAL.
ReadWatermark(s) ==
  /\ step[s] = "watermark" /\ (s = Loop => ~boot)
  /\ Fetching(s, Largest(older \cup {newest.wm}))
  /\ Goto(s, "cursor")
  /\ UNCHANGED <<bankVars, landVars, storeVars, boot, cursor, late, failures>>

\* read_cursor_id: of the newest row, with FINAL; none if the query raises.
ReadCursor(s) ==
  /\ step[s] = "cursor"
  /\ \/ cursor' = [cursor EXCEPT ![s] = newest.id] /\ UNCHANGED failures
     \/ cursor' = [cursor EXCEPT ![s] = 0] /\ Failure
  /\ Goto(s, "fetch")
  /\ UNCHANGED <<bankVars, landVars, storeVars, boot, since, pages, pageWatermark, late>>

\* The row landed for record i, with the region of its branch.
Row(i) == [id |-> i, val |-> src[i].val, region |-> region]

\* A page is requested, landed, and the cursor moves to its last record.  Nobody
\* but the sweep sees the page in between.
FetchPage(s) ==
  /\ step[s] = "fetch"
  /\ LET P == Page(since[s], cursor[s]) last == LastOf(P) IN
       \/ /\ P = {} /\ Goto(s, "save")
          /\ UNCHANGED <<bronze, served, since, cursor, pages, pageWatermark>>
       \/ /\ P # {}
          /\ bronze' = bronze \cup {Row(i) : i \in P}
          /\ served' = IF src[last].upd > served THEN src[last].upd ELSE served
          /\ since' = [since EXCEPT ![s] = src[last].upd]
          /\ cursor' = [cursor EXCEPT ![s] = last]
          /\ pageWatermark' = [pageWatermark EXCEPT ![s] =
               IF src[last].upd > @ THEN src[last].upd ELSE @]
          /\ pages' = [pages EXCEPT ![s] = @ + 1]
          /\ Goto(s, IF Cardinality(P) < PAGE_SIZE \/ pages[s] + 1 >= MAX_PAGES
                       THEN "save" ELSE "fetch")
  /\ UNCHANGED <<bankVars, geo, storeVars, boot, late, failures>>

\* The page is in, but the insert raised: what it served is landed, the sweep ends.
PageFails(s) ==
  /\ step[s] = "fetch" /\ Failure
  /\ LET P == Page(since[s], cursor[s]) IN
       /\ P # {}
       /\ bronze' = bronze \cup {Row(i) : i \in P}
       /\ served' = Largest({src[i].upd : i \in P} \cup {served})
  /\ End(s)
  /\ UNCHANGED <<bankVars, geo, storeVars, boot, late>>

Save(s) ==
  /\ step[s] = "save"
  /\ WriteWatermark(pageWatermark[s], cursor[s])
  /\ End(s)
  /\ UNCHANGED <<bankVars, landVars, fingerprint, boot, late, failures>>
-----------------------------------------------------------------------------
(* ClickHouse merges parts of the watermark table when it likes: of rows    *)
(* merged together, the newest stays.                                       *)
Merge ==
  \E wm \in older :
    /\ older' = older \ {wm}
    /\ UNCHANGED <<newest, fingerprint, bankVars, landVars, sweepVars, boot, step, late, failures>>

ServiceRestarts ==
  /\ Failure
  /\ step' = [s \in Sweepers |-> "idle"] /\ boot' = TRUE
  /\ since' = [s \in Sweepers |-> 0] /\ cursor' = [s \in Sweepers |-> 0]
  /\ pages' = [s \in Sweepers |-> 0] /\ pageWatermark' = [s \in Sweepers |-> 0]
  /\ UNCHANGED <<bankVars, landVars, storeVars, late>>

SweepStep(s) ==
  \/ Start(s) \/ Invalidate(s) \/ ReadFull(s) \/ ReadWatermark(s) \/ ReadCursor(s)
  \/ FetchPage(s) \/ Save(s)

ExtractNext ==
  \/ Tick \/ \E i \in Ids : Change(i)
  \/ \E S \in SUBSET Ids : Commit(S)
  \/ MoveBranch \/ Merge \/ ServiceRestarts
  \/ \E s \in Sweepers : SweepStep(s) \/ Fail(s) \/ InvalidateFails(s) \/ PageFails(s)

ExtractSpec == ExtractInit /\ [][ExtractNext]_extractVars

\* The extract loop sweeps for ever, at its interval; transactions commit.
FairExtract == ExtractSpec /\ WF_extractVars(\E S \in SUBSET Ids : Commit(S)) /\ WF_extractVars(SweepStep(Loop))
-----------------------------------------------------------------------------
ExtractTypes ==
  /\ clock \in Nat
  /\ src \in [Ids -> [upd : Nat, val : Nat]]
  /\ open \in [Ids -> Nat] /\ changes \in Nat
  /\ region \in Nat /\ geo \in Nat /\ fingerprint \in Nat
  /\ bronze \subseteq [id : Ids, val : Nat, region : Nat]
  /\ older \subseteq Nat /\ newest \in [wm : Nat, id : Ids \cup {0}]
  /\ boot \in BOOLEAN
  /\ step \in [Sweepers -> {"idle", "branches", "watermark", "cursor", "fetch", "save"}]
  /\ since \in [Sweepers -> Nat] /\ cursor \in [Sweepers -> Ids \cup {0}]
  /\ pages \in [Sweepers -> 0 .. MAX_PAGES] /\ pageWatermark \in [Sweepers -> Nat]
  /\ served \in Nat /\ late \subseteq Ids /\ failures \in Nat

Landed(i) == \E row \in bronze : row.id = i /\ row.val = src[i].val

\* A sweep that starts now finds every change that is not yet landed, except those
\* whose transaction committed after a change of a later second was served, or while a
\* sweep had passed its stamp: whatever the order of the commits, the pages, the
\* truncated watermark, the two ways to read it, restarts, failures and concurrent
\* sweeps do, the keyset cursor skips nothing else.
OnlyLateChangesAreSkipped ==
  \A i \in Ids \ late : src[i].val > 0 =>
    Landed(i) \/ i \in Eligible(Largest(older \cup {newest.wm}), newest.id)

\* However often sweeps fail, are restarted or overtake each other: once the bank
\* is quiet, every change that is not late is landed, although only the first sweep of
\* the loop after a start reads from the beginning.
BronzeCatchesUp ==
  []<>(\A i \in Ids \ late : src[i].val > 0 => Landed(i))

\* "When the branch fingerprint changes, reset those feeds' watermarks so the next
\* load re-reads in full" (core_banking.py:165-166): once no sweep runs and the new
\* fingerprint is stored, either every row carries the new region or the next load
\* starts from the beginning.
BranchChangeIsReread ==
  (\A s \in Sweepers : step[s] = "idle") =>
    \/ Largest(older \cup {newest.wm}) = 0
    \/ \A i \in Ids : src[i].val > 0 /\ Landed(i) =>
         \E row \in bronze : row.id = i /\ row.region >= fingerprint
=============================================================================
