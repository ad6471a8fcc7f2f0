-------------------------- MODULE GoalPagingProofs --------------------------
(***************************************************************************)
(* The listing of goals (GoalPaging), for every number of goals, every     *)
(* limit and every clock: its pages descend, and it misses no goal but one *)
(* that ties with the last of a page.                                      *)
(***************************************************************************)
EXTENDS GoalPaging, TLAPS

\* What was shown is committed, so that its started_at stays as it is, and it is
\* not older than the goal of the cursor, with which the next page is compared.
PagesInv ==
  /\ LTypeOK
  /\ \A g \in Goals : phase[g] > 0 => stamp[g] > 0
  /\ \A i \in DOMAIN pages : \A g \in pages[i] :
       /\ phase[g] > 0
       /\ cursor # None => stamp[g] >= stamp[cursor]
  /\ listing = "idle" => pages = <<>>
  /\ listing = "reading" => cursor # None
  /\ cursor # None => phase[cursor] > 0
  /\ PagesDescend

USE NoneAssumption, LimitAssumption, ClockAssumption

LEMMA PagesInit == LInit => PagesInv
  BY DEF LInit, PagesInv, LTypeOK, PagesDescend

\* Goals come and go on; what was shown keeps its place.
LEMMA TableStep ==
  ASSUME PagesInv, NEW h \in Goals, Tick \/ BuildRow(h) \/ CommitRow(h) \/ MoveOn(h)
  PROVE  PagesInv'
<1>1. UNCHANGED <<limit, filter, cursor, pages, listing>>
  BY DEF Tick, BuildRow, CommitRow, MoveOn, client
<1>2. \A g \in Goals : phase[g] > 0 => stamp'[g] = stamp[g] /\ phase'[g] > 0
  BY DEF Tick, BuildRow, CommitRow, MoveOn, client, PagesInv, LTypeOK
<1>3. LTypeOK'
  <2>1. clock' \in Nat /\ stamp' \in [Goals -> Nat]
    BY DEF Tick, BuildRow, CommitRow, MoveOn, client, PagesInv, LTypeOK
  <2>2. phase' \in [Goals -> Nat]
    BY DEF Tick, BuildRow, CommitRow, MoveOn, client, PagesInv, LTypeOK
  <2>3. there' \subseteq Goals
    BY DEF Tick, BuildRow, CommitRow, MoveOn, client, PagesInv, LTypeOK
  <2> QED
    BY <1>1, <2>1, <2>2, <2>3 DEF PagesInv, LTypeOK
<1>4. \A g \in Goals : phase'[g] > 0 => stamp'[g] > 0
  BY DEF Tick, BuildRow, CommitRow, MoveOn, client, PagesInv, LTypeOK
<1>5. \A i \in DOMAIN pages : pages[i] \subseteq Goals
  BY DEF PagesInv, LTypeOK
<1>6. \A i \in DOMAIN pages : \A g \in pages[i] :
        g \in Goals /\ phase[g] > 0 /\ stamp'[g] = stamp[g] /\ phase'[g] > 0
  BY <1>2, <1>5 DEF PagesInv
<1>7. cursor # None => cursor \in Goals /\ stamp'[cursor] = stamp[cursor] /\ phase'[cursor] > 0
  BY <1>2 DEF PagesInv, LTypeOK
<1>8. PagesDescend'
  BY <1>1, <1>6 DEF PagesInv, PagesDescend
<1> QED
  BY <1>1, <1>3, <1>4, <1>6, <1>7, <1>8 DEF PagesInv

\* The new page is older than all before it, and the new cursor is the oldest
\* of the new page.
LEMMA GetPageStep ==
  ASSUME PagesInv, GetPage
  PROVE  PagesInv'
<1> PICK page \in FirstRows(Candidates, limit) :
      /\ pages' = Append(pages, page)
      /\ cursor' \in NextCursors(page, Candidates \ page)
  BY DEF GetPage
<1>1. /\ page \subseteq Candidates
      /\ Candidates \subseteq Goals
      /\ \A g \in Candidates : phase[g] > 0 /\ (cursor # None => stamp[g] < stamp[cursor])
  BY DEF FirstRows, Candidates, Committed
<1>2. UNCHANGED <<clock, stamp, phase, limit, filter>>
  BY DEF GetPage, table
<1>3. /\ listing # "done"
      /\ listing' = IF cursor' = None THEN "done" ELSE "reading"
      /\ there' \in {Candidates, there}
  BY DEF GetPage
<1>4. cursor' # None => cursor' \in page /\ \A g \in page : stamp[cursor'] <= stamp[g]
  BY DEF NextCursors, LastRows
<1>5. /\ pages \in Seq(SUBSET Goals) /\ Len(pages) \in Nat
      /\ DOMAIN pages = 1 .. Len(pages)
      /\ pages' \in Seq(SUBSET Goals)
      /\ DOMAIN pages' = 1 .. Len(pages) + 1
      /\ pages'[Len(pages) + 1] = page
      /\ \A i \in DOMAIN pages : pages'[i] = pages[i]
  BY <1>1 DEF PagesInv, LTypeOK
<1>6. LTypeOK'
  BY <1>1, <1>2, <1>3, <1>4, <1>5 DEF PagesInv, LTypeOK
<1>7. \A i \in DOMAIN pages : \A g \in pages[i] :
        g \in Goals /\ phase[g] > 0 /\ \A h \in page : stamp[g] > stamp[h]
  <2>1. \A i \in DOMAIN pages : pages[i] \subseteq Goals /\ \A g \in pages[i] : phase[g] > 0
    BY <1>5 DEF PagesInv
  <2>2. CASE cursor = None
    BY <2>2, <1>3 DEF PagesInv, LTypeOK
  <2>3. CASE cursor # None
    <3> SUFFICES ASSUME NEW i \in DOMAIN pages, NEW g \in pages[i], NEW h \in page
                 PROVE  stamp[g] > stamp[h]
      BY <2>1
    <3>1. g \in Goals /\ h \in Goals /\ cursor \in Goals
      BY <1>1, <2>1, <2>3 DEF PagesInv, LTypeOK
    <3>2. stamp[g] \in Nat /\ stamp[h] \in Nat /\ stamp[cursor] \in Nat
      BY <3>1 DEF PagesInv, LTypeOK
    <3>3. stamp[g] >= stamp[cursor]
      BY <2>3 DEF PagesInv
    <3>4. stamp[h] < stamp[cursor]
      BY <1>1, <2>3
    <3> QED
      BY <3>2, <3>3, <3>4
  <2> QED
    BY <2>2, <2>3
<1>8. PagesDescend'
  <2> SUFFICES ASSUME NEW i \in DOMAIN pages', NEW j \in DOMAIN pages', i < j,
                      NEW g \in pages'[i], NEW h \in pages'[j]
               PROVE  stamp[g] > stamp[h]
    BY <1>2 DEF PagesDescend
  <2>1. i \in DOMAIN pages
    BY <1>5
  <2>2. CASE j = Len(pages) + 1
    BY <1>5, <1>7, <2>1, <2>2
  <2>3. CASE j # Len(pages) + 1
    <3>1. j \in DOMAIN pages
      BY <1>5, <2>3
    <3> QED
      BY <1>5, <2>1, <3>1 DEF PagesInv, PagesDescend
  <2> QED
    BY <2>2, <2>3
<1>9. ASSUME NEW i \in DOMAIN pages', NEW g \in pages'[i]
      PROVE  phase'[g] > 0 /\ (cursor' # None => stamp'[g] >= stamp'[cursor'])
  <2>1. CASE i = Len(pages) + 1
    <3>1. g \in page /\ g \in Goals /\ phase[g] > 0
      BY <1>1, <1>5, <2>1
    <3>2. cursor' # None => cursor' \in Goals /\ stamp[cursor'] <= stamp[g]
      BY <1>1, <1>4, <3>1
    <3> QED
      BY <1>2, <3>1, <3>2 DEF PagesInv, LTypeOK
  <2>2. CASE i # Len(pages) + 1
    <3>1. i \in DOMAIN pages /\ g \in pages[i]
      BY <1>5, <2>2
    <3>2. phase[g] > 0 /\ g \in Goals /\ \A h \in page : stamp[g] > stamp[h]
      BY <1>7, <3>1
    <3>3. cursor' # None => cursor' \in Goals /\ stamp[g] > stamp[cursor']
      BY <1>1, <1>4, <3>2
    <3> QED
      BY <1>2, <3>2, <3>3 DEF PagesInv, LTypeOK
  <2> QED
    BY <2>1, <2>2
<1>10. cursor' # None => phase'[cursor'] > 0
  BY <1>1, <1>2, <1>4
<1>11. \A g \in Goals : phase'[g] > 0 => stamp'[g] > 0
  BY <1>2 DEF PagesInv
<1> QED
  BY <1>3, <1>6, <1>8, <1>9, <1>10, <1>11 DEF PagesInv

LEMMA PagesStep ==
  ASSUME PagesInv, [LNext]_lvars
  PROVE  PagesInv'
<1>1. CASE UNCHANGED lvars \/ Rest
  BY <1>1 DEF Rest, lvars, table, client, PagesInv, LTypeOK, PagesDescend
<1>2. CASE GetPage
  BY <1>2, GetPageStep
<1>3. ASSUME NEW h \in Goals, BuildRow(h) \/ CommitRow(h) \/ MoveOn(h)
      PROVE  PagesInv'
  BY <1>3, TableStep
<1>4. ASSUME Tick, Goals # {}
      PROVE  PagesInv'
  BY <1>4, TableStep
<1>5. ASSUME Tick, Goals = {}
      PROVE  PagesInv'
  BY <1>5 DEF Tick, client, PagesInv, LTypeOK, PagesDescend
<1> QED
  BY <1>1, <1>2, <1>3, <1>4, <1>5 DEF LNext

\* No goal is listed twice and the pages go back in time, whatever is created
\* between the requests.
THEOREM ListingDescends == LSpec => []PagesDescend
<1>1. LSpec => []PagesInv
  BY PagesInit, PagesStep, PTL DEF LSpec
<1>2. PagesInv => PagesDescend
  BY DEF PagesInv
<1> QED
  BY <1>1, <1>2, PTL
-----------------------------------------------------------------------------
Tied(g) == \E i \in DOMAIN pages : \E h \in LastRows(pages[i]) : stamp[h] = stamp[g]

\* A goal the listing owes is shown, or ties with the last of a page, or is still
\* to come: it matches and is older than the goal of the cursor.
OwedInv ==
  /\ listing = "done" => cursor = None
  /\ listing # "idle" =>
       \A g \in there \ Shown :
         \/ Tied(g)
         \/ cursor # None /\ phase[g] > 0 /\ Matches(g) /\ stamp[g] < stamp[cursor]

LEMMA OwedInit == LInit => OwedInv
  BY DEF LInit, OwedInv

\* A goal that changes its status is owed only if any status matches.
LEMMA OwedTable ==
  ASSUME PagesInv, OwedInv, NEW h \in Goals, Tick \/ BuildRow(h) \/ CommitRow(h) \/ MoveOn(h)
  PROVE  OwedInv'
<1>1. /\ UNCHANGED <<limit, filter, cursor, pages, listing>>
      /\ there' \subseteq there
      /\ Shown' = Shown
  BY DEF Tick, BuildRow, CommitRow, MoveOn, client, Shown
<1>2. \A g \in Goals : phase[g] > 0 => stamp'[g] = stamp[g] /\ phase'[g] > 0
  BY DEF Tick, BuildRow, CommitRow, MoveOn, client, PagesInv, LTypeOK
<1>3. \A g \in there' : Matches(g) /\ phase[g] > 0 => Matches(g)'
  BY DEF Tick, BuildRow, CommitRow, MoveOn, client, Matches, PagesInv, LTypeOK
<1>4. \A i \in DOMAIN pages : \A g \in pages[i] : g \in Goals /\ stamp'[g] = stamp[g]
  BY <1>2 DEF PagesInv, LTypeOK
<1>5. \A g \in Goals : stamp[g] > 0 => stamp'[g] = stamp[g]
  BY DEF Tick, BuildRow, CommitRow, MoveOn, client, PagesInv, LTypeOK
<1>6. ASSUME NEW g \in Goals, Tied(g)
      PROVE  Tied(g)'
  <2>1. PICK i \in DOMAIN pages : \E k \in LastRows(pages[i]) : stamp[k] = stamp[g]
    BY <1>6 DEF Tied
  <2> PICK k \in LastRows(pages[i]) : stamp[k] = stamp[g]
    BY <2>1
  <2>2. k \in LastRows(pages[i])'
    BY <1>1, <1>4 DEF LastRows
  <2>3. phase[k] > 0 /\ k \in Goals /\ stamp[k] > 0
    BY DEF LastRows, PagesInv, LTypeOK
  <2>4. stamp'[k] = stamp'[g]
    BY <1>5, <2>3
  <2> QED
    BY <1>1, <2>2, <2>4 DEF Tied
<1>7. cursor # None => cursor \in Goals /\ stamp'[cursor] = stamp[cursor]
  BY <1>2 DEF PagesInv, LTypeOK
<1>8. there \subseteq Goals
  BY DEF PagesInv, LTypeOK
<1>9. ASSUME listing # "idle", NEW g \in there' \ Shown
      PROVE  \/ Tied(g)'
             \/ cursor # None /\ phase'[g] > 0 /\ Matches(g)' /\ stamp'[g] < stamp'[cursor]
  <2>1. g \in Goals /\ g \in there \ Shown
    BY <1>1, <1>8, <1>9
  <2>2. CASE Tied(g)
    BY <1>6, <2>1, <2>2
  <2>3. CASE cursor # None /\ phase[g] > 0 /\ Matches(g) /\ stamp[g] < stamp[cursor]
    BY <1>2, <1>3, <1>7, <1>9, <2>1, <2>3
  <2> QED
    BY <1>9, <2>1, <2>2, <2>3 DEF OwedInv
<1> QED
  BY <1>1, <1>9 DEF OwedInv

\* What a page leaves is older than its last goal, or ties with it.
LEMMA OwedGetPage ==
  ASSUME PagesInv, OwedInv, GetPage
  PROVE  OwedInv'
<1> PICK page \in FirstRows(Candidates, limit) :
      /\ pages' = Append(pages, page)
      /\ cursor' \in NextCursors(page, Candidates \ page)
  BY DEF GetPage
<1>1. /\ UNCHANGED <<stamp, phase, filter>>
      /\ listing # "done"
      /\ listing' = IF cursor' = None THEN "done" ELSE "reading"
      /\ there' = IF listing = "idle" THEN Candidates ELSE there
  BY DEF GetPage, table
<1>2. /\ Candidates \subseteq Goals
      /\ page \subseteq Candidates
      /\ \A g \in page, h \in Candidates \ page : stamp[g] >= stamp[h]
      /\ \A g \in Candidates : phase[g] > 0 /\ Matches(g)
  BY DEF FirstRows, Candidates, Committed
<1>3. /\ DOMAIN pages = 1 .. Len(pages) /\ Len(pages) \in Nat
      /\ DOMAIN pages' = 1 .. Len(pages) + 1
      /\ pages'[Len(pages) + 1] = page
      /\ \A i \in DOMAIN pages : pages'[i] = pages[i]
  BY <1>2 DEF PagesInv, LTypeOK
<1>4. \A g : Tied(g) => Tied(g)'
  BY <1>1, <1>3 DEF Tied, LastRows
<1>5. Shown \cup page \subseteq Shown'
  BY <1>3 DEF Shown
<1>6. ASSUME NEW g \in Candidates \ page
      PROVE  \/ Tied(g)'
             \/ cursor' # None /\ phase'[g] > 0 /\ Matches(g)' /\ stamp'[g] < stamp'[cursor']
  <2>1. cursor' \in LastRows(page)
    BY <1>6 DEF NextCursors
  <2>2. cursor' \in page /\ cursor' \in Goals /\ cursor' # None /\ g \in Goals
    BY <1>2, <2>1 DEF LastRows
  <2>3. stamp[cursor'] \in Nat /\ stamp[g] \in Nat /\ stamp[cursor'] >= stamp[g]
    BY <1>2, <1>6, <2>2 DEF PagesInv, LTypeOK
  <2>4. CASE stamp[cursor'] = stamp[g]
    BY <1>1, <1>3, <2>1, <2>4 DEF Tied, LastRows
  <2>5. CASE stamp[cursor'] # stamp[g]
    BY <1>1, <1>2, <2>2, <2>3, <2>5 DEF Matches
  <2> QED
    BY <2>4, <2>5
<1>7. ASSUME NEW g \in there' \ Shown', ~Tied(g)'
      PROVE  g \in Candidates \ page
  <2>1. g \notin page /\ g \notin Shown /\ ~Tied(g)
    BY <1>4, <1>5, <1>7
  <2>2. CASE listing = "idle"
    BY <1>1, <2>1, <2>2
  <2>3. CASE listing # "idle"
    BY <1>1, <2>1, <2>3 DEF OwedInv, Candidates, Committed, PagesInv, LTypeOK
  <2> QED
    BY <2>2, <2>3
<1>8. listing' = "done" => cursor' = None
  BY <1>1
<1> QED
  BY <1>6, <1>7, <1>8 DEF OwedInv

LEMMA OwedStep ==
  ASSUME PagesInv, OwedInv, [LNext]_lvars
  PROVE  OwedInv'
<1>1. CASE UNCHANGED lvars \/ Rest
  BY <1>1 DEF Rest, lvars, table, client, OwedInv, Tied, Shown, Matches, LastRows
<1>2. CASE GetPage
  BY <1>2, OwedGetPage
<1>3. ASSUME NEW h \in Goals, BuildRow(h) \/ CommitRow(h) \/ MoveOn(h)
      PROVE  OwedInv'
  BY <1>3, OwedTable
<1>4. CASE Tick
  BY <1>4 DEF Tick, client, OwedInv, Tied, Shown, Matches, LastRows
<1> QED
  BY <1>1, <1>2, <1>3, <1>4 DEF LNext

\* A finished listing has shown every goal that was there when it began and
\* matched all the time, but for ties with the last goal of a page.
THEOREM ListingMissesNothing == LSpec => []NothingMissed
<1>1. LInit => PagesInv /\ OwedInv
  BY PagesInit, OwedInit
<1>2. PagesInv /\ OwedInv /\ [LNext]_lvars => (PagesInv /\ OwedInv)'
  BY PagesStep, OwedStep
<1>3. PagesInv /\ OwedInv => NothingMissed
  BY DEF OwedInv, NothingMissed, Tied
<1> QED
  BY <1>1, <1>2, <1>3, PTL DEF LSpec
=============================================================================
