----------------------------- MODULE GoalPaging -----------------------------
(***************************************************************************)
(* The listing of goals, list_goals in src/src/agentic_runner/api.py: a    *)
(* client asks for one page after the other, newest first, each from the   *)
(* cursor the last one gave it, while goals are created and change their   *)
(* status.  The cursor is the id of the last goal of a page; the next page *)
(* holds goals whose started_at is less than that goal's.                  *)
(*                                                                         *)
(* started_at is taken from the clock when the row is built and is seen by *)
(* others when it is committed.  Rows with one started_at come in any      *)
(* order, for nothing else is asked of the database.  A goal is known by   *)
(* its id; the phase stands for its status, which only moves on.           *)
(***************************************************************************)
EXTENDS Integers, Sequences, FiniteSets

CONSTANTS
  Goals,      \* the ids of goals
  None,       \* no goal
  Limits,     \* the limits a client may ask for
  Phases,     \* the statuses of a goal, as the numbers it goes through
  MaxClock    \* bound of the clock

ASSUME NoneAssumption  == None \notin Goals
ASSUME LimitAssumption == Limits \subseteq Nat \ {0}
ASSUME ClockAssumption == MaxClock \in Nat /\ Phases \subseteq Nat \ {0}

VARIABLES
  clock,      \* the wall clock
  stamp,      \* started_at of each goal, 0 for a goal there is not
  phase,      \* the status of each committed goal, 0 for one not committed
  limit,      \* what the client asks for: a limit
  filter,     \* and a status, 0 for any
  cursor,     \* next_cursor of the last page
  pages,      \* the pages the client got
  listing,    \* "idle", "reading" or "done"
  there       \* history: the goals the listing may not miss

table  == <<clock, stamp, phase>>
client == <<limit, filter, cursor, pages, listing, there>>
lvars  == <<table, client>>

Committed  == {g \in Goals : phase[g] > 0}
Matches(g) == filter = 0 \/ phase[g] = filter
Shown      == UNION {pages[i] : i \in DOMAIN pages}

LInit ==
  /\ clock = 1
  /\ stamp = [g \in Goals |-> 0] /\ phase = [g \in Goals |-> 0]
  /\ limit \in Limits /\ filter \in Phases \cup {0}
  /\ cursor = None /\ pages = <<>> /\ listing = "idle" /\ there = {}
-----------------------------------------------------------------------------
(* create_goal and the threads of the goals. *)

Tick ==
  /\ clock < MaxClock /\ clock' = clock + 1
  /\ UNCHANGED <<stamp, phase, client>>

\* The column default is evaluated.
BuildRow(g) ==
  /\ stamp[g] = 0
  /\ stamp' = [stamp EXCEPT ![g] = clock]
  /\ UNCHANGED <<clock, phase, client>>

CommitRow(g) ==
  /\ stamp[g] > 0 /\ phase[g] = 0
  /\ phase' = [phase EXCEPT ![g] = 1]
  /\ UNCHANGED <<clock, stamp, client>>

\* The goal gets another status; one that no longer matches may be missed.
MoveOn(g) ==
  /\ phase[g] > 0 /\ phase[g] + 1 \in Phases
  /\ phase' = [phase EXCEPT ![g] = @ + 1]
  /\ there' = IF filter = 0 THEN there ELSE there \ {g}
  /\ UNCHANGED <<clock, stamp, limit, filter, cursor, pages, listing>>
-----------------------------------------------------------------------------
(* list_goals. *)

\* Mutant of Candidates: the page starts with the goal of the cursor.
CandidatesFromCursor ==
  {g \in Committed : Matches(g) /\ (cursor # None => stamp[g] <= stamp[cursor])}

\* What the query may return.
Candidates ==
  {g \in Committed : Matches(g) /\ (cursor # None => stamp[g] < stamp[cursor])}

\* The first n rows of S, by started_at descending.
FirstRows(S, n) ==
  {P \in SUBSET S : /\ Cardinality(P) = (IF Cardinality(S) < n THEN Cardinality(S) ELSE n)
                    /\ \A g \in P, h \in S \ P : stamp[g] >= stamp[h]}

\* A row that may be the last of P.
LastRows(P) == {g \in P : \A h \in P : stamp[g] <= stamp[h]}

\* Mutant of NextCursors: the goal that was read to see if there are more is
\* the cursor.
NextCursorsOff(page, rest) ==
  IF rest = {} THEN {None} ELSE {g \in rest : \A h \in rest : stamp[g] >= stamp[h]}

\* The cursor after a page: one row more than the limit was asked for, and if
\* it was there the cursor is the last row of the page.
NextCursors(page, rest) == IF rest = {} THEN {None} ELSE LastRows(page)

\* One request and its answer.  The client is done when there is no cursor.
GetPage ==
  /\ listing # "done"
  /\ \E page \in FirstRows(Candidates, limit) :
       /\ pages' = Append(pages, page)
       /\ cursor' \in NextCursors(page, Candidates \ page)
  /\ listing' = IF cursor' = None THEN "done" ELSE "reading"
  /\ there' = IF listing = "idle" THEN Candidates ELSE there
  /\ UNCHANGED <<table, limit, filter>>

Rest == listing = "done" /\ UNCHANGED lvars
-----------------------------------------------------------------------------
LNext ==
  \/ Tick \/ GetPage \/ Rest
  \/ \E g \in Goals : BuildRow(g) \/ CommitRow(g) \/ MoveOn(g)

LSpec == LInit /\ [][LNext]_lvars
-----------------------------------------------------------------------------
(* Properties. *)

\* Every variable has its type.
LTypeOK ==
  /\ clock \in Nat /\ stamp \in [Goals -> Nat] /\ phase \in [Goals -> Nat]
  /\ limit \in Limits /\ filter \in Phases \cup {0}
  /\ cursor \in Goals \cup {None}
  /\ pages \in Seq(SUBSET Goals)
  /\ listing \in {"idle", "reading", "done"}
  /\ there \subseteq Goals

\* No goal is listed twice, and a page holds older goals than the one before
\* it, though goals are created and committed between the requests, late ones
\* with an earlier started_at too.
PagesDescend ==
  \A i, j \in DOMAIN pages : i < j =>
    \A g \in pages[i], h \in pages[j] : stamp[g] > stamp[h]

\* No goal that was there when the listing began, and matched all the time, is
\* missed, but for one that shares its started_at with the last goal of a page.
NothingMissed ==
  listing = "done" =>
    \A g \in there \ Shown :
      \E i \in DOMAIN pages : \E h \in LastRows(pages[i]) : stamp[h] = stamp[g]
=============================================================================
