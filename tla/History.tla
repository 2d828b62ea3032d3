------------------------------ MODULE History -------------------------------
(***************************************************************************)
(* The history panel over the ledger it pages through: history.py with its *)
(* endpoint (WhiteboardHistoryView in api.py) and the page's history.ts,   *)
(* composed with WhiteboardLedger, whose requests go on while pages of the *)
(* history are on their way.                                               *)
(*                                                                         *)
(* The panel is one page's.  What it tells is the sequence of ledger        *)
(* sequences its entries stand for, newest first; an entry is a run of it, *)
(* and texts, counts and times follow from that.  Whether two operations are told as    *)
(* one activity (same type, same actor, a type that collapses) is given by *)
(* Alike; the panel looks at nothing else of an operation.  Closing only   *)
(* hides the panel, and opening it again starts afresh, so Open stands for *)
(* both.  Revert is the ledger's Restore, which takes any target.          *)
(***************************************************************************)
EXTENDS WhiteboardLedger, FiniteSets

CONSTANTS
  Alike,            \* sets of ids of one collapsible type by one actor
  PageLimit,        \* PAGE_LIMIT, the limit the page asks for
  MaxOpens,         \* bound: how often the panel is opened
  MaxLoads          \* bound: loads under way at once

ASSUME PanelAssumption == /\ Alike \subseteq SUBSET Ids
                          /\ PageLimit \in Nat \ {0}
                          /\ MaxOpens \in Nat /\ MaxLoads \in Nat

VARIABLES
  opens,            \* how often the panel was opened
  told,             \* what the entries shown stand for
  oldest,           \* oldestSequenceSeen, 0 for null
  more,             \* the "load more" button is shown
  loads,            \* GET history under way: [before, version], version
                    \* Unread until the server has fetched its instance
  overlapped        \* a load of this opening ran beside another load

panelVars == <<opens, told, oldest, more, loads, overlapped>>

Unread == -1

PanelInit ==
  /\ opens = 0 /\ told = <<>> /\ oldest = 0 /\ more = FALSE
  /\ loads = <<>> /\ overlapped = FALSE

-----------------------------------------------------------------------------
(* build_history.                                                           *)

ToldAsOne(s, t) ==
  LET Id(n) == (CHOOSE r \in ops : r.seq = n).op.id
  IN  \E A \in Alike : {Id(s), Id(t)} \subseteq A

\* Mutant: a page starts with the operation the last one ended with.
UpperInclusive(load) == IF load.before > 0 THEN load.before ELSE load.version

\* The newest sequence of the page: what came before the one seen last, or
\* the version of the instance.
Upper(load) == IF load.before > 0 THEN load.before - 1 ELSE load.version

\* The newest PageLimit operations up to there, newest first.
PageOf(load) ==
  LET newest == IF Upper(load) <= version THEN Upper(load) ELSE version
      size == IF newest <= PageLimit THEN newest ELSE PageLimit
  IN [k \in 1..size |-> newest + 1 - k]

\* Where the entries of a page start: a run of like operations is one entry.
Starts(page) == {k \in DOMAIN page : k = 1 \/ ~ToldAsOne(page[k-1], page[k])}

-----------------------------------------------------------------------------
(* The panel.                                                               *)

\* loadPage: one more request, beside those under way.
LoadPage(before) == loads' = Append(loads, [before |-> before, version |-> Unread])

\* The trigger empties the list; answers still due to an earlier opening are
\* not told apart from this one's.
Open ==
  /\ opens < MaxOpens /\ Len(loads) < MaxLoads
  /\ opens' = opens + 1
  /\ told' = <<>> /\ oldest' = 0
  /\ overlapped' = (loads # <<>>)
  /\ LoadPage(0)
  /\ UNCHANGED more

Without(requests, i) ==
  SubSeq(requests, 1, i - 1) \o SubSeq(requests, i + 1, Len(requests))

\* Nothing disables the button while a load is under way.
LoadMore ==
  /\ more
  /\ Len(loads) < MaxLoads
  /\ overlapped' = (overlapped \/ loads # <<>>)
  /\ LoadPage(oldest)
  /\ UNCHANGED <<opens, told, oldest, more>>

\* The server fetches the whiteboard of the request; the version counts only
\* for the first page.
Awaited(load) == load.before = 0 /\ load.version = Unread

ReadInstance(i) ==
  /\ Awaited(loads[i])
  /\ loads' = [loads EXCEPT ![i].version = version]
  /\ UNCHANGED <<opens, told, oldest, more, overlapped>>

\* Mutant: the button goes by the number of operations, not of entries.
FullOfOperations(page) == Len(page) = PageLimit

\* A page of PageLimit entries may not be the last.
Full(page) == Cardinality(Starts(page)) = PageLimit

\* The oldest sequence that names an entry: its newest operation's.
OldestOf(page) ==
  LET known == {page[k] : k \in Starts(page)} \cup ({oldest} \ {0})
  IN  IF known = {} THEN 0 ELSE CHOOSE s \in known : \A t \in known : s <= t

\* The query runs and the page renders what it returns, in whatever order
\* answers arrive.  Rows up to the version read never change, so the query
\* and the rendering are one step.
Render(i) ==
  /\ ~Awaited(loads[i])
  /\ LET page == PageOf(loads[i])
     IN  /\ told' = told \o page
         /\ oldest' = OldestOf(page)
         /\ more' = Full(page)
  /\ loads' = Without(loads, i)
  /\ UNCHANGED <<opens, overlapped>>

\* The request fails: what is shown stays, the button goes.
LoadFails(i) ==
  /\ more' = FALSE
  /\ loads' = Without(loads, i)
  /\ UNCHANGED <<opens, told, oldest, overlapped>>

Panel ==
  \/ Open
  \/ LoadMore
  \/ \E i \in DOMAIN loads : ReadInstance(i) \/ Render(i) \/ LoadFails(i)

HistoryInit == Init /\ PanelInit

HistoryNext ==
  \/ Next /\ UNCHANGED panelVars
  \/ Panel /\ UNCHANGED vars

HistorySpec == HistoryInit /\ [][HistoryNext]_<<vars, panelVars>> /\ Fairness

-----------------------------------------------------------------------------
(* Properties.                                                              *)

\* As long as its loads do not overlap, the panel tells every operation once
\* and leaves none out between the first it tells and the last: page after
\* page, while the ledger grows, and although a page's entries do not say
\* where its last run ends (history.ts:110-114 pages from the newest operation
\* of that run, which is the end of it only because a page with a collapsed
\* run never offers another).
ToldOnce ==
  ~overlapped => \A k \in 2..Len(told) : told[k] = told[k-1] - 1

=============================================================================
