---------------------------- MODULE ThoughtBrowser ----------------------------
(***************************************************************************)
(* The screen of Thoughts: all of them in a bounded window that is moved   *)
(* by batches, or those of one Subject in a plain list; one of them in     *)
(* detail; and the editor of a new one.  Reads and writes are commands     *)
(* that run on their own and answer later, perhaps after a refresh or      *)
(* after the screen was left and opened again, in any order.               *)
(*                                                                         *)
(* A Thought is its place in the order of the store.  Other sessions write *)
(* Thoughts at any place; the mindset designation, of the one Thought      *)
(* Marked, is changed here only.  Of the number of a request it matters    *)
(* whether it is still the last one: "live".  A change of the designation  *)
(* is applied twice, when it is answered and when the MindsetChanged that  *)
(* the answer sends comes back from the root, which nothing compares with  *)
(* the changes since.                                                      *)
(*                                                                         *)
(* Filtering a list, scrolling, the count beside the window, which has a   *)
(* request of its own, the voice draft (SpokenSubject) and the windows     *)
(* inside the cards of the timeline, which have no Create row, are left    *)
(* out.                                                                    *)
(***************************************************************************)
EXTENDS Integers, FiniteSets

CONSTANTS
  MaxThought,  \* Thoughts are numbered in the order in which they were observed
  Present,     \* the Thoughts that are there at first
  Marked,      \* the Thought whose designation is changed
  Batch,       \* data.ThoughtSummaryViewBatchSize
  MaxWire      \* bound: MindsetChanged under way when the designation is changed again

Thought == 1..MaxThought

VARIABLES
  store,    \* the Thoughts of the store, and the designation of Marked
  screen,   \* at: "away", "browse", "create", "detail"; Model.browsingThoughtsView
  rows,     \* browseThoughtsState: rows, index, moreOlder, moreNewer, summariesCurrent
  stale,    \* Model.stale
  busy,     \* Model.loading and mindsetSaving
  picked,   \* Model.selected and its IsMindset; 0 for none
  wire,     \* commands under way, and answers not yet delivered
  changed,  \* how many MindsetChanged of either value are under way
  base,     \* history: what the store held when the rows were read anew
  own,      \* history: Thoughts created here
  overtaken \* history: where a MindsetChanged brought an old designation back

vars == <<store, screen, rows, stale, busy, picked, wire, changed, base, own, overtaken>>

\* Row 0 is "Create thought...", the others follow from the newest.
NoRows == [create |-> TRUE, shown |-> {}, index |-> 1, older |-> FALSE, newer |-> FALSE,
           current |-> FALSE, badge |-> FALSE]
Listed(r) == IF r.create THEN r.shown \cup {0} ELSE r.shown
Place(t, r) == IF t = 0 THEN 1 ELSE Cardinality({u \in Listed(r) : u = 0 \/ u >= t})
Selected(r) == CHOOSE t \in Listed(r) : Place(t, r) = r.index

None == [thought |-> 0, badge |-> FALSE]
Idle == [read |-> FALSE, mindset |-> FALSE]

Init ==
  /\ store = [thoughts |-> Present, mark |-> FALSE]
  /\ screen = [at |-> "away", all |-> FALSE]
  /\ rows = NoRows /\ stale = FALSE /\ busy = Idle
  /\ picked = None
  /\ wire = {} /\ base = {} /\ own = {}
  /\ changed = [mark \in BOOLEAN |-> 0] /\ overtaken = {}

\* No MindsetChanged is sent or arrives.
NoneChanged == UNCHANGED <<changed, overtaken>>

-----------------------------------------------------------------------------
\* Another session adds a Thought, with the time it was observed at.
OtherSession ==
  /\ \E t \in Thought \ store.thoughts : store' = [store EXCEPT !.thoughts = @ \cup {t}]
  /\ UNCHANGED <<screen, rows, stale, busy, picked, wire, base, own>> /\ NoneChanged

-----------------------------------------------------------------------------
\* Commands.  A request makes the answers to the one before it dead, except those of a
\* change of mindset, which is compared by the owner only.
Command(kind, cursor, move) ==
  [kind |-> kind, cursor |-> cursor, move |-> move, live |-> TRUE, ran |-> FALSE,
   seen |-> {}, mark |-> FALSE]
First == 0  \* no cursor

\* What a superseded read sees means nothing any more, and is reset to keep the states few;
\* a creation or a change of mindset goes on.
DeadRead == [Command("window", First, 0) EXCEPT !.live = FALSE, !.ran = TRUE]
Superseded ==
  {CASE m.kind = "mindset" -> m
     [] m.kind = "create" -> [m EXCEPT !.live = FALSE]
     [] OTHER -> DeadRead : m \in wire}
Ask(m) == wire' = Superseded \cup {m}
Store == UNCHANGED <<store, base, own>> /\ NoneChanged

\* reloadBrowseThoughtsView: the rows are dropped.
ReloadWindow ==
  /\ rows' = NoRows
  /\ busy' = [busy EXCEPT !.read = TRUE]
  /\ Ask(Command("window", First, 0))

\* listThoughts: the rows stay until the answer.
ReloadList ==
  /\ busy' = [busy EXCEPT !.read = TRUE]
  /\ Ask(Command("list", First, 0))
  /\ UNCHANGED rows

\* OpenBrowseThoughtsView, Open and OpenUnassigned begin with Reset.
Open ==
  /\ screen.at = "away"
  /\ \E all \in BOOLEAN :
       /\ screen' = [at |-> "browse", all |-> all]
       /\ rows' = NoRows
       /\ busy' = [busy EXCEPT !.read = TRUE]
       /\ Ask(Command(IF all THEN "window" ELSE "list", First, 0))
  /\ stale' = FALSE
  /\ Store /\ UNCHANGED picked

\* Left from its rows only: Reset.
Leave ==
  /\ screen.at = "browse" /\ ~busy.mindset
  /\ screen' = [at |-> "away", all |-> FALSE]
  /\ rows' = NoRows /\ stale' = FALSE /\ busy' = Idle
  /\ picked' = None
  /\ wire' = Superseded
  /\ Store

-----------------------------------------------------------------------------
\* Keys.  None is taken while a mindset is saved; a refresh of the window may supersede a
\* read, anything else waits for it.
Keys(at) == screen.at = at /\ ~busy.mindset /\ Store
Ready(at) == Keys(at) /\ ~busy.read

Refresh ==
  /\ Keys("browse")
  /\ IF screen.all THEN ReloadWindow ELSE ~busy.read /\ ReloadList
  /\ UNCHANGED <<screen, stale, picked>>

\* updateBrowseThoughtsView: a move past a resident edge asks for the batch behind it and
\* is made when that arrives.
Move ==
  /\ Ready("browse") /\ screen.all
  /\ \E move \in {-1, 1} :
       LET to == rows.index + move
           newer == to < 1 /\ rows.newer
           older == to > Cardinality(Listed(rows)) /\ rows.older
       IN IF newer \/ older
          THEN /\ busy' = [busy EXCEPT !.read = TRUE]
               /\ Ask(Command("window", Selected(rows), move))
               /\ UNCHANGED rows
          ELSE /\ to \in 1..Cardinality(Listed(rows))
               /\ rows' = [rows EXCEPT !.index = to]
               /\ UNCHANGED <<busy, wire>>
  /\ UNCHANGED <<screen, stale, picked>>

\* The row acted on; in the plain list any row may be the selected one.
Row == IF screen.all THEN {Selected(rows)} ELSE rows.shown \cup {0}

GetThought(t) ==
  /\ busy' = [busy EXCEPT !.read = TRUE]
  /\ Ask(Command("get", t, 0))
  /\ UNCHANGED <<screen, rows, stale, picked>>

EnterRow ==
  /\ Ready("browse")
  /\ \E t \in Row \ {0} : GetThought(t)

EnterCreate ==
  /\ Ready("browse") /\ 0 \in Row
  /\ screen' = [screen EXCEPT !.at = "create"]
  /\ wire' = Superseded
  /\ UNCHANGED <<rows, stale, busy, picked>>

\* discardDraft: back to the rows as they were.
Discard ==
  /\ Ready("create")
  /\ screen' = [screen EXCEPT !.at = "browse"]
  /\ wire' = Superseded
  /\ UNCHANGED <<rows, stale, busy, picked>>

Save ==
  /\ Ready("create")
  /\ busy' = [busy EXCEPT !.read = TRUE]
  /\ Ask(Command("create", First, 0))
  /\ UNCHANGED <<screen, rows, stale, picked>>

ReloadDetail == Ready("detail") /\ GetThought(picked.thought)

\* Esc cancels a read of the detail, and reads the rows again after a creation.  The Thought
\* picked, which nothing shows any more, is reset to keep the states few.
LeaveDetail ==
  /\ Keys("detail")
  /\ screen' = [screen EXCEPT !.at = "browse"]
  /\ IF ~stale THEN /\ busy' = [busy EXCEPT !.read = FALSE]
                    /\ wire' = Superseded /\ UNCHANGED rows
     ELSE IF screen.all THEN ReloadWindow ELSE ReloadList
  /\ picked' = None /\ UNCHANGED stale

\* Mutant of MayMark: the key is taken while the rows are being read.
MayMarkLoading == screen.at \in {"browse", "detail"} /\ ~busy.mindset
MayMark == screen.at \in {"browse", "detail"} /\ ~busy.mindset /\ ~busy.read

\* setMindset asks for the opposite of what it shows.
SetMindset ==
  /\ MayMark /\ Store /\ changed[TRUE] + changed[FALSE] <= MaxWire
  /\ LET shown == IF screen.at = "detail" THEN picked.badge ELSE rows.badge
     IN /\ Marked \in IF screen.at = "detail" THEN {picked.thought} ELSE Row
        /\ wire' = wire \cup {[Command("mindset", First, 0) EXCEPT !.mark = ~shown]}
  /\ busy' = [busy EXCEPT !.mindset = TRUE]
  /\ UNCHANGED <<screen, rows, stale, picked>>

-----------------------------------------------------------------------------
\* A command runs: a read takes what it sees, a write is done.
Ran(m, answer) == wire' = (wire \ {m}) \cup {[answer EXCEPT !.ran = TRUE]}

Run(m) ==
  /\ ~m.ran
  /\ \/ /\ m.kind \in {"window", "list"} /\ UNCHANGED <<store, own>>
        /\ Ran(m, [m EXCEPT !.seen = store.thoughts, !.mark = store.mark])
     \/ /\ m.kind = "get" /\ UNCHANGED <<store, own>>
        /\ Ran(m, [m EXCEPT !.mark = store.mark])
     \/ /\ m.kind = "create"
        /\ \E t \in Thought \ store.thoughts :
             /\ store' = [store EXCEPT !.thoughts = @ \cup {t}]
             /\ own' = own \cup {t}
             /\ Ran(m, [m EXCEPT !.cursor = t])
     \/ /\ m.kind = "mindset" /\ UNCHANGED own
        /\ store' = [store EXCEPT !.mark = m.mark]
        /\ Ran(m, m)
  /\ UNCHANGED <<screen, rows, stale, busy, picked, base>> /\ NoneChanged

\* browseThoughtSummaries: the batch next to the cursor, and whether there is more behind it.
Behind(m) ==
  {t \in m.seen : IF m.cursor = First THEN TRUE
                  ELSE IF m.move < 0 THEN t > m.cursor ELSE t < m.cursor}
Nearer(m, t, u) == IF m.move < 0 THEN t < u ELSE t > u
Items(m) == {t \in Behind(m) : Cardinality({u \in Behind(m) : Nearer(m, u, t)}) < Batch}
More(m) == Items(m) # Behind(m)

-----------------------------------------------------------------------------
Owned(m) == CASE m.kind = "mindset" -> TRUE
              [] m.kind = "window" -> m.live /\ screen.all
              [] OTHER -> m.live

Take(m) == m.ran /\ Owned(m) /\ wire' = wire \ {m}
Read == busy' = [busy EXCEPT !.read = FALSE]

Drop(m) ==
  /\ ~Owned(m) /\ (m.kind = "create" => m.ran)
  /\ wire' = wire \ {m}
  /\ UNCHANGED <<store, screen, rows, stale, busy, picked, base, own>> /\ NoneChanged

\* Of at most three batches the edge opposite to the new one goes, with the Create row.
Excess(r) == IF Cardinality(r.shown) > 3 * Batch THEN Cardinality(r.shown) - 3 * Batch ELSE 0
Edge(r, n, newest) ==
  {t \in r.shown : Cardinality({u \in r.shown : IF newest THEN u > t ELSE u < t}) < n}

\* Mutant of Evicted: an evicted edge is forgotten.
EvictedForGood(r, newest) ==
  IF Excess(r) = 0 THEN r ELSE [r EXCEPT !.shown = @ \ Edge(r, Excess(r), newest)]
Evicted(r, newest) ==
  IF Excess(r) = 0 THEN r
  ELSE IF newest
  THEN [r EXCEPT !.shown = @ \ Edge(r, Excess(r), TRUE), !.newer = TRUE, !.create = FALSE]
  ELSE [r EXCEPT !.shown = @ \ Edge(r, Excess(r), FALSE), !.older = TRUE]

Merged(m) ==
  LET joined == [rows EXCEPT !.shown = @ \cup Items(m),
                             !.badge = IF Marked \in Items(m) THEN m.mark ELSE @]
  IN IF m.cursor = First
     THEN [NoRows EXCEPT !.shown = Items(m), !.older = More(m), !.current = TRUE,
                         !.badge = m.mark /\ Marked \in Items(m)]
     ELSE IF m.move < 0
     THEN Evicted([joined EXCEPT !.newer = More(m), !.create = @ \/ ~More(m)], FALSE)
     ELSE Evicted([joined EXCEPT !.older = More(m)], TRUE)

\* Mutant of Found: the selection stays at its place in the window.
KeptIndex(before, r) == r.index
\* The selection stays on its row, wherever that is now.
Found(before, r) ==
  IF before \in Listed(r) THEN Place(before, r) ELSE r.index

Clamp(i, r) ==
  LET last == Cardinality(Listed(r)) IN IF i < 1 THEN 1 ELSE IF i > last THEN last ELSE i

\* receiveBrowseThoughts.
TakeWindow(m) ==
  LET r == Merged(m)
  IN /\ m.kind = "window" /\ Take(m) /\ Read
     /\ rows' = [r EXCEPT !.index = Clamp(Found(Selected(rows), r) + m.move, r)]
     /\ stale' = (stale /\ m.cursor # First)
     /\ base' = IF m.cursor = First THEN m.seen ELSE base
     /\ overtaken' = IF Marked \in Items(m) THEN overtaken \ {"rows"} ELSE overtaken
     /\ UNCHANGED <<store, screen, picked, own, changed>>

TakeList(m) ==
  /\ m.kind = "list" /\ Take(m) /\ Read
  /\ rows' = [NoRows EXCEPT !.shown = m.seen, !.current = TRUE,
                            !.badge = m.mark /\ Marked \in m.seen]
  /\ stale' = FALSE /\ base' = m.seen
  /\ overtaken' = overtaken \ {"rows"}
  /\ UNCHANGED <<store, screen, picked, own, changed>>

ShowDetail(t, badge) ==
  /\ picked' = [thought |-> t, badge |-> badge]
  /\ screen' = [screen EXCEPT !.at = "detail"]

TakeThought(m) ==
  /\ m.kind = "get" /\ Take(m) /\ Read
  /\ ShowDetail(m.cursor, m.cursor = Marked /\ m.mark)
  /\ overtaken' = overtaken \ {"detail"}
  /\ UNCHANGED <<store, rows, stale, base, own, changed>>

\* Mutant of AfterCreation: the rows read before the creation are kept.
StillFresh == stale
AfterCreation == TRUE

TakeCreated(m) ==
  /\ m.kind = "create" /\ Take(m) /\ Read
  /\ ShowDetail(m.cursor, FALSE)
  /\ stale' = AfterCreation
  /\ UNCHANGED <<store, rows, base, own>> /\ NoneChanged

\* Mutant of ApplyMindset: the Thought that is open keeps its designation.
ApplyToRows(mark) ==
  /\ rows' = [rows EXCEPT !.badge = IF Marked \in rows.shown THEN mark ELSE @]
  /\ UNCHANGED picked

ApplyMindset(mark) ==
  /\ rows' = [rows EXCEPT !.badge = IF Marked \in rows.shown THEN mark ELSE @]
  /\ picked' = [picked EXCEPT !.badge = IF picked.thought = Marked THEN mark ELSE @]

\* Where designations are shown.
Places == {"rows", "detail"}

\* receiveMindset applies the result and sends it as a MindsetChanged.
TakeMindset(m) ==
  /\ m.kind = "mindset" /\ Take(m)
  /\ busy' = [busy EXCEPT !.mindset = FALSE]
  /\ ApplyMindset(m.mark)
  /\ changed' = [changed EXCEPT ![m.mark] = @ + 1]
  /\ overtaken' = {}
  /\ UNCHANGED <<store, screen, stale, base, own>>

\* The root passes a MindsetChanged on, at any later time and in any order with others; it is
\* applied whatever was changed, opened or read since.
TakeChanged(mark) ==
  /\ changed[mark] > 0
  /\ changed' = [changed EXCEPT ![mark] = @ - 1]
  /\ ApplyMindset(mark)
  /\ overtaken' = IF mark = store.mark THEN {} ELSE Places
  /\ UNCHANGED <<store, screen, stale, busy, wire, base, own>>

\* A command fails: what is shown stays, a draft too.
Refused(m) ==
  /\ ~m.ran /\ Owned(m) /\ wire' = wire \ {m}
  /\ busy' = IF m.kind = "mindset" THEN [busy EXCEPT !.mindset = FALSE]
             ELSE [busy EXCEPT !.read = FALSE]
  /\ UNCHANGED <<store, screen, rows, stale, picked, base, own>> /\ NoneChanged

-----------------------------------------------------------------------------
Answer(m) == \/ Run(m) \/ Drop(m) \/ TakeWindow(m) \/ TakeList(m) \/ TakeThought(m)
             \/ TakeCreated(m) \/ TakeMindset(m) \/ Refused(m)

Next ==
  \/ OtherSession
  \/ Open \/ Leave \/ Refresh \/ Move \/ EnterRow \/ EnterCreate \/ Discard \/ Save
  \/ ReloadDetail \/ LeaveDetail \/ SetMindset
  \/ \E m \in wire : Answer(m)
  \/ \E mark \in BOOLEAN : TakeChanged(mark)

Spec == Init /\ [][Next]_vars

-----------------------------------------------------------------------------
\* No Thought is lost from the window as batches come and edges go: what was there when it
\* was read anew is resident or lies behind an edge that the window will read, and the
\* Create row stands before the newest one.
NothingIsLost ==
  rows.current => \A t \in base :
    \/ t \in rows.shown
    \/ rows.older /\ \A u \in rows.shown : t < u
    \/ rows.newer /\ ~rows.create /\ \A u \in rows.shown : t > u

Between(t, r, s) == LET at(row) == IF row = 0 THEN MaxThought + 1 ELSE row
                    IN at(Selected(r)) < t /\ t < at(Selected(s))

\* Moving row by row goes from a row to the next one, also where the next one is in a batch
\* that has to be read first and evicts the rows at the other end, or has the Create row.
NothingIsSkipped ==
  rows.current /\ rows'.current /\ base' = base
    => \A t \in base : ~Between(t, rows, rows') /\ ~Between(t, rows', rows)

\* The rows that are shown after a creation were read after it.  Where that read failed the
\* older ones of a list stay, and the screen still knows that they are stale.
OwnThoughtsAreListed ==
  screen.at = "browse" /\ rows.current /\ ~stale => own \subseteq base

Truly(place, badge) == place \notin overtaken => badge = store.mark

\* What is shown of a designation is what the store has of it, unless a change is being
\* saved: a read that began before the change never brings the old one back, and a
\* MindsetChanged only where it comes after a later change; the next answer about the
\* Thought is right again.
BadgesAreTrue ==
  ~busy.mindset =>
    /\ rows.current /\ Marked \in rows.shown /\ ~busy.read => Truly("rows", rows.badge)
    /\ screen.at = "detail" /\ picked.thought = Marked => Truly("detail", picked.badge)

\* "The source row already contains the last accepted designation" (mindset.go:69), which
\* setMindset asks for the opposite of: here when nothing is under way any more.  It does not,
\* where a MindsetChanged came after a later one.
LastDesignationIsShown ==
  wire = {} /\ (\A mark \in BOOLEAN : changed[mark] = 0) /\ MayMark /\ ~screen.all
    => (rows.current /\ Marked \in rows.shown => rows.badge = store.mark)

Coming(kinds) == \E m \in wire : m.kind \in kinds /\ m.live

\* What the screen waits for is on its way, whatever was refreshed, left or opened again.
AwaitedIsComing ==
  /\ busy.read => Coming({"window", "list", "get", "create"})
  /\ busy.mindset => Coming({"mindset"})

-----------------------------------------------------------------------------
(* What these rest on.  One read is under way at most, or the creation or   *)
(* the change of mindset that the screen waits for; a read that is live was *)
(* asked for with the rows as they still are.                               *)

At == {"away", "browse", "create", "detail"}
Kind == {"window", "list", "get", "create", "mindset"}
Rows == [create : BOOLEAN, shown : SUBSET Thought, index : Nat \ {0}, older : BOOLEAN,
         newer : BOOLEAN, current : BOOLEAN, badge : BOOLEAN]
Message == [kind : Kind, cursor : Thought \cup {0}, move : {-1, 0, 1}, live : BOOLEAN,
            ran : BOOLEAN, seen : SUBSET Thought, mark : BOOLEAN]

TypeOK ==
  /\ store \in [thoughts : SUBSET Thought, mark : BOOLEAN]
  /\ screen \in [at : At, all : BOOLEAN]
  /\ rows \in Rows /\ stale \in BOOLEAN
  /\ busy \in [read : BOOLEAN, mindset : BOOLEAN]
  /\ picked \in [thought : Thought \cup {0}, badge : BOOLEAN]
  /\ wire \in SUBSET Message
  /\ base \in SUBSET Thought /\ own \in SUBSET Thought
  /\ changed \in [BOOLEAN -> Nat] /\ overtaken \in SUBSET Places

\* A row is selected.
RowsOK == Listed(rows) # {} /\ rows.index <= Cardinality(Listed(rows))

\* The Create row stands before the newest Thought; rows are read behind another one.
EdgesOK == (rows.newer <=> ~rows.create) /\ (rows.older => rows.shown # {})

\* What was seen is still there.
Seen == Marked \in store.thoughts /\ base \subseteq store.thoughts /\ own \subseteq store.thoughts

\* What may still be answered, and that nothing else is waited for meanwhile.
Live(m) == m.live /\ m.kind # "mindset"
OneAnswer ==
  /\ \A m \in wire : Live(m) => busy.read
  /\ \A m \in wire : m.kind = "mindset" => m.live /\ busy.mindset
  /\ \A m, n \in wire : Live(m) /\ Live(n) => m = n
  /\ \A m, n \in wire : m.kind = "mindset" /\ n.kind = "mindset" => m = n
  /\ ~(busy.read /\ busy.mindset)
  /\ busy.mindset => screen.at \in {"browse", "detail"}

\* Where an answer is waited for.
Awaits(m) ==
  CASE m.kind = "window" -> screen.at = "browse" /\ screen.all
    [] m.kind = "list" -> screen.at = "browse"
    [] m.kind = "get" -> screen.at \in {"browse", "detail"}
    [] OTHER -> screen.at = "create"

\* A batch continues the rows at the edge where it was asked for.
Continues(m) ==
  m.kind = "window" =>
    \/ m.cursor = First /\ m.move = 0
    \/ /\ m.cursor \in rows.shown
       /\ \/ m.move = -1 /\ rows.newer /\ \A u \in rows.shown : u <= m.cursor
          \/ m.move = 1 /\ \A u \in rows.shown : u >= m.cursor

\* What it has seen is what the store had, and has now but for Thoughts of others.
SawStore(m) ==
  m.ran => /\ m.kind \in {"window", "list"} =>
                base \subseteq m.seen /\ own \subseteq m.seen /\ m.seen \subseteq store.thoughts
           /\ m.kind \in {"window", "list", "get"} => m.mark = store.mark
           /\ m.kind = "create" => m.cursor # Marked

ReadsOK == \A m \in wire : Live(m) => Awaits(m) /\ Continues(m) /\ SawStore(m)
CreatesOK == \A m \in wire : m.kind = "create" => m.live
NoneTaken == \A m \in wire : m.kind = "create" => ~m.ran

\* The designation is shown as it is, until a change of it has been written or an old one
\* was brought back.
BadgesOK ==
  /\ (\A m \in wire : m.kind = "mindset" => ~m.ran) =>
       /\ rows.current /\ Marked \in rows.shown => Truly("rows", rows.badge)
       /\ screen.at = "detail" /\ picked.thought = Marked => Truly("detail", picked.badge)
  /\ \A m \in wire : m.kind = "mindset" /\ m.ran => store.mark = m.mark

OwnOK == rows.current /\ ~stale /\ NoneTaken => own \subseteq base

IInv ==
  /\ TypeOK /\ RowsOK /\ EdgesOK /\ Seen /\ OneAnswer /\ ReadsOK /\ CreatesOK /\ BadgesOK
  /\ OwnOK /\ NothingIsLost /\ AwaitedIsComing

\* A batch was asked for from the row that is selected, and the window anew with no rows that
\* are current; the plain list is shown from its Create row on.
FromSelected(m) ==
  CASE m.kind = "window" -> IF m.cursor = First THEN ~rows.current ELSE m.cursor = Selected(rows)
    [] m.kind = "list" -> ~screen.all
    [] OTHER -> TRUE
StepsOK ==
  /\ \A m \in wire : Live(m) => FromSelected(m)
  /\ ~screen.all => rows.create /\ rows.index = 1
=============================================================================
