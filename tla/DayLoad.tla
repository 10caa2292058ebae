------------------------------ MODULE DayLoad ------------------------------
(***************************************************************************)
(* The day shown on the home timeline and the reads that fill it.  The     *)
(* screen is one Bubble Tea model: Update runs handler by handler, and     *)
(* every read is a command that runs on its own and answers in any order,  *)
(* after the screen was closed, reloaded or moved to another day.  "wire"  *)
(* holds the commands under way and the answers not yet delivered; each    *)
(* carries the number of the load, or of the Subject times, it is for.     *)
(*                                                                         *)
(* What the user selects, opens and writes on the cards of the day is in   *)
(* EventCards; here a key that leaves the present moment is Unfollow, and  *)
(* a save that was acknowledged is Saved.  Scrolling and painting are left *)
(* out.  What the Event store answers is open: other screens and sessions   *)
(* change it at any time, so a list finds its day empty, with an ongoing   *)
(* Event, or with past ones.  The "Loading" note of a slow read is left out. *)
(***************************************************************************)
EXTENDS Naturals, FiniteSets

CONSTANTS
  MaxClock,      \* minutes the wall clock runs through, two to a day
  MaxLoads,      \* bound: loads of a day and closings before the user stops asking
  MaxWire        \* bound: commands under way when the user asks for the next load

DayOf(t) == (t + 1) \div 2
Day == 1..DayOf(MaxClock)
List == {"empty", "ongoing", "past"}

VARIABLES
  now,       \* the wall clock
  active,    \* Model.active: between Open and Close
  clock,     \* Model.clock, the minute the screen shows
  follow,    \* timelinePosition.followNow
  day,       \* Model.day, the day whose entries are shown
  entries,   \* Model.entries: what is listed for that day
  counts,    \* Model.eventCounts: the day they were read for
  latest,    \* Model.latest: the day of the Event it is the Thought of
  load,      \* Model.load (dayLoad)
  time,      \* Model.subjectTime
  wire       \* commands under way, and answers on their way to Update

vars == <<now, active, clock, follow, day, entries, counts, latest, load, time,
          wire>>
Shown == <<day, entries, counts, latest>>

None == [day |-> 0, at |-> 0]

Message(kind, num, d, at) ==
  [kind |-> kind, num |-> num, day |-> d, at |-> at]

Init ==
  /\ now = 1 /\ clock = 1 /\ day = 1
  /\ active = FALSE /\ follow = TRUE
  /\ entries = "empty" /\ counts = 0 /\ latest = 0
  /\ load = [num |-> 0, day |-> 0, entries |-> FALSE, counts |-> FALSE,
             latest |-> FALSE, result |-> 0, countErr |-> FALSE]
  /\ time = [rev |-> 0, pending |-> FALSE, result |-> None, items |-> None]
  /\ wire = {}

-----------------------------------------------------------------------------

MinutePasses ==
  /\ now < MaxClock
  /\ now' = now + 1
  /\ UNCHANGED <<active, clock, follow, Shown, load, time, wire>>

-----------------------------------------------------------------------------
\* dayLoad.begin and loadSubjectTime: the numbers reject what earlier commands still send.
\* The day shown keeps its cards until the list of the new day arrives.

Begun(d) == [load EXCEPT !.num = @ + 1, !.day = d, !.entries = TRUE, !.counts = TRUE,
                         !.latest = FALSE, !.result = 0]
Restarted == [time EXCEPT !.rev = @ + 1, !.pending = TRUE]

LoadDay(d, at) ==
  /\ load' = Begun(d)
  /\ time' = Restarted
  /\ wire' = wire \cup {Message("entries", load.num + 1, d, 0),
                        Message("counts", load.num + 1, d, 0),
                        Message("time", time.rev + 1, d, at)}

MayAsk == load.num < MaxLoads /\ Cardinality(wire) <= MaxWire
Wanted == IF load.entries THEN load.day ELSE day

Open ==
  /\ ~active /\ MayAsk
  /\ active' = TRUE /\ clock' = now
  /\ LoadDay(IF follow THEN DayOf(now) ELSE day, now)
  /\ UNCHANGED <<now, follow, Shown>>

Close ==
  /\ active /\ MayAsk
  /\ active' = FALSE
  /\ load' = [load EXCEPT !.num = @ + 1]
  /\ time' = [time EXCEPT !.rev = @ + 1]
  /\ UNCHANGED <<now, clock, follow, Shown, wire>>

\* The selection moves to a card or to the Subject times, or another panel has the keys.
Unfollow ==
  /\ active /\ follow
  /\ follow' = FALSE
  /\ UNCHANGED <<now, active, clock, Shown, load, time, wire>>

\* Back on the boundary of the day (down from the last card, up from the Subject times);
\* the cards of a day that is being left take no keys.
Boundary ==
  /\ active /\ ~(load.entries /\ load.day # day)
  /\ follow' = (day = DayOf(clock))
  /\ UNCHANGED <<now, active, clock, Shown, load, time, wire>>

\* Left and right; never past today.
ChangeDay ==
  /\ active /\ MayAsk
  /\ \E d \in Day : /\ d = Wanted + 1 \/ d + 1 = Wanted
                    /\ d <= DayOf(now)
                    /\ LoadDay(d, clock)
  /\ follow' = FALSE
  /\ UNCHANGED <<now, active, clock, Shown>>

Reload ==
  /\ active /\ MayAsk
  /\ LoadDay(Wanted, clock)
  /\ UNCHANGED <<now, active, clock, follow, Shown>>

\* End returns to the present moment.
End ==
  /\ active /\ MayAsk
  /\ follow' = TRUE /\ clock' = now
  /\ IF DayOf(now) # day \/ load.entries THEN LoadDay(DayOf(now), now)
     ELSE UNCHANGED <<load, time, wire>>
  /\ UNCHANGED <<now, active, Shown>>

\* A started Event brings the present back, an ended one reloads the day shown.
Saved ==
  /\ active /\ MayAsk
  /\ \/ /\ follow' = TRUE /\ clock' = now
        /\ LoadDay(DayOf(now), now)
     \/ /\ LoadDay(day, clock)
        /\ UNCHANGED <<follow, clock>>
  /\ UNCHANGED <<now, active, Shown>>

-----------------------------------------------------------------------------
\* tickMsg: the timer of a minute; one left by an earlier opening is dropped.

\* Mutant of ReloadsOnTick: any load under way is taken for the load of today.
ReloadsWhenIdle == follow /\ day # DayOf(now) /\ ~load.entries

\* Past midnight a screen that follows the clock loads the new day, unless it is already
\* loading it.
ReloadsOnTick ==
  /\ follow /\ day # DayOf(now)
  /\ ~load.entries \/ load.day # DayOf(now)

\* Only an ongoing Event makes Subject times depend on the clock, up to the end of the day.
Cutoff(t) == LET from == 2 * day - 1
                 until == 2 * day + 1
             IN IF t < from THEN from ELSE IF t > until THEN until ELSE t

TimesChange == ~load.entries /\ entries = "ongoing" /\ Cutoff(clock) # Cutoff(now)

Tick ==
  /\ active /\ clock < now
  /\ clock' = now
  /\ IF ReloadsOnTick THEN LoadDay(DayOf(now), now)
     ELSE IF TimesChange
     THEN /\ time' = Restarted
          /\ wire' = wire \cup {Message("time", time.rev + 1, day, now)}
          /\ UNCHANGED load
     ELSE UNCHANGED <<load, time, wire>>
  /\ UNCHANGED <<now, active, follow, Shown>>

-----------------------------------------------------------------------------
\* Mutant of Owned: Subject times are taken whenever some are awaited.
OwnedIfPending(m) ==
  active /\ IF m.kind = "time" THEN time.pending
            ELSE m.num = load.num /\ (m.kind = "entries" => load.entries)

\* Mutant of Owned: counts and latest times of an earlier load are taken.
OwnedByKind(m) ==
  active /\ IF m.kind = "time" THEN m.num = time.rev /\ time.pending
            ELSE m.kind = "entries" => m.num = load.num /\ load.entries

\* Mutant of Owned: a load is over with its list; what else it asked for is refused.
OwnedOnce(m) ==
  active /\ IF m.kind = "time" THEN m.num = time.rev /\ time.pending
            ELSE m.num = load.num /\ load.entries

\* Update takes an answer only while its number is the one it waits for.
Owned(m) ==
  /\ active
  /\ CASE m.kind = "entries" -> m.num = load.num /\ load.entries
       [] m.kind \in {"counts", "latest"} -> m.num = load.num
       [] m.kind = "time" -> m.num = time.rev /\ time.pending

\* An answer nobody waits for, or a read whose context was cancelled.
Discard(m) ==
  /\ ~Owned(m)
  /\ wire' = wire \ {m}
  /\ UNCHANGED <<now, active, clock, follow, Shown, load, time>>

\* applySubjectTime: times that arrive first wait until their day is shown.
Applied(t, d) ==
  LET own == IF t.items.day = d THEN t ELSE [t EXCEPT !.items = None]
  IN IF own.pending \/ own.result.day # d THEN own ELSE [own EXCEPT !.items = own.result]

TakeTime(m, ok) ==
  /\ m.kind = "time" /\ Owned(m)
  /\ time' = Applied([time EXCEPT !.pending = FALSE,
       !.result = IF ok THEN [day |-> m.day, at |-> m.at] ELSE None], day)
  /\ wire' = wire \ {m}
  /\ UNCHANGED <<now, active, clock, follow, Shown, load>>

\* Counts may arrive before the list of their day, and then wait for it.
TakeCounts(m, ok) ==
  LET got == IF ok THEN m.day ELSE 0
      waits == load.entries \/ load.day # day
  IN /\ m.kind = "counts" /\ Owned(m)
     /\ load' = [load EXCEPT !.counts = FALSE, !.result = got,
                             !.countErr = IF waits THEN @ ELSE ~ok]
     /\ counts' = IF waits THEN counts ELSE got
     /\ wire' = wire \ {m}
     /\ UNCHANGED <<now, active, clock, follow, day, entries, latest, time>>

TakeLatest(m, ok) ==
  /\ m.kind = "latest" /\ Owned(m)
  /\ load' = [load EXCEPT !.latest = FALSE]
  /\ latest' = IF ok THEN m.day ELSE 0
  /\ wire' = wire \ {m}
  /\ UNCHANGED <<now, active, clock, follow, day, entries, counts, time>>

RefuseEntries(m) ==
  /\ m.kind = "entries" /\ Owned(m)
  /\ load' = [load EXCEPT !.entries = FALSE]
  /\ wire' = wire \ {m}
  /\ UNCHANGED <<now, active, clock, follow, Shown, time>>

\* The list makes its day the day shown.  Counts that have not arrived stay those of the
\* same intervals, if they are.
TakeEntries(m, list) ==
  LET moved == load.day # day
      same == list = IF moved THEN "empty" ELSE entries
      kept == IF same /\ ~load.countErr THEN counts ELSE 0
  IN /\ m.kind = "entries" /\ Owned(m)
     /\ day' = load.day /\ entries' = list
     /\ counts' = IF load.counts THEN kept ELSE load.result
     /\ latest' = 0
     /\ load' = [load EXCEPT !.entries = FALSE, !.latest = (list = "ongoing"),
                             !.countErr = ~load.counts /\ load.result = 0]
     /\ time' = Applied(time, load.day)
     /\ wire' = (wire \ {m})
                \cup (IF list = "ongoing" THEN {Message("latest", load.num, load.day, 0)}
                      ELSE {})
     /\ UNCHANGED <<now, active, clock, follow>>

-----------------------------------------------------------------------------
Reply(m) ==
  \/ RefuseEntries(m)
  \/ \E list \in List : TakeEntries(m, list)
  \/ \E ok \in BOOLEAN : TakeTime(m, ok) \/ TakeCounts(m, ok) \/ TakeLatest(m, ok)
  \/ Discard(m)

Next ==
  \/ MinutePasses
  \/ Open \/ Close \/ Unfollow \/ Boundary \/ ChangeDay \/ Reload \/ End \/ Saved \/ Tick
  \/ \E m \in wire : Reply(m)

Spec == Init /\ [][Next]_vars

-----------------------------------------------------------------------------
\* What is shown belongs to the one day shown: the counts beside its cards, the latest
\* Thought and the Subject times, although a command of its own read each of them.
ShowsOneDay ==
  /\ entries # "empty" => counts \in {0, day}
  /\ latest \in {0, day}
  /\ time.items.day \in {0, day}

\* Whenever the minute shown moves on, a screen that follows the clock shows the day of the
\* clock or is loading it: past midnight, while another load is still pending, and again
\* after a load of today failed.
FollowsToday ==
  clock' # clock /\ follow' => DayOf(clock') = IF load'.entries THEN load'.day ELSE day'

\* The Subject times of a day never go back to an earlier minute.
TimesNeverGoBack ==
  time.items.day # 0 /\ time'.items.day = time.items.day
    => time'.items.at >= time.items.at

Coming(kind, num) == \E m \in wire : m.kind = kind /\ m.num = num

\* What an open screen waits for is on its way: no flag is left behind by a load that was
\* replaced, nor by answers that are discarded because their number is old.
AwaitedIsComing ==
  active => /\ load.entries => Coming("entries", load.num)
            /\ load.counts => Coming("counts", load.num)
            /\ load.latest => Coming("latest", load.num)
            /\ time.pending => Coming("time", time.rev)

-----------------------------------------------------------------------------
(* What these rest on: an answer that is taken is for the day of the load,  *)
(* the times of a later revision were read at a later minute, and a screen  *)
(* that follows the clock shows no day after it.                            *)

Item == [day : Nat, at : Nat]
Load == [num : Nat, day : Nat, entries : BOOLEAN, counts : BOOLEAN, latest : BOOLEAN,
         result : Nat, countErr : BOOLEAN]
Times == [rev : Nat, pending : BOOLEAN, result : Item, items : Item]
Messages == [kind : {"entries", "counts", "latest", "time"}, num : Nat, day : Nat, at : Nat]

TypeOK ==
  /\ now \in Nat /\ clock \in Nat /\ active \in BOOLEAN /\ follow \in BOOLEAN
  /\ day \in Nat \ {0} /\ entries \in List /\ counts \in Nat /\ latest \in Nat
  /\ load \in Load /\ time \in Times
  /\ wire \in SUBSET Messages

\* No answer is ahead of the load or the revision, and those of the load are for its day.
OfTheLoad ==
  /\ load.entries => load.day # 0
  /\ load.result \in {0, load.day}
  /\ \A m \in wire : m.kind # "time" =>
       /\ m.num <= load.num
       /\ m.num = load.num => m.day = load.day /\ (m.kind = "latest" => load.day = day)

TimesInOrder ==
  /\ time.items.at <= clock /\ time.result.at <= clock
  /\ ~time.pending /\ time.result.day # 0 => time.items.at <= time.result.at
  /\ \A m \in wire : m.kind = "time" =>
       /\ m.num <= time.rev /\ m.at <= clock
       /\ m.num = time.rev /\ time.pending => time.items.at <= m.at

NotAhead ==
  /\ clock <= now /\ day <= DayOf(now) /\ load.day <= DayOf(now)
  /\ follow => /\ day <= DayOf(clock)
               /\ load.entries => load.day \in {day, DayOf(clock)}

IInv ==
  /\ TypeOK /\ OfTheLoad /\ TimesInOrder /\ NotAhead
  /\ ShowsOneDay /\ AwaitedIsComing
=============================================================================
