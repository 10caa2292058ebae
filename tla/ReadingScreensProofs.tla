------------------------- MODULE ReadingScreensProofs ------------------------
(***************************************************************************)
(* Safety of the screens that load what they show.  Each screen has an     *)
(* inductive invariant, IInv of its own module; the lemmas about a screen  *)
(* bear its name, and x1 to x11 are its variables as ReadingScreens lists  *)
(* them.  ScreensProofs has the theorems, with those of the other screens. *)
(***************************************************************************)
EXTENDS ReadingScreens, FunctionTheorems, FiniteSetTheorems, TLAPS

-----------------------------------------------------------------------------
(* The day on the Event screen: x1 the wall clock, x2 whether the screen   *)
(* is open, x3 the minute shown, x4 whether it follows today, x5 the day,  *)
(* x6 its Events, x7 their counts, x8 the latest Thought, x9 the load, x10 *)
(* the times of Subjects, x11 the commands.                                *)

LEMMA DayDayOfType ==
  ASSUME NEW t \in Nat
  PROVE  Day!DayOf(t) \in Nat
  BY DEF Day!DayOf

LEMMA DayDaysGoOn ==
  ASSUME NEW t \in Nat, NEW u \in Nat, t <= u
  PROVE  Day!DayOf(t) <= Day!DayOf(u)
  BY DEF Day!DayOf

\* A day is loaded at the minute "minute".
LEMMA DayLoadDayFacts ==
  ASSUME Day!TypeOK, NEW d \in Nat, NEW minute \in Nat, Day!LoadDay(d, minute)
  PROVE  /\ x9' \in Day!Load /\ x9'.num = x9.num + 1 /\ x9'.day = d
         /\ x9'.result = 0 /\ x9'.latest = FALSE
         /\ x10' \in Day!Times /\ x10'.rev = x10.rev + 1 /\ x10'.pending = TRUE
         /\ x10'.result = x10.result /\ x10'.items = x10.items
         /\ x11' \in SUBSET Day!Messages
         /\ \A m \in x11' : \/ m \in x11
                            \/ m.kind # "time" /\ m.kind # "latest" /\ m.num = x9'.num /\ m.day = d
                            \/ m.kind = "time" /\ m.num = x10'.rev /\ m.at = minute
         /\ \E m \in x11' : m.kind = "entries" /\ m.num = x9'.num
         /\ \E m \in x11' : m.kind = "counts" /\ m.num = x9'.num
         /\ \E m \in x11' : m.kind = "time" /\ m.num = x10'.rev
<1>1. x9' \in Day!Load /\ x9'.num = x9.num + 1 /\ x9'.day = d /\ x9'.result = 0
      /\ x9'.latest = FALSE
  <2>1. PICK n \in Nat : n = x9.num + 1
    BY DEF Day!TypeOK, Day!Load
  <2>2. x9' = [x9 EXCEPT !.num = n, !.day = d, !.entries = TRUE, !.counts = TRUE,
                             !.latest = FALSE, !.result = 0]
    BY <2>1 DEF Day!LoadDay, Day!Begun
  <2> QED BY <2>1, <2>2 DEF Day!TypeOK, Day!Load
<1>2. x10' \in Day!Times /\ x10'.rev = x10.rev + 1 /\ x10'.pending = TRUE
      /\ x10'.result = x10.result /\ x10'.items = x10.items
  <2>1. PICK n \in Nat : n = x10.rev + 1
    BY DEF Day!TypeOK, Day!Times
  <2>2. x10' = [x10 EXCEPT !.rev = n, !.pending = TRUE]
    BY <2>1 DEF Day!LoadDay, Day!Restarted
  <2> QED BY <2>1, <2>2 DEF Day!TypeOK, Day!Times
<1>3. PICK e, c, s : /\ e = [kind |-> "entries", num |-> x9.num + 1, day |-> d, at |-> 0]
                     /\ c = [kind |-> "counts", num |-> x9.num + 1, day |-> d, at |-> 0]
                     /\ s = [kind |-> "time", num |-> x10.rev + 1, day |-> d, at |-> minute]
  OBVIOUS
<1>4. x11' = x11 \cup {e, c, s}
  BY <1>3 DEF Day!LoadDay, Day!Message
<1>5. x9.num + 1 \in Nat /\ x10.rev + 1 \in Nat
  BY DEF Day!TypeOK, Day!Load, Day!Times
<1>6. e \in Day!Messages /\ c \in Day!Messages /\ s \in Day!Messages
  BY <1>3, <1>5 DEF Day!Messages
<1>7. x11' \in SUBSET Day!Messages
  BY <1>4, <1>6 DEF Day!TypeOK
<1> QED BY <1>1, <1>2, <1>3, <1>4, <1>7

LEMMA DayLoadPreserves ==
  ASSUME Day!IInv, NEW d \in Nat \ {0}, Day!LoadDay(d, x3'), x3' \in {x3, x1}, d <= Day!DayOf(x1),
         x2' \in BOOLEAN, x4' \in BOOLEAN,
         x4' => x5 <= Day!DayOf(x3') /\ d \in {x5, Day!DayOf(x3')},
         UNCHANGED <<x1, Day!Shown>>
  PROVE  Day!IInv'
<1> DEFINE minute == x3'
<1>1. minute \in Nat /\ x3 <= minute /\ minute <= x1
  BY DEF Day!IInv, Day!TypeOK, Day!NotAhead
<1> HIDE DEF minute
<1>2. Day!LoadDay(d, minute) /\ x3' = minute /\ UNCHANGED <<x1, x5, x6, x7, x8>>
  BY DEF minute, Day!Shown
<1>3. Day!TypeOK
  BY DEF Day!IInv
<1>4. /\ x9' \in Day!Load /\ x9'.num = x9.num + 1 /\ x9'.day = d
      /\ x9'.result = 0 /\ x9'.latest = FALSE
      /\ x10' \in Day!Times /\ x10'.rev = x10.rev + 1 /\ x10'.pending = TRUE
      /\ x10'.result = x10.result /\ x10'.items = x10.items
      /\ x11' \in SUBSET Day!Messages
  BY <1>1, <1>2, <1>3, DayLoadDayFacts
<1>5. \A m \in x11' : \/ m \in x11
                      \/ m.kind # "time" /\ m.kind # "latest" /\ m.num = x9'.num /\ m.day = d
                      \/ m.kind = "time" /\ m.num = x10'.rev /\ m.at = minute
  BY <1>1, <1>2, <1>3, DayLoadDayFacts
<1>6. /\ \E m \in x11' : m.kind = "entries" /\ m.num = x9'.num
      /\ \E m \in x11' : m.kind = "counts" /\ m.num = x9'.num
      /\ \E m \in x11' : m.kind = "time" /\ m.num = x10'.rev
  BY <1>1, <1>2, <1>3, DayLoadDayFacts
<1>7. x9.num \in Nat /\ x10.rev \in Nat /\ x10.items.at \in Nat /\ x10.result.at \in Nat
      /\ x3 \in Nat /\ \A m \in x11 : m.num \in Nat /\ m.at \in Nat
  BY <1>3 DEF Day!TypeOK, Day!Load, Day!Times, Day!Item, Day!Messages
<1>8. Day!TypeOK'
  BY <1>1, <1>2, <1>3, <1>4 DEF Day!TypeOK
<1>9. Day!OfTheLoad'
  BY <1>2, <1>4, <1>5, <1>7 DEF Day!IInv, Day!OfTheLoad
<1>10. Day!TimesInOrder'
  BY <1>1, <1>2, <1>4, <1>5, <1>7 DEF Day!IInv, Day!TimesInOrder
<1>11. Day!NotAhead'
  <2>1. x5 <= Day!DayOf(x1)
    BY DEF Day!IInv, Day!NotAhead
  <2> QED BY <1>1, <1>2, <1>4, <2>1 DEF Day!NotAhead, minute
<1>12. Day!ShowsOneDay'
  BY <1>2, <1>4 DEF Day!IInv, Day!ShowsOneDay
<1>13. Day!AwaitedIsComing'
  BY <1>4, <1>6 DEF Day!AwaitedIsComing, Day!Coming
<1> QED BY <1>8, <1>9, <1>10, <1>11, <1>12, <1>13 DEF Day!IInv

\* The days that a key or the clock asks for.
LEMMA DayDaysType ==
  ASSUME Day!IInv
  PROVE  /\ Day!DayOf(x1) \in Nat /\ Day!DayOf(x3) \in Nat /\ 1 <= Day!DayOf(x1)
         /\ Day!Wanted \in Nat \ {0} /\ Day!Wanted <= Day!DayOf(x1) /\ x5 <= Day!DayOf(x1)
         /\ Day!DayOf(x3) <= Day!DayOf(x1)
         /\ x4 => Day!Wanted \in {x5, Day!DayOf(x3)}
<1>1. Day!DayOf(x1) \in Nat /\ Day!DayOf(x3) \in Nat /\ Day!DayOf(x3) <= Day!DayOf(x1)
  BY DayDayOfType, DayDaysGoOn DEF Day!IInv, Day!TypeOK, Day!NotAhead
<1> QED BY <1>1 DEF Day!IInv, Day!TypeOK, Day!NotAhead, Day!OfTheLoad, Day!Wanted, Day!Load

LEMMA DayOpenPreserves ==
  ASSUME Day!IInv, Day!Open
  PROVE  Day!IInv'
<1>1. PICK d : d = IF x4 THEN Day!DayOf(x1) ELSE x5
  OBVIOUS
<1>2. Day!LoadDay(d, x3') /\ x3' = x1 /\ x2' = TRUE /\ UNCHANGED <<x1, x4, Day!Shown>>
  BY <1>1 DEF Day!Open
<1>3. d \in Nat \ {0} /\ d <= Day!DayOf(x1)
  BY <1>1, DayDaysType DEF Day!IInv, Day!TypeOK
<1>4. x4' => x5 <= Day!DayOf(x3') /\ d \in {x5, Day!DayOf(x3')}
  BY <1>1, <1>2, DayDaysType
<1> QED BY <1>2, <1>3, <1>4, DayLoadPreserves DEF Day!IInv, Day!TypeOK

LEMMA DayChangeDayPreserves ==
  ASSUME Day!IInv, Day!ChangeDay
  PROVE  Day!IInv'
<1>1. PICK d \in Day!Day : d <= Day!DayOf(x1) /\ Day!LoadDay(d, x3)
  BY DEF Day!ChangeDay
<1>2. Day!LoadDay(d, x3') /\ x3' = x3 /\ x2' = x2 /\ x4' = FALSE
      /\ UNCHANGED <<x1, Day!Shown>>
  BY <1>1 DEF Day!ChangeDay
<1>3. d \in Nat \ {0}
  BY DayAssumption, DayDayOfType DEF Day!Day
<1> QED BY <1>1, <1>2, <1>3, DayLoadPreserves DEF Day!IInv, Day!TypeOK

LEMMA DayReloadPreserves ==
  ASSUME Day!IInv, Day!Reload
  PROVE  Day!IInv'
<1>1. Day!LoadDay(Day!Wanted, x3') /\ x3' = x3 /\ x2' = x2 /\ x4' = x4
      /\ UNCHANGED <<x1, Day!Shown>>
  BY DEF Day!Reload
<1>2. x4' => x5 <= Day!DayOf(x3') /\ Day!Wanted \in {x5, Day!DayOf(x3')}
  BY <1>1, DayDaysType DEF Day!IInv, Day!NotAhead
<1> QED BY <1>1, <1>2, DayDaysType, DayLoadPreserves DEF Day!IInv, Day!TypeOK

\* A load of today at the present minute.
LEMMA DayTodayPreserves ==
  ASSUME Day!IInv, Day!LoadDay(Day!DayOf(x1), x1), x3' = x1, x2' \in BOOLEAN, x4' \in BOOLEAN,
         UNCHANGED <<x1, Day!Shown>>
  PROVE  Day!IInv'
<1>1. Day!LoadDay(Day!DayOf(x1), x3')
  OBVIOUS
<1>2. Day!DayOf(x1) \in Nat \ {0} /\ Day!DayOf(x1) <= Day!DayOf(x1) /\ x5 <= Day!DayOf(x1)
  BY DayDaysType
<1> QED BY <1>1, <1>2, DayLoadPreserves

\* The clock of the screen goes on and nothing is read.
LEMMA DayClockPreserves ==
  ASSUME Day!IInv, x3' \in {x3, x1}, x4' \in BOOLEAN,
         x4' => /\ x5 <= Day!DayOf(x3')
                /\ x9.entries => x9.day \in {x5, Day!DayOf(x3')},
         UNCHANGED <<x1, x2, Day!Shown, x9, x10, x11>>
  PROVE  Day!IInv'
<1>1. x3' \in Nat /\ x3 <= x3' /\ x3' <= x1 /\ x3 \in Nat
  BY DEF Day!IInv, Day!TypeOK, Day!NotAhead
<1>2. Day!TypeOK'
  BY <1>1 DEF Day!IInv, Day!TypeOK, Day!Shown
<1>3. Day!OfTheLoad' /\ Day!ShowsOneDay' /\ Day!AwaitedIsComing'
  BY DEF Day!IInv, Day!OfTheLoad, Day!ShowsOneDay, Day!AwaitedIsComing, Day!Shown, Day!Coming
<1>4. x10.items.at \in Nat /\ x10.result.at \in Nat /\ \A m \in x11 : m.at \in Nat
  BY DEF Day!IInv, Day!TypeOK, Day!Times, Day!Item, Day!Messages
<1>5. Day!TimesInOrder'
  BY <1>1, <1>4 DEF Day!IInv, Day!TimesInOrder
<1>6. Day!NotAhead'
  BY <1>1 DEF Day!IInv, Day!NotAhead, Day!Shown
<1> QED BY <1>2, <1>3, <1>5, <1>6 DEF Day!IInv

LEMMA DayEndPreserves ==
  ASSUME Day!IInv, Day!End
  PROVE  Day!IInv'
<1>1. CASE Day!LoadDay(Day!DayOf(x1), x1)
  BY <1>1, DayTodayPreserves DEF Day!End, Day!IInv, Day!TypeOK
<1>2. CASE Day!DayOf(x1) = x5 /\ ~x9.entries /\ UNCHANGED <<x9, x10, x11>>
  <2>1. x3' = x1 /\ x4' = TRUE /\ UNCHANGED <<x1, x2, Day!Shown>>
    BY DEF Day!End
  <2>2. x5 <= Day!DayOf(x3')
    BY <1>2, <2>1, DayDaysType
  <2> QED BY <1>2, <2>1, <2>2, DayClockPreserves
<1> QED BY <1>1, <1>2 DEF Day!End

LEMMA DaySavedPreserves ==
  ASSUME Day!IInv, Day!Saved
  PROVE  Day!IInv'
<1>1. CASE x4' = TRUE /\ x3' = x1 /\ Day!LoadDay(Day!DayOf(x1), x1)
  BY <1>1, DayTodayPreserves DEF Day!Saved, Day!IInv, Day!TypeOK
<1>2. CASE Day!LoadDay(x5, x3) /\ UNCHANGED <<x4, x3>>
  <2>1. Day!LoadDay(x5, x3') /\ x3' = x3 /\ x4' = x4 /\ x2' = x2
        /\ UNCHANGED <<x1, Day!Shown>>
    BY <1>2 DEF Day!Saved
  <2> QED BY <2>1, DayLoadPreserves DEF Day!IInv, Day!TypeOK, Day!NotAhead
<1> QED BY <1>1, <1>2 DEF Day!Saved

LEMMA DayTickPreserves ==
  ASSUME Day!IInv, Day!Tick
  PROVE  Day!IInv'
<1>0. x3' = x1 /\ UNCHANGED <<x1, x2, x4, Day!Shown>>
  BY DEF Day!Tick
<1>1. CASE Day!LoadDay(Day!DayOf(x1), x1)
  BY <1>0, <1>1, DayTodayPreserves DEF Day!IInv, Day!TypeOK
<1>2. CASE ~Day!ReloadsOnTick
  <2>1. x4' => /\ x5 <= Day!DayOf(x3')
               /\ x9.entries => x9.day \in {x5, Day!DayOf(x3')}
    BY <1>0, <1>2, DayDaysType DEF Day!ReloadsOnTick, Day!IInv, Day!NotAhead
  <2>2. CASE UNCHANGED <<x9, x10, x11>>
    BY <1>0, <2>1, <2>2, DayClockPreserves DEF Day!IInv, Day!TypeOK
  <2>3. CASE /\ x10' = Day!Restarted
             /\ x11' = x11 \cup {Day!Message("time", x10.rev + 1, x5, x1)}
             /\ UNCHANGED x9
    <3>1. PICK s : s = [kind |-> "time", num |-> x10.rev + 1, day |-> x5, at |-> x1]
      OBVIOUS
    <3>2. x11' = x11 \cup {s}
      BY <2>3, <3>1 DEF Day!Message
    <3>3. /\ x1 \in Nat /\ x3 \in Nat /\ x10.rev \in Nat /\ x5 \in Nat /\ x3 <= x1
          /\ x10.items.at \in Nat /\ x10.result.at \in Nat
          /\ \A m \in x11 : m.at \in Nat /\ m.num \in Nat
      BY DEF Day!IInv, Day!TypeOK, Day!Times, Day!Item, Day!Messages, Day!NotAhead
    <3>4. s \in Day!Messages
      BY <3>1, <3>3 DEF Day!Messages
    <3>5. x10' \in Day!Times /\ x10'.rev = x10.rev + 1 /\ x10'.pending = TRUE
          /\ x10'.result = x10.result /\ x10'.items = x10.items
      <4>1. PICK n \in Nat : n = x10.rev + 1
        BY <3>3
      <4>2. x10' = [x10 EXCEPT !.rev = n, !.pending = TRUE]
        BY <2>3, <4>1 DEF Day!Restarted
      <4> QED BY <4>1, <4>2 DEF Day!IInv, Day!TypeOK, Day!Times
    <3>6. Day!TypeOK'
      BY <1>0, <2>3, <3>2, <3>4, <3>5 DEF Day!IInv, Day!TypeOK, Day!Shown
    <3>7. Day!OfTheLoad'
      BY <1>0, <2>3, <3>1, <3>2 DEF Day!IInv, Day!OfTheLoad, Day!Shown
    <3>8. Day!TimesInOrder'
      BY <1>0, <3>1, <3>2, <3>3, <3>5 DEF Day!IInv, Day!TimesInOrder
    <3>9. Day!NotAhead'
      <4>1. x5 <= Day!DayOf(x1) /\ x9.day <= Day!DayOf(x1)
        BY DEF Day!IInv, Day!NotAhead
      <4> QED BY <1>0, <2>1, <2>3, <3>3, <4>1 DEF Day!NotAhead, Day!Shown
    <3>10. Day!ShowsOneDay'
      BY <1>0, <3>5 DEF Day!IInv, Day!ShowsOneDay, Day!Shown
    <3>11. Day!AwaitedIsComing'
      <4>1. s \in x11' /\ s.kind = "time" /\ s.num = x10'.rev /\ x11 \in SUBSET x11'
        BY <3>1, <3>2, <3>5
      <4> QED BY <1>0, <2>3, <4>1 DEF Day!IInv, Day!AwaitedIsComing, Day!Coming
    <3> QED BY <3>6, <3>7, <3>8, <3>9, <3>10, <3>11 DEF Day!IInv
  <2> QED BY <1>2, <2>2, <2>3 DEF Day!Tick
<1> QED BY <1>1, <1>2 DEF Day!Tick

LEMMA DayClosePreserves ==
  ASSUME Day!IInv, Day!Close
  PROVE  Day!IInv'
<1>1. /\ x9' \in Day!Load /\ x9'.num = x9.num + 1 /\ x9'.day = x9.day
      /\ x9'.entries = x9.entries /\ x9'.result = x9.result
      /\ x9.num \in Nat /\ x10.rev \in Nat /\ \A m \in x11 : m.num \in Nat
  BY DEF Day!Close, Day!IInv, Day!TypeOK, Day!Load, Day!Times, Day!Messages
<1>2. /\ x10' \in Day!Times /\ x10'.rev = x10.rev + 1 /\ x10'.pending = x10.pending
      /\ x10'.result = x10.result /\ x10'.items = x10.items
  BY DEF Day!Close, Day!IInv, Day!TypeOK, Day!Times
<1>3. x2' = FALSE /\ UNCHANGED <<x1, x3, x4, x5, x6, x7, x8, x11>>
  BY DEF Day!Close, Day!Shown
<1>4. Day!TypeOK'
  BY <1>1, <1>2, <1>3 DEF Day!IInv, Day!TypeOK
<1>5. Day!OfTheLoad'
  BY <1>1, <1>3 DEF Day!IInv, Day!OfTheLoad
<1>6. Day!TimesInOrder'
  BY <1>1, <1>2, <1>3 DEF Day!IInv, Day!TimesInOrder
<1>7. Day!NotAhead' /\ Day!ShowsOneDay' /\ Day!AwaitedIsComing'
  BY <1>1, <1>2, <1>3 DEF Day!IInv, Day!NotAhead, Day!ShowsOneDay, Day!AwaitedIsComing
<1> QED BY <1>4, <1>5, <1>6, <1>7 DEF Day!IInv

LEMMA DayMinutePreserves ==
  ASSUME Day!IInv, Day!MinutePasses
  PROVE  Day!IInv'
<1>1. x1' = x1 + 1 /\ x1 \in Nat
      /\ UNCHANGED <<x2, x3, x4, x5, x6, x7, x8, x9, x10, x11>>
  BY DEF Day!MinutePasses, Day!Shown, Day!IInv, Day!TypeOK
<1>2. Day!DayOf(x1) <= Day!DayOf(x1') /\ Day!DayOf(x1') \in Nat /\ Day!DayOf(x1) \in Nat
  BY <1>1, DayDaysGoOn, DayDayOfType
<1>3. Day!TypeOK' /\ Day!OfTheLoad' /\ Day!TimesInOrder' /\ Day!ShowsOneDay'
      /\ Day!AwaitedIsComing'
  BY <1>1
     DEF Day!IInv, Day!TypeOK, Day!OfTheLoad, Day!TimesInOrder, Day!ShowsOneDay,
         Day!AwaitedIsComing, Day!Coming
<1>4. Day!NotAhead'
  BY <1>1, <1>2 DEF Day!IInv, Day!NotAhead, Day!TypeOK, Day!Load
<1> QED BY <1>3, <1>4 DEF Day!IInv

LEMMA DayFollowPreserves ==
  ASSUME Day!IInv, Day!Unfollow \/ Day!Boundary
  PROVE  Day!IInv'
<1>1. UNCHANGED <<x1, x2, x3, Day!Shown, x9, x10, x11>> /\ x4' \in BOOLEAN
  BY DEF Day!Unfollow, Day!Boundary
<1>2. Day!DayOf(x3) \in Nat
  BY DayDaysType
<1>3. x4' => /\ x5 <= Day!DayOf(x3)
             /\ x9.entries => x9.day \in {x5, Day!DayOf(x3)}
  <2>1. CASE Day!Unfollow
    BY <2>1 DEF Day!Unfollow
  <2>2. CASE Day!Boundary
    <3>1. x5 \in Nat /\ (x4' => x5 = Day!DayOf(x3)) /\ (x9.entries => x9.day = x5)
      BY <2>2 DEF Day!Boundary, Day!IInv, Day!TypeOK
    <3> QED BY <1>2, <3>1
  <2> QED BY <2>1, <2>2
<1>4. Day!DayOf(x3') = Day!DayOf(x3)
  BY <1>1
<1> QED BY <1>1, <1>3, <1>4, DayClockPreserves

LEMMA DayAppliedFacts ==
  ASSUME NEW t \in Day!Times, NEW d \in Nat \ {0}, NEW a, a = Day!Applied(t, d)
  PROVE  /\ a \in Day!Times /\ a.rev = t.rev /\ a.pending = t.pending /\ a.result = t.result
         /\ \/ a.items = t.items /\ t.items.day = d
            \/ a.items = Day!None
            \/ a.items = t.result /\ t.result.day = d /\ ~t.pending
<1>1. PICK own : own = IF t.items.day = d THEN t ELSE [t EXCEPT !.items = Day!None]
  OBVIOUS
<1>2. Day!None \in Day!Item
  BY DEF Day!None, Day!Item
<1>3. /\ own \in Day!Times /\ own.rev = t.rev /\ own.pending = t.pending /\ own.result = t.result
      /\ (own.items = t.items /\ t.items.day = d) \/ own.items = Day!None
  <2>1. CASE t.items.day = d
    BY <1>1, <2>1
  <2>2. CASE t.items.day # d
    <3>1. own = [t EXCEPT !.items = Day!None]
      BY <1>1, <2>2
    <3> QED BY <1>2, <3>1 DEF Day!Times
  <2> QED BY <2>1, <2>2
<1>4. a = IF own.pending \/ own.result.day # d THEN own ELSE [own EXCEPT !.items = own.result]
  BY <1>1 DEF Day!Applied
<1>5. CASE own.pending \/ own.result.day # d
  BY <1>3, <1>4, <1>5
<1>6. CASE ~own.pending /\ own.result.day = d
  <2>1. a = [own EXCEPT !.items = own.result] /\ own.result \in Day!Item
    BY <1>3, <1>4, <1>6 DEF Day!Times
  <2> QED BY <1>3, <1>6, <2>1 DEF Day!Times
<1> QED BY <1>5, <1>6

\* What is taken from the wire only takes from it.
LEMMA DayTakenFacts ==
  ASSUME Day!IInv, NEW m \in x11, x11' = x11 \ {m}
  PROVE  /\ x11' \in SUBSET Day!Messages
         /\ \A o \in x11' : o \in x11 /\ o # m
         /\ \A kind, num : Day!Coming(kind, num) => (m.kind = kind /\ m.num = num)
                                                \/ \E o \in x11' : o.kind = kind /\ o.num = num
  BY DEF Day!IInv, Day!TypeOK, Day!Coming

LEMMA DayTakeTimePreserves ==
  ASSUME Day!IInv, NEW m \in x11, NEW ok \in BOOLEAN, Day!TakeTime(m, ok)
  PROVE  Day!IInv'
<1>1. /\ m.kind = "time" /\ m.num = x10.rev /\ x2 /\ x10.pending
      /\ x11' = x11 \ {m}
      /\ UNCHANGED <<x1, x2, x3, x4, x5, x6, x7, x8, x9>>
  BY DEF Day!TakeTime, Day!Owned, Day!Shown
<1>2. PICK r : r = IF ok THEN [day |-> m.day, at |-> m.at] ELSE Day!None
  OBVIOUS
<1>3. m.day \in Nat /\ m.at \in Nat /\ x10.items.at <= m.at /\ m.at <= x3
      /\ x10.items.at \in Nat /\ x3 \in Nat /\ x10.items.at <= x3
  BY <1>1 DEF Day!IInv, Day!TypeOK, Day!Messages, Day!TimesInOrder, Day!Times, Day!Item
<1>4. r \in Day!Item /\ r.at <= x3 /\ (r.day # 0 => x10.items.at <= r.at)
  BY <1>2, <1>3 DEF Day!Item, Day!None
<1>5. PICK t : t = [x10 EXCEPT !.pending = FALSE, !.result = r]
  OBVIOUS
<1>6. t \in Day!Times /\ t.rev = x10.rev /\ t.pending = FALSE /\ t.result = r
      /\ t.items = x10.items
  BY <1>4, <1>5 DEF Day!IInv, Day!TypeOK, Day!Times
<1>7. x5 \in Nat \ {0}
  BY DEF Day!IInv, Day!TypeOK
<1>8. x10' = Day!Applied(t, x5)
  BY <1>2, <1>5 DEF Day!TakeTime
<1>9. PICK a : a = Day!Applied(t, x5)
  OBVIOUS
<1>10. /\ a \in Day!Times /\ a.rev = x10.rev /\ a.pending = FALSE /\ a.result = r
       /\ \/ a.items = x10.items /\ x10.items.day = x5
          \/ a.items = Day!None
          \/ a.items = r /\ r.day = x5
  BY <1>6, <1>7, <1>9, DayAppliedFacts
<1>11. x10' = a
  BY <1>8, <1>9
<1>12. Day!None.day = 0 /\ Day!None.at = 0
  BY DEF Day!None
<1>13. a.items.at <= x3 /\ a.items.at <= m.at /\ (r.day # 0 => a.items.at <= r.at)
       /\ a.items.day \in {0, x5} /\ a.items.at \in Nat
  <2>1. r.at \in Nat /\ (r.day # 0 => r.at = m.at) /\ 0 <= r.at /\ 0 <= m.at /\ 0 <= x3
    BY <1>2, <1>3, <1>4 DEF Day!Item, Day!None
  <2> QED BY <1>3, <1>4, <1>7, <1>10, <1>12, <2>1
<1>14. /\ x11' \in SUBSET Day!Messages
       /\ \A o \in x11' : o \in x11
       /\ \A kind, num : Day!Coming(kind, num) => (m.kind = kind /\ m.num = num)
                                              \/ \E o \in x11' : o.kind = kind /\ o.num = num
  BY <1>1, DayTakenFacts
<1>15. Day!TypeOK'
  BY <1>1, <1>10, <1>11, <1>14 DEF Day!IInv, Day!TypeOK
<1>16. Day!OfTheLoad' /\ Day!NotAhead'
  BY <1>1, <1>14 DEF Day!IInv, Day!OfTheLoad, Day!NotAhead
<1>17. Day!TimesInOrder'
  BY <1>1, <1>4, <1>10, <1>11, <1>13, <1>14 DEF Day!IInv, Day!TimesInOrder
<1>18. Day!ShowsOneDay'
  BY <1>1, <1>11, <1>13 DEF Day!IInv, Day!ShowsOneDay
<1>19. Day!AwaitedIsComing'
  BY <1>1, <1>10, <1>11, <1>14 DEF Day!IInv, Day!AwaitedIsComing, Day!Coming
<1> QED BY <1>15, <1>16, <1>17, <1>18, <1>19 DEF Day!IInv

LEMMA DayTakeCountsPreserves ==
  ASSUME Day!IInv, NEW m \in x11, NEW ok \in BOOLEAN, Day!TakeCounts(m, ok)
  PROVE  Day!IInv'
<1>1. /\ m.kind = "counts" /\ m.num = x9.num /\ x2
      /\ x11' = x11 \ {m}
      /\ UNCHANGED <<x1, x2, x3, x4, x5, x6, x8, x10>>
  BY DEF Day!TakeCounts, Day!Owned
<1>2. PICK got : got = IF ok THEN m.day ELSE 0
  OBVIOUS
<1>3. got \in {0, x9.day} /\ got \in Nat
  BY <1>1, <1>2 DEF Day!IInv, Day!OfTheLoad, Day!TypeOK, Day!Messages
<1>4. /\ x9' \in Day!Load /\ x9'.num = x9.num /\ x9'.day = x9.day /\ x9'.result = got
      /\ x9'.entries = x9.entries /\ x9'.latest = x9.latest /\ x9'.counts = FALSE
  <2>1. PICK e \in BOOLEAN :
          x9' = [x9 EXCEPT !.counts = FALSE, !.result = got, !.countErr = e]
    <3>1. x9.countErr \in BOOLEAN /\ (~ok) \in BOOLEAN
      BY DEF Day!IInv, Day!TypeOK, Day!Load
    <3>2. CASE x9.entries \/ x9.day # x5
      BY <1>2, <3>1, <3>2 DEF Day!TakeCounts
    <3>3. CASE ~(x9.entries \/ x9.day # x5)
      BY <1>2, <3>1, <3>3 DEF Day!TakeCounts
    <3> QED BY <3>2, <3>3
  <2> QED BY <1>3, <2>1 DEF Day!IInv, Day!TypeOK, Day!Load
<1>5. x7' = x7 \/ (x7' = got /\ x9.day = x5)
  BY <1>2 DEF Day!TakeCounts
<1>6. x7' \in Nat
  BY <1>3, <1>5 DEF Day!IInv, Day!TypeOK
<1>7. /\ x11' \in SUBSET Day!Messages
      /\ \A o \in x11' : o \in x11
      /\ \A kind, num : Day!Coming(kind, num) => (m.kind = kind /\ m.num = num)
                                             \/ \E o \in x11' : o.kind = kind /\ o.num = num
  BY <1>1, DayTakenFacts
<1>8. Day!TypeOK'
  BY <1>1, <1>4, <1>6, <1>7 DEF Day!IInv, Day!TypeOK
<1>9. Day!OfTheLoad' /\ Day!TimesInOrder' /\ Day!NotAhead'
  BY <1>1, <1>3, <1>4, <1>7 DEF Day!IInv, Day!OfTheLoad, Day!TimesInOrder, Day!NotAhead
<1>10. Day!ShowsOneDay'
  BY <1>1, <1>3, <1>5 DEF Day!IInv, Day!ShowsOneDay
<1>11. Day!AwaitedIsComing'
  BY <1>1, <1>4, <1>7 DEF Day!IInv, Day!AwaitedIsComing, Day!Coming
<1> QED BY <1>8, <1>9, <1>10, <1>11 DEF Day!IInv

LEMMA DayTakeLatestPreserves ==
  ASSUME Day!IInv, NEW m \in x11, NEW ok \in BOOLEAN, Day!TakeLatest(m, ok)
  PROVE  Day!IInv'
<1>1. /\ m.kind = "latest" /\ m.num = x9.num /\ x2
      /\ x11' = x11 \ {m}
      /\ UNCHANGED <<x1, x2, x3, x4, x5, x6, x7, x10>>
  BY DEF Day!TakeLatest, Day!Owned
<1>2. x8' \in {0, x5} /\ x8' \in Nat
  BY <1>1 DEF Day!TakeLatest, Day!IInv, Day!OfTheLoad, Day!TypeOK, Day!Messages
<1>3. /\ x9' \in Day!Load /\ x9'.num = x9.num /\ x9'.day = x9.day
      /\ x9'.result = x9.result /\ x9'.counts = x9.counts
      /\ x9'.entries = x9.entries /\ x9'.latest = FALSE
  BY DEF Day!TakeLatest, Day!IInv, Day!TypeOK, Day!Load
<1>4. /\ x11' \in SUBSET Day!Messages
      /\ \A o \in x11' : o \in x11
      /\ \A kind, num : Day!Coming(kind, num) => (m.kind = kind /\ m.num = num)
                                             \/ \E o \in x11' : o.kind = kind /\ o.num = num
  BY <1>1, DayTakenFacts
<1>5. Day!TypeOK'
  BY <1>1, <1>2, <1>3, <1>4 DEF Day!IInv, Day!TypeOK
<1>6. Day!OfTheLoad' /\ Day!TimesInOrder' /\ Day!NotAhead'
  BY <1>1, <1>3, <1>4 DEF Day!IInv, Day!OfTheLoad, Day!TimesInOrder, Day!NotAhead
<1>7. Day!ShowsOneDay'
  BY <1>1, <1>2 DEF Day!IInv, Day!ShowsOneDay
<1>8. Day!AwaitedIsComing'
  BY <1>1, <1>3, <1>4 DEF Day!IInv, Day!AwaitedIsComing, Day!Coming
<1> QED BY <1>5, <1>6, <1>7, <1>8 DEF Day!IInv

LEMMA DayRefuseEntriesPreserves ==
  ASSUME Day!IInv, NEW m \in x11, Day!RefuseEntries(m)
  PROVE  Day!IInv'
<1>1. /\ m.kind = "entries" /\ x11' = x11 \ {m}
      /\ UNCHANGED <<x1, x2, x3, x4, x5, x6, x7, x8, x10>>
  BY DEF Day!RefuseEntries, Day!Owned, Day!Shown
<1>2. /\ x9' \in Day!Load /\ x9'.num = x9.num /\ x9'.day = x9.day
      /\ x9'.result = x9.result /\ x9'.counts = x9.counts
      /\ x9'.entries = FALSE /\ x9'.latest = x9.latest
  BY DEF Day!RefuseEntries, Day!IInv, Day!TypeOK, Day!Load
<1>3. /\ x11' \in SUBSET Day!Messages
      /\ \A o \in x11' : o \in x11
      /\ \A kind, num : Day!Coming(kind, num) => (m.kind = kind /\ m.num = num)
                                             \/ \E o \in x11' : o.kind = kind /\ o.num = num
  BY <1>1, DayTakenFacts
<1>4. Day!TypeOK'
  BY <1>1, <1>2, <1>3 DEF Day!IInv, Day!TypeOK
<1>5. Day!OfTheLoad' /\ Day!TimesInOrder' /\ Day!NotAhead' /\ Day!ShowsOneDay'
  BY <1>1, <1>2, <1>3 DEF Day!IInv, Day!OfTheLoad, Day!TimesInOrder, Day!NotAhead, Day!ShowsOneDay
<1>6. Day!AwaitedIsComing'
  BY <1>1, <1>2, <1>3 DEF Day!IInv, Day!AwaitedIsComing, Day!Coming
<1> QED BY <1>4, <1>5, <1>6 DEF Day!IInv

LEMMA DayDiscardPreserves ==
  ASSUME Day!IInv, NEW m \in x11, Day!Discard(m)
  PROVE  Day!IInv'
<1>1. /\ ~Day!Owned(m) /\ x11' = x11 \ {m}
      /\ UNCHANGED <<x1, x2, x3, x4, x5, x6, x7, x8, x9, x10>>
  BY DEF Day!Discard, Day!Shown
<1>2. /\ x11' \in SUBSET Day!Messages
      /\ \A o \in x11' : o \in x11
      /\ \A kind, num : Day!Coming(kind, num) => (m.kind = kind /\ m.num = num)
                                             \/ \E o \in x11' : o.kind = kind /\ o.num = num
  BY <1>1, DayTakenFacts
<1>3. Day!TypeOK' /\ Day!OfTheLoad' /\ Day!TimesInOrder' /\ Day!NotAhead' /\ Day!ShowsOneDay'
  BY <1>1, <1>2
     DEF Day!IInv, Day!TypeOK, Day!OfTheLoad, Day!TimesInOrder, Day!NotAhead, Day!ShowsOneDay
<1>4. Day!AwaitedIsComing'
  BY <1>1, <1>2 DEF Day!IInv, Day!AwaitedIsComing, Day!Coming, Day!Owned
<1> QED BY <1>3, <1>4 DEF Day!IInv

LEMMA DayTakeEntriesPreserves ==
  ASSUME Day!IInv, NEW m \in x11, NEW list \in Day!List, Day!TakeEntries(m, list)
  PROVE  Day!IInv'
<1>1. /\ m.kind = "entries" /\ m.num = x9.num /\ x9.entries
      /\ x5' = x9.day /\ x6' = list /\ x8' = 0
      /\ UNCHANGED <<x1, x2, x3, x4>>
  BY DEF Day!TakeEntries, Day!Owned
<1>2. /\ x9.num \in Nat /\ x9.day \in Nat \ {0} /\ x9.result \in {0, x9.day}
      /\ x9.result \in Nat /\ x7 \in Nat
  BY <1>1 DEF Day!IInv, Day!TypeOK, Day!Load, Day!OfTheLoad
<1>3. /\ x9' \in Day!Load /\ x9'.num = x9.num /\ x9'.day = x9.day
      /\ x9'.result = x9.result /\ x9'.counts = x9.counts
      /\ x9'.entries = FALSE /\ (x9'.latest <=> list = "ongoing")
  <2>1. PICK on \in BOOLEAN : on <=> list = "ongoing"
    OBVIOUS
  <2>2. PICK e \in BOOLEAN : e <=> ~x9.counts /\ x9.result = 0
    OBVIOUS
  <2>3. x9' = [x9 EXCEPT !.entries = FALSE, !.latest = on, !.countErr = e]
    BY <2>1, <2>2 DEF Day!TakeEntries
  <2> QED BY <2>1, <2>3 DEF Day!IInv, Day!TypeOK, Day!Load
<1>4. PICK news : news = IF list = "ongoing" THEN {Day!Message("latest", x9.num, x9.day, 0)}
                         ELSE {}
  OBVIOUS
<1>5. x11' = (x11 \ {m}) \cup news
  BY <1>4 DEF Day!TakeEntries
<1>6. /\ news \in SUBSET Day!Messages
      /\ \A o \in news : o.kind = "latest" /\ o.num = x9.num /\ o.day = x9.day
      /\ list = "ongoing" => news # {}
  <2>1. PICK g : g = [kind |-> "latest", num |-> x9.num, day |-> x9.day, at |-> 0]
    OBVIOUS
  <2>2. g \in Day!Messages /\ g.kind = "latest" /\ g.num = x9.num /\ g.day = x9.day
    BY <1>2, <2>1 DEF Day!Messages
  <2>3. news = IF list = "ongoing" THEN {g} ELSE {}
    BY <1>4, <2>1 DEF Day!Message
  <2> QED BY <2>2, <2>3
<1>7. /\ x11' \in SUBSET Day!Messages
      /\ \A o \in x11' : o \in x11 \/ (o.kind = "latest" /\ o.num = x9.num /\ o.day = x9.day)
      /\ \A o \in x11 : o.kind # "entries" => o \in x11'
      /\ list = "ongoing" => \E o \in x11' : o.kind = "latest" /\ o.num = x9.num
  BY <1>1, <1>5, <1>6 DEF Day!IInv, Day!TypeOK
<1>8. PICK a : a = Day!Applied(x10, x9.day)
  OBVIOUS
<1>9. /\ x10' = a
      /\ a \in Day!Times /\ a.rev = x10.rev /\ a.pending = x10.pending /\ a.result = x10.result
      /\ \/ a.items = x10.items /\ x10.items.day = x9.day
         \/ a.items = Day!None
         \/ a.items = x10.result /\ x10.result.day = x9.day /\ ~x10.pending
  <2>1. x10 \in Day!Times
    BY DEF Day!IInv, Day!TypeOK
  <2>2. x10' = a
    BY <1>8 DEF Day!TakeEntries
  <2> QED BY <1>2, <1>8, <2>1, <2>2, DayAppliedFacts
<1>10. x7' \in Nat /\ (list # "empty" => x7' \in {0, x9.day})
  <2>1. CASE ~x9.counts
    BY <1>2, <2>1 DEF Day!TakeEntries
  <2>2. CASE x9.counts /\ x9.day # x5
    BY <1>2, <2>2 DEF Day!TakeEntries
  <2>3. CASE x9.counts /\ x9.day = x5
    BY <1>2, <2>3 DEF Day!TakeEntries, Day!IInv, Day!ShowsOneDay
  <2> QED BY <2>1, <2>2, <2>3
<1>11. Day!TypeOK'
  BY <1>1, <1>2, <1>3, <1>7, <1>9, <1>10 DEF Day!IInv, Day!TypeOK
<1>12. Day!OfTheLoad'
  BY <1>1, <1>2, <1>3, <1>7 DEF Day!IInv, Day!OfTheLoad
<1>13. a.items.day \in {0, x9.day} /\ a.items.at \in Nat /\ a.items.at <= x3
  BY <1>9 DEF Day!IInv, Day!TypeOK, Day!TimesInOrder, Day!None, Day!Times, Day!Item
<1>14. Day!TimesInOrder'
  <2>1. x10.items.at \in Nat /\ x10.result.at \in Nat /\ x3 \in Nat
        /\ (\A o \in x11 : o.at \in Nat) /\ Day!None.at = 0
    BY DEF Day!IInv, Day!TypeOK, Day!Times, Day!Item, Day!Messages, Day!None
  <2>2. x10'.items.at <= x10.items.at \/ (~x10.pending /\ x10'.items.at <= x10.result.at)
    BY <1>9, <2>1
  <2>3. x10'.items.at <= x3 /\ x10'.items.at \in Nat
    BY <1>9, <1>13
  <2>4. ~x10.pending /\ x10.result.day # 0 => x10'.items.at <= x10.result.at
    BY <1>9, <2>1, <2>2, <2>3 DEF Day!IInv, Day!TimesInOrder
  <2>5. \A o \in x11 : o.kind = "time" /\ o.num = x10.rev /\ x10.pending
                        => x10'.items.at <= o.at
    BY <1>9, <2>1, <2>2, <2>3 DEF Day!IInv, Day!TimesInOrder
  <2>6. x10'.rev = x10.rev /\ x10'.pending = x10.pending /\ x10'.result = x10.result
        /\ x3' = x3
    BY <1>1, <1>9
  <2>7. \A o \in x11' : o.kind = "time" => o \in x11
    BY <1>7
  <2> QED BY <2>3, <2>4, <2>5, <2>6, <2>7 DEF Day!IInv, Day!TimesInOrder
<1>15. Day!NotAhead'
  BY <1>1, <1>3 DEF Day!IInv, Day!NotAhead, Day!TypeOK, Day!Load
<1>16. Day!ShowsOneDay'
  BY <1>1, <1>9, <1>10, <1>13 DEF Day!ShowsOneDay
<1>17. Day!AwaitedIsComing'
  BY <1>1, <1>3, <1>7, <1>9 DEF Day!IInv, Day!AwaitedIsComing, Day!Coming
<1> QED BY <1>11, <1>12, <1>14, <1>15, <1>16, <1>17 DEF Day!IInv

LEMMA DayInitIInv == Day!Init => Day!IInv
<1> SUFFICES ASSUME Day!Init PROVE Day!IInv
  OBVIOUS
<1>1. Day!TypeOK
  <2>1. Day!None \in Day!Item
    BY DEF Day!None, Day!Item
  <2>2. x9 \in Day!Load
    BY DEF Day!Init, Day!Load
  <2>3. x10 \in Day!Times
    BY <2>1 DEF Day!Init, Day!Times
  <2>4. x1 = 1 /\ x3 = 1 /\ x5 = 1 /\ x2 = FALSE /\ x4 = TRUE /\ x6 = "empty"
        /\ x7 = 0 /\ x8 = 0 /\ x11 = {}
    BY DEF Day!Init
  <2>5. x11 \in SUBSET Day!Messages
    BY <2>4
  <2>6. /\ x1 \in Nat /\ x3 \in Nat /\ x5 \in Nat \ {0} /\ x7 \in Nat /\ x8 \in Nat
        /\ x6 \in Day!List
    BY <2>4 DEF Day!List
  <2>7. x2 \in BOOLEAN /\ x4 \in BOOLEAN
    BY <2>4, Zenon
  <2> QED BY <2>2, <2>3, <2>5, <2>6, <2>7 DEF Day!TypeOK
<1>2. Day!DayOf(1) = 1
  BY DEF Day!DayOf
<1> QED BY <1>1, <1>2
           DEF Day!Init, Day!IInv, Day!OfTheLoad, Day!TimesInOrder, Day!NotAhead, Day!ShowsOneDay,
               Day!AwaitedIsComing, Day!None

LEMMA DayNextPreserves ==
  ASSUME Day!IInv, Day!Next \/ UNCHANGED Day!vars
  PROVE  Day!IInv'
<1>1. CASE UNCHANGED Day!vars
  BY <1>1
     DEF Day!vars, Day!Shown, Day!IInv, Day!TypeOK, Day!OfTheLoad, Day!TimesInOrder, Day!NotAhead,
         Day!ShowsOneDay, Day!AwaitedIsComing, Day!Coming
<1>2. CASE \/ Day!MinutePasses \/ Day!Open \/ Day!Close \/ Day!Unfollow \/ Day!Boundary
           \/ Day!ChangeDay \/ Day!Reload
           \/ Day!End \/ Day!Saved \/ Day!Tick
  BY <1>2, DayMinutePreserves, DayOpenPreserves, DayClosePreserves, DayFollowPreserves,
     DayChangeDayPreserves, DayReloadPreserves, DayEndPreserves, DaySavedPreserves,
     DayTickPreserves
<1>3. ASSUME NEW m \in x11, Day!Reply(m)
      PROVE  Day!IInv'
  BY <1>3, DayRefuseEntriesPreserves, DayTakeEntriesPreserves, DayTakeTimePreserves,
     DayTakeCountsPreserves, DayTakeLatestPreserves, DayDiscardPreserves DEF Day!Reply
<1> QED BY <1>1, <1>2, <1>3 DEF Day!Next

\* The Subject times of a day never go back, and a screen that follows the clock shows its day.
LEMMA DayContinuity ==
  ASSUME Day!IInv, Day!Next \/ UNCHANGED Day!vars
  PROVE  Day!FollowsToday /\ Day!TimesNeverGoBack
<1>1. Day!FollowsToday
  <2>1. ASSUME NEW d, Day!LoadDay(d, x3')
        PROVE  x9'.entries /\ x9'.day = d
    BY <2>1 DEF Day!LoadDay, Day!Begun, Day!IInv, Day!TypeOK, Day!Load
  <2>2. CASE Day!Open
    BY <2>1, <2>2 DEF Day!Open, Day!FollowsToday
  <2>3. CASE Day!End
    BY <2>1, <2>3 DEF Day!End, Day!FollowsToday, Day!Shown
  <2>4. CASE Day!Saved
    BY <2>1, <2>4 DEF Day!Saved, Day!FollowsToday
  <2>5. CASE Day!Tick
    <3>1. CASE Day!LoadDay(Day!DayOf(x1), x1)
      BY <2>1, <2>5, <3>1 DEF Day!Tick, Day!FollowsToday
    <3>2. CASE ~Day!ReloadsOnTick /\ UNCHANGED x9
      BY <2>5, <3>2, DayDaysType
         DEF Day!Tick, Day!ReloadsOnTick, Day!FollowsToday, Day!Shown, Day!IInv, Day!NotAhead
    <3> QED BY <2>5, <3>1, <3>2 DEF Day!Tick
  <2>6. CASE x3' = x3
    BY <2>6 DEF Day!FollowsToday
  <2>7. \/ Day!Open \/ Day!End \/ Day!Saved \/ Day!Tick
        \/ UNCHANGED Day!vars \/ Day!MinutePasses \/ Day!Close \/ Day!Unfollow \/ Day!Boundary
        \/ Day!ChangeDay \/ Day!Reload
        \/ \E m \in x11 : Day!Reply(m)
    BY DEF Day!Next
  <2>8. UNCHANGED Day!vars \/ Day!MinutePasses \/ Day!Close \/ Day!Unfollow \/ Day!Boundary
        \/ Day!ChangeDay \/ Day!Reload
        => x3' = x3
    BY
       DEF Day!vars, Day!MinutePasses, Day!Close, Day!Unfollow, Day!Boundary, Day!ChangeDay,
           Day!Reload
  <2>9. (\E m \in x11 : Day!Reply(m)) => x3' = x3
    BY
       DEF Day!Reply, Day!RefuseEntries, Day!TakeEntries, Day!TakeTime, Day!TakeCounts,
           Day!TakeLatest, Day!Discard
  <2> QED BY <2>2, <2>3, <2>4, <2>5, <2>6, <2>7, <2>8, <2>9
<1>2. Day!TimesNeverGoBack
  <2>0. x10.items.at \in Nat /\ x10.result.at \in Nat /\ x10 \in Day!Times /\ x5 \in Nat \ {0}
    BY DEF Day!IInv, Day!TypeOK, Day!Times, Day!Item
  <2>1. CASE x10'.items = x10.items
    BY <2>0, <2>1 DEF Day!TimesNeverGoBack
  <2>2. ASSUME NEW m \in x11, NEW ok \in BOOLEAN, Day!TakeTime(m, ok)
        PROVE  Day!TimesNeverGoBack
    <3>1. PICK r : r = IF ok THEN [day |-> m.day, at |-> m.at] ELSE Day!None
      OBVIOUS
    <3>2. m.num = x10.rev /\ x10.pending /\ m.kind = "time"
      BY <2>2 DEF Day!TakeTime, Day!Owned
    <3>3. m.at \in Nat /\ m.day \in Nat /\ x10.items.at <= m.at
      BY <3>2 DEF Day!IInv, Day!TypeOK, Day!Messages, Day!TimesInOrder
    <3>4. r \in Day!Item /\ (r.day # 0 => r.at = m.at)
      BY <3>1, <3>3 DEF Day!Item, Day!None
    <3>5. PICK t : t = [x10 EXCEPT !.pending = FALSE, !.result = r]
      OBVIOUS
    <3>6. t \in Day!Times /\ t.result = r /\ t.items = x10.items
      BY <2>0, <3>4, <3>5 DEF Day!Times
    <3>7. PICK a : a = Day!Applied(t, x5)
      OBVIOUS
    <3>8. x10' = a
      BY <2>2, <3>1, <3>5, <3>7 DEF Day!TakeTime
    <3>9. a.items = x10.items \/ a.items = Day!None \/ (a.items = r /\ r.day = x5)
      BY <2>0, <3>6, <3>7, DayAppliedFacts
    <3> QED BY <2>0, <3>3, <3>4, <3>8, <3>9 DEF Day!TimesNeverGoBack, Day!None
  <2>3. ASSUME NEW m \in x11, NEW list \in Day!List, Day!TakeEntries(m, list)
        PROVE  Day!TimesNeverGoBack
    <3>1. x9.day \in Nat \ {0}
      BY <2>3 DEF Day!TakeEntries, Day!Owned, Day!IInv, Day!TypeOK, Day!Load, Day!OfTheLoad
    <3>2. PICK a : a = Day!Applied(x10, x9.day)
      OBVIOUS
    <3>3. x10' = a
      BY <2>3, <3>2 DEF Day!TakeEntries
    <3>4. \/ a.items = x10.items
          \/ a.items = Day!None
          \/ a.items = x10.result /\ x10.result.day = x9.day /\ ~x10.pending
      BY <2>0, <3>1, <3>2, DayAppliedFacts
    <3> QED BY <2>0, <3>1, <3>3, <3>4
               DEF Day!TimesNeverGoBack, Day!None, Day!IInv, Day!TimesInOrder
  <2>4. ASSUME NEW d \in Nat, NEW minute \in Nat, Day!LoadDay(d, minute)
        PROVE  x10'.items = x10.items
    BY <2>4 DEF Day!LoadDay, Day!Restarted, Day!IInv, Day!TypeOK, Day!Times
  <2>5. Day!Restarted.items = x10.items /\ [x10 EXCEPT !.rev = @ + 1].items = x10.items
    BY DEF Day!Restarted, Day!IInv, Day!TypeOK, Day!Times
  <2>6. CASE \/ UNCHANGED Day!vars \/ Day!MinutePasses \/ Day!Open \/ Day!Close \/ Day!Unfollow
             \/ Day!Boundary \/ Day!ChangeDay
             \/ Day!Reload \/ Day!End \/ Day!Saved \/ Day!Tick
    <3>1. x10' = x10 \/ x10' = Day!Restarted \/ x10' = [x10 EXCEPT !.rev = @ + 1]
      BY <2>6, Zenon
         DEF Day!vars, Day!MinutePasses, Day!Open, Day!Close, Day!Unfollow, Day!Boundary,
             Day!ChangeDay, Day!Reload, Day!End, Day!Saved, Day!Tick, Day!LoadDay
    <3>2. x10'.items = x10.items
      BY <2>5, <3>1
    <3> QED BY <2>1, <3>2
  <2>7. ASSUME NEW m \in x11, Day!Reply(m)
        PROVE  Day!TimesNeverGoBack
    <3>1. x10' = x10 \/ (\E ok \in BOOLEAN : Day!TakeTime(m, ok)) \/ \E list \in Day!List : Day!TakeEntries(m, list)
      BY <2>7 DEF Day!Reply, Day!RefuseEntries, Day!TakeCounts, Day!TakeLatest, Day!Discard
    <3> QED BY <2>1, <2>2, <2>3, <3>1
  <2> QED BY <2>6, <2>7 DEF Day!Next
<1> QED BY <1>1, <1>2

-----------------------------------------------------------------------------
(* The Event cards: x1 the store, x2 whether the screen is open, x3 the    *)
(* day, x4 the cards listed, x5 their load, x6 the position, x7 the card   *)
(* that is open, x8 the form, x9 the save acknowledged, x10 the commands.  *)

\* The cardinality that the screen counts its cards with is that of the library's theorems.
LEMMA CardsCardinality == \A s : Cards!Cardinality(s) = Cardinality(s)
  BY DEF Cards!Cardinality, Cardinality

\* A card is found again at its place.
LEMMA CardsCardsAreFinite ==
  ASSUME NEW s \in SUBSET Cards!Card
  PROVE  IsFiniteSet(s) /\ Cardinality(s) \in Nat
<1>1. IsFiniteSet(1..MaxCard)
  BY CardsAssumption, FS_Interval
<1> QED BY <1>1, FS_Subset, FS_CardinalityType DEF Cards!Card

LEMMA CardsIndexType ==
  ASSUME NEW s \in SUBSET Cards!Card, NEW c
  PROVE  Cards!Index(c, s) \in Nat
  BY CardsCardsAreFinite, CardsCardinality DEF Cards!Index

LEMMA CardsLastType ==
  ASSUME NEW s \in SUBSET Cards!Card
  PROVE  Cards!Last(s) \in Nat
<1>1. IsFiniteSet(s) /\ Cardinality(s) \in Nat
  BY CardsCardsAreFinite
<1>2. s # {} => Cardinality(s) # 0
  BY <1>1, FS_EmptySet
<1> QED BY <1>1, <1>2, CardsCardinality DEF Cards!Last

LEMMA CardsIndexInOrder ==
  ASSUME NEW s \in SUBSET Cards!Card, NEW c \in s, NEW d \in s, c < d
  PROVE  Cards!Index(c, s) < Cards!Index(d, s)
<1> DEFINE lower == {x \in s : x < c}
           upper == {x \in s : x < d}
<1>1. c \in Int /\ d \in Int /\ \A x \in s : x \in Int
  BY CardsAssumption DEF Cards!Card
<1>2. lower \in SUBSET upper /\ c \in upper /\ c \notin lower
  <2>1. \A x \in Int : x < c => x < d
    BY <1>1
  <2>2. ~(c < c)
    BY <1>1
  <2> QED BY <1>1, <2>1, <2>2
<1>3. upper \in SUBSET Cards!Card /\ lower \in SUBSET Cards!Card
  OBVIOUS
<1>4. Cards!Index(c, s) = Cardinality(lower) /\ Cards!Index(d, s) = Cardinality(upper)
  BY CardsCardinality DEF Cards!Index
<1> HIDE DEF lower, upper
<1>5. IsFiniteSet(upper) /\ Cardinality(lower) \in Nat /\ Cardinality(upper) \in Nat
  BY <1>3, CardsCardsAreFinite
<1>6. Cardinality(lower) <= Cardinality(upper) /\ Cardinality(lower) # Cardinality(upper)
  BY <1>2, <1>5, FS_Subset
<1> QED BY <1>4, <1>5, <1>6

LEMMA CardsCardAtItsIndex ==
  ASSUME NEW s \in SUBSET Cards!Card, NEW c \in s
  PROVE  Cards!At(Cards!Index(c, s), s) = c
<1>1. PICK i : i = Cards!Index(c, s)
  OBVIOUS
<1>2. PICK d : d = CHOOSE x \in s : Cards!Index(x, s) = i
  OBVIOUS
<1>3. d \in s /\ Cards!Index(d, s) = i
  BY <1>1, <1>2
<1>4. c \in Int /\ d \in Int /\ Cards!Index(c, s) \in Nat
  BY <1>3, CardsAssumption, CardsIndexType DEF Cards!Card
<1>5. ~(c < d) /\ ~(d < c)
  BY <1>1, <1>3, <1>4, CardsIndexInOrder
<1>6. Cards!At(i, s) = d
  BY <1>2 DEF Cards!At
<1> QED BY <1>1, <1>4, <1>5, <1>6

LEMMA CardsBoundaryType ==
  ASSUME Cards!IInv
  PROVE  Cards!OnBoundary \in Nat /\ Cards!Last(x4.shown) \in Nat
  BY CardsLastType DEF Cards!IInv, Cards!TypeOK, Cards!OnBoundary

\* An action that does not touch what a part of the invariant is about keeps that part.
LEMMA CardsListsStay ==
  ASSUME Cards!ListsOK, UNCHANGED <<x1, x3, x9>>,
         x4'.shown = x4.shown, x4'.from = x4.from,
         x5.num \in Nat, x5'.num \in Nat, x5.num <= x5'.num, x4.from \in Nat,
         \A m \in x10' : m \in x10 \/ m.ran = FALSE
  PROVE  Cards!ListsOK'
  BY DEF Cards!ListsOK, Cards!OwnSaveIsShown

\* A day is loaded.
LEMMA CardsLoadFacts ==
  ASSUME Cards!IInv, NEW d \in Cards!Day, Cards!LoadDay(d)
  PROVE  /\ x5' \in [num : Nat, day : {0} \cup Cards!Day, pending : BOOLEAN]
         /\ x5'.num = x5.num + 1 /\ x5'.day = d /\ x5'.pending = TRUE
         /\ x7' = [num |-> x7'.num, key |-> x7'.key, opening |-> x7'.opening,
                     picker |-> x7'.picker]
         /\ x7'.num = x7.num + 1 /\ x7'.key = x7.key /\ x7'.opening = FALSE
         /\ x7'.picker = x7.picker
         /\ \E g : /\ Cards!List(d) = {g}
                   /\ Cards!IsMessage(g) /\ g.kind = "entries" /\ g.num = x5'.num /\ g.day = d
                   /\ g.ran = FALSE
<1>1. x5.num \in Nat /\ x7.num \in Nat /\ x5.num + 1 \in Nat /\ d # 0 /\ d \in Nat
  BY DEF Cards!IInv, Cards!TypeOK, Cards!Day, Cards!Today
<1>2. x5' = [num |-> x5.num + 1, day |-> d, pending |-> TRUE]
  BY DEF Cards!LoadDay
<1>3. PICK n \in Nat : n = x5.num + 1
  BY <1>1
<1>4. PICK g : g = Cards!Message("entries", n, d, 0)
  OBVIOUS
<1>5. Cards!List(d) = {g}
  BY <1>3, <1>4 DEF Cards!List
<1>6. /\ x7' = [num |-> x7'.num, key |-> x7'.key, opening |-> x7'.opening,
                  picker |-> x7'.picker]
      /\ x7'.num = x7.num + 1 /\ x7'.key = x7.key /\ x7'.opening = FALSE
      /\ x7'.picker = x7.picker
  <2>1. x7' = [x7 EXCEPT !.num = @ + 1, !.opening = FALSE]
    BY DEF Cards!LoadDay
  <2>2. x7 = [num |-> x7.num, key |-> x7.key, opening |-> x7.opening,
                picker |-> x7.picker]
    BY DEF Cards!IInv, Cards!TypeOK
  <2>3. x7' = [num |-> x7.num + 1, key |-> x7.key, opening |-> FALSE,
                 picker |-> x7.picker]
    BY <2>1, <2>2
  <2> QED BY <2>3
<1>7. Cards!IsMessage(g) /\ g.kind = "entries" /\ g.num = n /\ g.day = d /\ g.ran = FALSE
  BY <1>4 DEF Cards!Message, Cards!IsMessage
<1> QED BY <1>1, <1>2, <1>3, <1>5, <1>6, <1>7

LEMMA CardsAskPreserves ==
  ASSUME Cards!IInv, NEW d \in Cards!Day, Cards!Ask(d), x5.num < MaxLoads, x2' = TRUE,
         x6' \in [index : Nat, follow : BOOLEAN, boundary : BOOLEAN],
         x7.key # 0 => x6' = x6,
         Cards!Kept, UNCHANGED x8
  PROVE  Cards!IInv'
<1>1. Cards!LoadDay(d) /\ x10' = x10 \cup Cards!List(d)
  BY DEF Cards!Ask
<1>2. /\ x5' \in [num : Nat, day : {0} \cup Cards!Day, pending : BOOLEAN]
      /\ x5'.num = x5.num + 1 /\ x5'.day = d /\ x5'.pending = TRUE
      /\ x7' = [num |-> x7'.num, key |-> x7'.key, opening |-> x7'.opening,
                  picker |-> x7'.picker]
      /\ x7'.num = x7.num + 1 /\ x7'.key = x7.key /\ x7'.opening = FALSE
      /\ x7'.picker = x7.picker
  BY <1>1, CardsLoadFacts
<1>3. PICK g : /\ Cards!List(d) = {g}
               /\ Cards!IsMessage(g) /\ g.kind = "entries" /\ g.num = x5'.num /\ g.day = d
               /\ g.ran = FALSE
  BY <1>1, CardsLoadFacts
<1>4. x10' = x10 \cup {g} /\ UNCHANGED <<x1, x3, x4, x9, x8>>
  BY <1>1, <1>3 DEF Cards!Kept
<1>5. x5.num \in Nat /\ x7.num \in Nat /\ x8.num \in Nat /\ x4.from \in Nat
      /\ d \in Nat \ {0} /\ (\A m \in x10 : m.num \in Nat)
  BY DEF Cards!IInv, Cards!TypeOK, Cards!IsMessage, Cards!Day, Cards!Today
<1>6. Cards!TypeOK'
  <2>1. \A m \in x10' : Cards!IsMessage(m)
    BY <1>3, <1>4 DEF Cards!IInv, Cards!TypeOK
  <2>2. x7'.num \in Nat
    BY <1>2, <1>5
  <2>3. x7'.opening \in BOOLEAN
    BY <1>2, Zenon
  <2> QED BY <1>2, <1>4, <1>5, <2>1, <2>2, <2>3 DEF Cards!IInv, Cards!TypeOK
<1>7. Cards!Numbers'
  BY <1>2, <1>3, <1>4, <1>5 DEF Cards!IInv, Cards!Numbers
<1>8. Cards!FormOK'
  BY <1>2, <1>4, <1>5, CardsAssumption
     DEF Cards!IInv, Cards!FormOK, Cards!Unopened, Cards!MayStillOpen
<1>9. Cards!CardOK'
  BY <1>2, <1>4 DEF Cards!IInv, Cards!CardOK, Cards!OpenCardIsSelected, Cards!Selected
<1>10. Cards!ListsOK'
  <2>1. \A m \in x10' : m \in x10 \/ m.ran = FALSE
    BY <1>3, <1>4
  <2>2. x5'.num \in Nat /\ x5.num <= x5'.num
    BY <1>2, <1>5
  <2> QED BY <1>4, <1>5, <2>1, <2>2, CardsListsStay DEF Cards!IInv
<1>11. Cards!AwaitedIsComing'
  BY <1>2, <1>3, <1>4 DEF Cards!IInv, Cards!AwaitedIsComing, Cards!Coming
<1> QED BY <1>6, <1>7, <1>8, <1>9, <1>10, <1>11 DEF Cards!IInv

LEMMA CardsOpenPreserves ==
  ASSUME Cards!IInv, Cards!Open
  PROVE  Cards!IInv'
<1>1. PICK d : d = IF x6.follow THEN Cards!Today ELSE x3
  OBVIOUS
<1>2. Cards!Ask(d) /\ x5.num < MaxLoads /\ x2' = TRUE /\ x6' = x6 /\ Cards!Kept /\ UNCHANGED x8
  BY <1>1, CardsCardinality DEF Cards!Open, Cards!MayAsk
<1>3. d \in Cards!Day
  BY <1>1 DEF Cards!Day, Cards!Today, Cards!IInv, Cards!TypeOK
<1> QED BY <1>2, <1>3, CardsAskPreserves DEF Cards!IInv, Cards!TypeOK

\* The timeline or the form moves on and nothing is asked for.
LEMMA CardsStillPreserves ==
  ASSUME Cards!IInv, x2' = x2, x6' \in [index : Nat, follow : BOOLEAN, boundary : BOOLEAN],
         x7.key # 0 => x6' = x6,
         x8' = [num |-> x8'.num, open |-> x8'.open, ending |-> x8'.ending,
                  saving |-> x8'.saving],
         x8'.num \in Nat, x8'.open \in BOOLEAN,
         \/ x8' = x8
         \/ /\ x8.saving = FALSE /\ x8'.saving = FALSE /\ x8.num <= x8'.num
            /\ x8'.open => x2 /\ x7.key = 0 /\ ~x8.open /\ x8'.num = x8.num + 1
                             /\ x8'.num <= MaxForms,
         Cards!Kept, Cards!NoLoad
  PROVE  Cards!IInv'
<1>1. UNCHANGED <<x1, x3, x4, x9, x5, x7, x10, x2>>
  BY DEF Cards!Kept, Cards!NoLoad
<1>2. x8.num \in Nat /\ x8.open \in BOOLEAN /\ x8.saving \in BOOLEAN /\ x5.num \in Nat
      /\ \A m \in x10 : m.num \in Nat
  BY DEF Cards!IInv, Cards!TypeOK, Cards!IsMessage
<1>3. Cards!TypeOK'
  BY <1>1, <1>2 DEF Cards!IInv, Cards!TypeOK
<1>4. Cards!Numbers'
  <2>1. x8'.num \in Nat /\ x8.num <= x8'.num /\ (x8.saving => x8' = x8)
    BY <1>2
  <2>2. \A m \in x10 : m.kind = "save" => m.num <= x8'.num /\ (m.num = x8'.num => x8'.saving)
    BY <1>2, <2>1 DEF Cards!IInv, Cards!Numbers
  <2> QED BY <1>1, <2>2 DEF Cards!IInv, Cards!Numbers
<1>5. Cards!FormOK'
  BY <1>1, <1>2, CardsAssumption DEF Cards!IInv, Cards!FormOK, Cards!Unopened, Cards!MayStillOpen
<1>6. Cards!CardOK'
  BY <1>1 DEF Cards!IInv, Cards!CardOK, Cards!OpenCardIsSelected, Cards!Selected
<1>7. Cards!ListsOK'
  BY <1>1 DEF Cards!IInv, Cards!ListsOK, Cards!OwnSaveIsShown
<1>8. Cards!AwaitedIsComing'
  BY <1>1 DEF Cards!IInv, Cards!AwaitedIsComing, Cards!Coming
<1> QED BY <1>3, <1>4, <1>5, <1>6, <1>7, <1>8 DEF Cards!IInv

LEMMA CardsDayKeysPreserve ==
  ASSUME Cards!IInv, Cards!ChangeDay \/ Cards!Reload
  PROVE  Cards!IInv'
<1>1. PICK d \in Cards!Day : Cards!Ask(d)
  <2>1. Cards!Wanted \in Cards!Day
    BY DEF Cards!Wanted, Cards!IInv, Cards!TypeOK, Cards!Numbers
  <2> QED BY <2>1 DEF Cards!ChangeDay, Cards!Reload
<1>2. /\ x5.num < MaxLoads /\ x2 /\ x2' = x2 /\ x7.key = 0 /\ Cards!Kept
      /\ UNCHANGED x8
  BY CardsCardinality
     DEF Cards!ChangeDay, Cards!Reload, Cards!TimelineKeys, Cards!Keys, Cards!MayAsk
<1>3. x6' \in [index : Nat, follow : BOOLEAN, boundary : BOOLEAN]
  BY CardsBoundaryType DEF Cards!ChangeDay, Cards!Reload, Cards!IInv, Cards!TypeOK
<1> QED BY <1>1, <1>2, <1>3, CardsAskPreserves DEF Cards!IInv, Cards!TypeOK

LEMMA CardsEndPreserves ==
  ASSUME Cards!IInv, Cards!End
  PROVE  Cards!IInv'
<1>1. x6' \in [index : Nat, follow : BOOLEAN, boundary : BOOLEAN]
  BY CardsBoundaryType DEF Cards!End
<1>2. /\ x5.num < MaxLoads /\ x2 /\ x2' = x2 /\ x7.key = 0 /\ Cards!Kept
      /\ UNCHANGED x8
  BY CardsCardinality DEF Cards!End, Cards!TimelineKeys, Cards!Keys, Cards!MayAsk
<1>3. CASE Cards!Ask(Cards!Today)
  BY <1>1, <1>2, <1>3, CardsAskPreserves DEF Cards!Day, Cards!Today, Cards!IInv, Cards!TypeOK
<1>4. CASE Cards!NoLoad
  BY <1>1, <1>2, <1>4, CardsStillPreserves DEF Cards!IInv, Cards!TypeOK
<1> QED BY <1>3, <1>4 DEF Cards!End

LEMMA CardsMovePreserves ==
  ASSUME Cards!IInv, Cards!Move
  PROVE  Cards!IInv'
<1>1. x6' \in [index : Nat, follow : BOOLEAN, boundary : BOOLEAN]
  <2>1. Cards!Last(x4.shown) \in Nat /\ (x3 = Cards!Today) \in BOOLEAN
    BY CardsBoundaryType
  <2>2. CASE x6' = [index |-> Cards!Last(x4.shown), follow |-> (x3 = Cards!Today), boundary |-> TRUE]
    BY <2>1, <2>2
  <2>3. CASE x6' \in {[index |-> i, follow |-> FALSE, boundary |-> FALSE] :
                         i \in 0..Cards!Last(x4.shown)}
    <3>1. PICK i \in 0..Cards!Last(x4.shown) :
            x6' = [index |-> i, follow |-> FALSE, boundary |-> FALSE]
      BY <2>3
    <3>2. i \in Nat
      BY <2>1
    <3> QED BY <3>1, <3>2
  <2> QED BY <2>2, <2>3 DEF Cards!Move
<1>2. x2' = x2 /\ x7.key = 0 /\ Cards!Kept /\ Cards!NoLoad /\ x8' = x8
  BY DEF Cards!Move, Cards!TimelineKeys, Cards!Keys
<1> QED BY <1>1, <1>2, CardsStillPreserves DEF Cards!IInv, Cards!TypeOK

LEMMA CardsStartFormPreserves ==
  ASSUME Cards!IInv, Cards!StartForm
  PROVE  Cards!IInv'
<1>1. x6' \in [index : Nat, follow : BOOLEAN, boundary : BOOLEAN]
  BY CardsBoundaryType DEF Cards!StartForm, Cards!IInv, Cards!TypeOK
<1>2. /\ x2 /\ x2' = x2 /\ x7.key = 0 /\ ~x8.open /\ Cards!Kept /\ Cards!NoLoad
      /\ x8.num < MaxForms
  BY DEF Cards!StartForm, Cards!TimelineKeys, Cards!Keys
<1>3. PICK c : x8' = [num |-> x8.num + 1, open |-> TRUE, ending |-> c, saving |-> FALSE]
  BY DEF Cards!StartForm
<1>4. x8.num \in Nat /\ x8.saving = FALSE /\ MaxForms \in Nat
  BY <1>2, CardsAssumption DEF Cards!IInv, Cards!TypeOK, Cards!FormOK
<1>5. /\ x8' = [num |-> x8'.num, open |-> x8'.open, ending |-> x8'.ending,
                  saving |-> x8'.saving]
      /\ x8'.num = x8.num + 1 /\ x8'.open = TRUE /\ x8'.saving = FALSE
  BY <1>3
<1>6. x8'.num \in Nat /\ x8.num <= x8'.num /\ x8'.num <= MaxForms
  BY <1>2, <1>4, <1>5
<1>7. x8'.open \in BOOLEAN
  BY <1>5, Zenon
<1> QED BY <1>1, <1>2, <1>4, <1>5, <1>6, <1>7, CardsStillPreserves

LEMMA CardsCancelFormPreserves ==
  ASSUME Cards!IInv, Cards!CancelForm
  PROVE  Cards!IInv'
<1>1. x2' = x2 /\ x6' = x6 /\ ~x8.saving /\ Cards!Kept /\ Cards!NoLoad
      /\ x8' = [num |-> x8.num + 1, open |-> FALSE, ending |-> 0, saving |-> FALSE]
  BY DEF Cards!CancelForm
<1>2. x8.num \in Nat /\ x8.saving = FALSE
      /\ x6 \in [index : Nat, follow : BOOLEAN, boundary : BOOLEAN]
  BY <1>1 DEF Cards!IInv, Cards!TypeOK
<1>3. /\ x8' = [num |-> x8'.num, open |-> x8'.open, ending |-> x8'.ending,
                  saving |-> x8'.saving]
      /\ x8'.num = x8.num + 1 /\ x8'.open = FALSE /\ x8'.saving = FALSE
  BY <1>1
<1>4. x8'.num \in Nat /\ x8.num <= x8'.num /\ ~x8'.open
  BY <1>2, <1>3
<1>5. x8'.open \in BOOLEAN
  BY <1>3, Zenon
<1> QED BY <1>1, <1>2, <1>3, <1>4, <1>5, CardsStillPreserves

-----------------------------------------------------------------------------
LEMMA CardsClosePreserves ==
  ASSUME Cards!IInv, Cards!Close
  PROVE  Cards!IInv'
<1>1. /\ x2' = FALSE /\ x8.open = FALSE /\ x8.saving = FALSE /\ x5.num < MaxLoads
      /\ UNCHANGED <<x1, x3, x4, x9, x6, x8, x10>>
  BY CardsCardinality
     DEF Cards!Close, Cards!Kept, Cards!MayAsk, Cards!IInv, Cards!TypeOK, Cards!FormOK
<1>2. x5.num \in Nat /\ x7.num \in Nat /\ x8.num \in Nat /\ x4.from \in Nat
      /\ (\A m \in x10 : m.num \in Nat)
  BY DEF Cards!IInv, Cards!TypeOK, Cards!IsMessage
<1>3. PICK n \in Nat : n = x5.num + 1
  BY <1>2
<1>4. x5' = [num |-> n, day |-> x5.day, pending |-> x5.pending]
  BY <1>3 DEF Cards!Close, Cards!IInv, Cards!TypeOK
<1>5. PICK k \in Nat : k = x7.num + 1
  BY <1>2
<1>6. x7' = [num |-> k, key |-> 0, opening |-> x7.opening, picker |-> 0]
  BY <1>5 DEF Cards!Close, Cards!IInv, Cards!TypeOK
<1>7. Cards!TypeOK'
  BY <1>1, <1>2, <1>4, <1>6 DEF Cards!IInv, Cards!TypeOK
<1>8. Cards!Numbers'
  BY <1>1, <1>2, <1>3, <1>4, <1>5, <1>6 DEF Cards!IInv, Cards!Numbers
<1>9. Cards!FormOK'
  BY <1>1, <1>2, <1>3, <1>4, <1>6, CardsAssumption
     DEF Cards!IInv, Cards!FormOK, Cards!Unopened, Cards!MayStillOpen
<1>10. Cards!CardOK'
  BY <1>6 DEF Cards!CardOK, Cards!OpenCardIsSelected
<1>11. Cards!ListsOK'
  <2>1. x5'.num \in Nat /\ x5.num <= x5'.num
    BY <1>2, <1>3, <1>4
  <2> QED BY <1>1, <1>2, <2>1, CardsListsStay DEF Cards!IInv
<1>12. Cards!AwaitedIsComing'
  BY <1>1 DEF Cards!AwaitedIsComing
<1> QED BY <1>7, <1>8, <1>9, <1>10, <1>11, <1>12 DEF Cards!IInv

\* A card opens: its number is the one awaited, and its Subjects are not yet those of another.
LEMMA CardsOpenedPreserves ==
  ASSUME Cards!IInv, NEW c, x7' = Cards!Opened(c), x10' = x10 \cup {Cards!Opening(c)},
         ~x8.open, x2' = x2, Cards!Kept, UNCHANGED <<x5, x8>>,
         x6' \in [index : Nat, follow : BOOLEAN, boundary : BOOLEAN],
         x6'.follow = FALSE, c # 0 => Cards!At(x6'.index, x4.shown) = c
  PROVE  Cards!IInv'
<1>1. UNCHANGED <<x1, x3, x4, x9, x5, x8, x2>>
  BY DEF Cards!Kept
<1>2. x5.num \in Nat /\ x7.num \in Nat /\ x8.num \in Nat /\ x4.from \in Nat
      /\ (\A m \in x10 : m.num \in Nat)
  BY DEF Cards!IInv, Cards!TypeOK, Cards!IsMessage
<1>3. PICK n \in Nat : n = x7.num + 1
  BY <1>2
<1>4. PICK g : g = Cards!Message("open", n, 0, c)
  OBVIOUS
<1>5. Cards!IsMessage(g) /\ g.kind = "open" /\ g.num = n /\ g.card = c /\ g.ran = FALSE
  BY <1>4 DEF Cards!Message, Cards!IsMessage
<1>6. x10' = x10 \cup {g}
  BY <1>3, <1>4 DEF Cards!Opening
<1>7. PICK p : p = IF x7.key = c THEN x7.picker ELSE 0
  OBVIOUS
<1>8. x7' = [num |-> n, key |-> c, opening |-> TRUE, picker |-> p]
  BY <1>3, <1>7 DEF Cards!Opened
<1>9. Cards!TypeOK'
  <2>1. \A m \in x10' : Cards!IsMessage(m)
    BY <1>5, <1>6 DEF Cards!IInv, Cards!TypeOK
  <2> QED BY <1>1, <1>2, <1>8, <2>1 DEF Cards!IInv, Cards!TypeOK
<1>10. Cards!Numbers'
  BY <1>1, <1>2, <1>3, <1>5, <1>6, <1>8 DEF Cards!IInv, Cards!Numbers
<1>11. Cards!FormOK'
  BY <1>1 DEF Cards!IInv, Cards!FormOK, Cards!Unopened, Cards!MayStillOpen
<1>12. Cards!CardOK'
  <2>1. c # 0 => p = 0 \/ p = c
    BY <1>7 DEF Cards!IInv, Cards!CardOK, Cards!OpenCardIsSelected
  <2> QED BY <1>1, <1>8, <2>1 DEF Cards!CardOK, Cards!OpenCardIsSelected, Cards!Selected
<1>13. Cards!ListsOK'
  <2>1. \A m \in x10' : m \in x10 \/ m.ran = FALSE
    BY <1>5, <1>6
  <2>2. x5'.num \in Nat /\ x5.num <= x5'.num /\ x4' = x4
    BY <1>1, <1>2
  <2> QED BY <1>1, <1>2, <2>1, <2>2, CardsListsStay DEF Cards!IInv
<1>14. Cards!AwaitedIsComing'
  BY <1>1, <1>5, <1>6, <1>8 DEF Cards!IInv, Cards!AwaitedIsComing, Cards!Coming
<1> QED BY <1>9, <1>10, <1>11, <1>12, <1>13, <1>14 DEF Cards!IInv

LEMMA CardsOpenSelectedPreserves ==
  ASSUME Cards!IInv, Cards!OpenSelected
  PROVE  Cards!IInv'
<1>1. PICK c : c = Cards!At(Cards!OnBoundary, x4.shown)
  OBVIOUS
<1>2. /\ x7' = Cards!Opened(c) /\ x10' = x10 \cup {Cards!Opening(c)} /\ ~x8.open
      /\ x2' = x2 /\ Cards!Kept /\ UNCHANGED <<x5, x8>>
      /\ x6' = [index |-> Cards!OnBoundary, follow |-> FALSE, boundary |-> FALSE]
  BY <1>1 DEF Cards!OpenSelected, Cards!TimelineKeys, Cards!Keys
<1>3. x6' \in [index : Nat, follow : BOOLEAN, boundary : BOOLEAN]
  BY <1>2, CardsBoundaryType
<1>4. x6'.index = Cards!OnBoundary /\ x6'.follow = FALSE
  BY <1>2
<1> QED BY <1>1, <1>2, <1>3, <1>4, CardsOpenedPreserves

LEMMA CardsReopenCardPreserves ==
  ASSUME Cards!IInv, Cards!ReopenCard
  PROVE  Cards!IInv'
<1>1. PICK c : c = x7.key
  OBVIOUS
<1>2. /\ x7' = Cards!Opened(c) /\ x10' = x10 \cup {Cards!Opening(c)} /\ ~x8.open /\ c # 0
      /\ x2' = x2 /\ Cards!Kept /\ UNCHANGED <<x5, x8, x6>>
  BY <1>1 DEF Cards!ReopenCard, Cards!Keys
<1>3. x6' \in [index : Nat, follow : BOOLEAN, boundary : BOOLEAN] /\ x6'.follow = FALSE
  BY <1>1, <1>2 DEF Cards!IInv, Cards!TypeOK, Cards!CardOK
<1>4. Cards!At(x6'.index, x4.shown) = c
  BY <1>1, <1>2 DEF Cards!IInv, Cards!CardOK, Cards!OpenCardIsSelected, Cards!Selected
<1> QED BY <1>2, <1>3, <1>4, CardsOpenedPreserves

LEMMA CardsCollapseCardPreserves ==
  ASSUME Cards!IInv, Cards!CollapseCard
  PROVE  Cards!IInv'
<1>1. /\ UNCHANGED <<x1, x2, x3, x4, x5, x6, x8, x9, x10>>
  BY DEF Cards!CollapseCard, Cards!Keys, Cards!Kept
<1>2. x5.num \in Nat /\ x7.num \in Nat /\ x8.num \in Nat /\ x4.from \in Nat
      /\ (\A m \in x10 : m.num \in Nat)
  BY DEF Cards!IInv, Cards!TypeOK, Cards!IsMessage
<1>3. PICK n \in Nat : n = x7.num + 1
  BY <1>2
<1>4. x7' = [num |-> n, key |-> 0, opening |-> FALSE, picker |-> 0]
  BY <1>3 DEF Cards!CollapseCard
<1>5. Cards!TypeOK'
  BY <1>1, <1>4 DEF Cards!IInv, Cards!TypeOK
<1>6. Cards!Numbers'
  BY <1>1, <1>2, <1>3, <1>4 DEF Cards!IInv, Cards!Numbers
<1>7. Cards!FormOK'
  BY <1>1, <1>4 DEF Cards!IInv, Cards!FormOK, Cards!Unopened, Cards!MayStillOpen
<1>8. Cards!CardOK'
  BY <1>4 DEF Cards!CardOK, Cards!OpenCardIsSelected
<1>9. Cards!ListsOK'
  BY <1>1 DEF Cards!IInv, Cards!ListsOK, Cards!OwnSaveIsShown
<1>10. Cards!AwaitedIsComing'
  BY <1>1, <1>4 DEF Cards!IInv, Cards!AwaitedIsComing, Cards!Coming
<1> QED BY <1>5, <1>6, <1>7, <1>8, <1>9, <1>10 DEF Cards!IInv

\* The save of a form has its number, and a form sends one.
LEMMA CardsSaveFormPreserves ==
  ASSUME Cards!IInv, Cards!SaveForm
  PROVE  Cards!IInv'
<1>1. /\ x2 /\ x8.open /\ x8.saving = FALSE
      /\ UNCHANGED <<x1, x2, x3, x4, x5, x6, x7, x9>>
  BY DEF Cards!SaveForm, Cards!Kept, Cards!IInv, Cards!TypeOK
<1>2. x5.num \in Nat /\ x7.num \in Nat /\ x8.num \in Nat /\ x4.from \in Nat
      /\ (\A m \in x10 : m.num \in Nat)
  BY DEF Cards!IInv, Cards!TypeOK, Cards!IsMessage
<1>3. x8' = [num |-> x8.num, open |-> x8.open, ending |-> x8.ending, saving |-> TRUE]
  BY DEF Cards!SaveForm, Cards!IInv, Cards!TypeOK
<1>4. PICK n \in Nat, e \in {x8.ending} : n = x8.num
  BY <1>2
<1>5. PICK g : g = Cards!Message("save", n, 0, e)
  OBVIOUS
<1>6. Cards!IsMessage(g) /\ g.kind = "save" /\ g.num = n /\ g.ran = FALSE
  BY <1>5 DEF Cards!Message, Cards!IsMessage
<1>7. x10' = x10 \cup {g}
  BY <1>4, <1>5 DEF Cards!SaveForm
<1>8. Cards!TypeOK'
  <2>1. \A m \in x10' : Cards!IsMessage(m)
    BY <1>6, <1>7 DEF Cards!IInv, Cards!TypeOK
  <2> QED BY <1>1, <1>2, <1>3, <2>1 DEF Cards!IInv, Cards!TypeOK
<1>9. Cards!Numbers'
  <2>1. \A m \in x10 : m.kind = "save" => m.num # n
    BY <1>1, <1>4 DEF Cards!IInv, Cards!Numbers
  <2> QED BY <1>1, <1>2, <1>3, <1>4, <1>6, <1>7, <2>1 DEF Cards!IInv, Cards!Numbers
<1>10. Cards!FormOK'
  BY <1>1, <1>3 DEF Cards!IInv, Cards!FormOK, Cards!Unopened, Cards!MayStillOpen
<1>11. Cards!CardOK'
  BY <1>1 DEF Cards!IInv, Cards!CardOK, Cards!OpenCardIsSelected, Cards!Selected
<1>12. Cards!ListsOK'
  <2>1. \A m \in x10' : m \in x10 \/ m.ran = FALSE
    BY <1>6, <1>7
  <2>2. x5'.num \in Nat /\ x5.num <= x5'.num /\ x4' = x4
    BY <1>1, <1>2
  <2> QED BY <1>1, <1>2, <2>1, <2>2, CardsListsStay DEF Cards!IInv
<1>13. Cards!AwaitedIsComing'
  BY <1>1, <1>3, <1>4, <1>6, <1>7 DEF Cards!IInv, Cards!AwaitedIsComing, Cards!Coming
<1> QED BY <1>8, <1>9, <1>10, <1>11, <1>12, <1>13 DEF Cards!IInv

-----------------------------------------------------------------------------
\* Events are never removed, and the ongoing one is listed.
LEMMA CardsStoreMoves ==
  ASSUME Cards!IInv,
         Cards!OtherSession \/ \E c \in Cards!Card : Cards!StartEvent(c) \/ Cards!EndEvent(c)
  PROVE  /\ x1' \in [listed : SUBSET Cards!Card, ongoing : {0} \cup Cards!Card]
         /\ x1.listed \cap Cards!Event \in SUBSET x1'.listed
         /\ x1'.ongoing \in {0} \cup (x1'.listed \cap Cards!Event)
<1>1. /\ x1 \in [listed : SUBSET Cards!Card, ongoing : {0} \cup Cards!Card]
      /\ x1.ongoing \in {0} \cup (x1.listed \cap Cards!Event)
  BY DEF Cards!IInv, Cards!TypeOK, Cards!ListsOK
<1>2. ASSUME NEW c \in Cards!Card, Cards!StartEvent(c)
      PROVE  /\ x1' \in [listed : SUBSET Cards!Card, ongoing : {0} \cup Cards!Card]
             /\ x1.listed \cap Cards!Event \in SUBSET x1'.listed
             /\ x1'.ongoing \in {0} \cup (x1'.listed \cap Cards!Event)
  <2>1. x1' = [listed |-> x1.listed \cup {c}, ongoing |-> c] /\ c \in Cards!Event
    BY <1>2 DEF Cards!StartEvent
  <2> QED BY <1>1, <2>1
<1>3. ASSUME NEW c \in Cards!Card, Cards!EndEvent(c)
      PROVE  /\ x1' \in [listed : SUBSET Cards!Card, ongoing : {0} \cup Cards!Card]
             /\ x1.listed \cap Cards!Event \in SUBSET x1'.listed
             /\ x1'.ongoing \in {0} \cup (x1'.listed \cap Cards!Event)
  <2>1. x1' = [listed |-> x1.listed, ongoing |-> 0]
    BY <1>1, <1>3 DEF Cards!EndEvent
  <2> QED BY <1>1, <2>1
<1>4. ASSUME NEW c \in Groups,
             x1' = [x1 EXCEPT !.listed = (@ \ {c}) \cup ({c} \ @)]
      PROVE  /\ x1' \in [listed : SUBSET Cards!Card, ongoing : {0} \cup Cards!Card]
             /\ x1.listed \cap Cards!Event \in SUBSET x1'.listed
             /\ x1'.ongoing \in {0} \cup (x1'.listed \cap Cards!Event)
  <2>1. c \notin Cards!Event /\ c \in Cards!Card
    BY CardsAssumption DEF Cards!Event
  <2>2. x1' = [listed |-> (x1.listed \ {c}) \cup ({c} \ x1.listed),
                  ongoing |-> x1.ongoing]
    BY <1>1, <1>4
  <2> QED BY <1>1, <2>1, <2>2
<1> QED BY <1>2, <1>3, <1>4 DEF Cards!OtherSession

LEMMA CardsOtherSessionPreserves ==
  ASSUME Cards!IInv, Cards!OtherSession
  PROVE  Cards!IInv'
<1>1. UNCHANGED <<x2, x3, x4, x5, x6, x7, x8, x9, x10>>
  BY DEF Cards!OtherSession
<1>2. /\ x1' \in [listed : SUBSET Cards!Card, ongoing : {0} \cup Cards!Card]
      /\ x1.listed \cap Cards!Event \in SUBSET x1'.listed
      /\ x1'.ongoing \in {0} \cup (x1'.listed \cap Cards!Event)
  BY CardsStoreMoves
<1>3. Cards!TypeOK' /\ Cards!Numbers'
  BY <1>1, <1>2 DEF Cards!IInv, Cards!TypeOK, Cards!Numbers
<1>4. Cards!FormOK' /\ Cards!CardOK'
  BY <1>1
     DEF Cards!IInv, Cards!FormOK, Cards!Unopened, Cards!MayStillOpen, Cards!CardOK,
         Cards!OpenCardIsSelected, Cards!Selected
<1>5. Cards!ListsOK'
  BY <1>1, <1>2 DEF Cards!IInv, Cards!ListsOK, Cards!OwnSaveIsShown
<1>6. Cards!AwaitedIsComing'
  BY <1>1 DEF Cards!IInv, Cards!AwaitedIsComing, Cards!Coming
<1> QED BY <1>3, <1>4, <1>5, <1>6 DEF Cards!IInv

\* What is listed when a command reads has what was saved before its load was asked for.
LEMMA CardsSavedIsListed ==
  ASSUME Cards!IInv, NEW n \in Nat, n <= x5.num, NEW c \in Cards!Event, n > x9[c]
  PROVE  c \in x1.listed
<1>1. c \in Cards!Card /\ x9[c] \in Nat /\ x5.num \in Nat /\ x8.num \in Nat
  BY DEF Cards!Event, Cards!IInv, Cards!TypeOK
<1>2. x5.num <= MaxLoads + MaxForms
  BY <1>1, CardsAssumption
     DEF Cards!IInv, Cards!TypeOK, Cards!FormOK, Cards!Unopened, Cards!MayStillOpen
<1> QED BY <1>1, <1>2, CardsAssumption DEF Cards!IInv, Cards!ListsOK

\* The answer of a command takes the place of the command.
LEMMA CardsRanPreserves ==
  ASSUME Cards!IInv, NEW m \in x10, NEW r, x10' = (x10 \ {m}) \cup {r}, Cards!IsMessage(r),
         r.kind = m.kind, r.num = m.num, r.day = m.day, r.kind = "open" => r.card = m.card,
         x1' \in [listed : SUBSET Cards!Card, ongoing : {0} \cup Cards!Card],
         x1.listed \cap Cards!Event \in SUBSET x1'.listed,
         x1'.ongoing \in {0} \cup (x1'.listed \cap Cards!Event),
         r.kind = "save" => r.card \in x1'.listed \cap Cards!Event,
         r.kind = "entries" => \A c \in Cards!Event : c \in Cards!Of(r.day) /\ r.num > x9[c] => c \in r.shown,
         UNCHANGED <<x2, x3, x4, x5, x6, x7, x8, x9>>
  PROVE  Cards!IInv'
<1>1. Cards!TypeOK'
  <2>1. \A n \in x10' : Cards!IsMessage(n)
    BY DEF Cards!IInv, Cards!TypeOK
  <2> QED BY <2>1 DEF Cards!IInv, Cards!TypeOK
<1>2. Cards!Numbers'
  BY DEF Cards!IInv, Cards!Numbers
<1>3. Cards!FormOK' /\ Cards!CardOK'
  BY
     DEF Cards!IInv, Cards!FormOK, Cards!Unopened, Cards!MayStillOpen, Cards!CardOK,
         Cards!OpenCardIsSelected, Cards!Selected
<1>4. Cards!ListsOK'
  BY DEF Cards!IInv, Cards!ListsOK, Cards!OwnSaveIsShown
<1>5. Cards!AwaitedIsComing'
  <2>1. \A kind, num : Cards!Coming(kind, num) => Cards!Coming(kind, num)'
    BY DEF Cards!Coming
  <2> QED BY <2>1 DEF Cards!IInv, Cards!AwaitedIsComing
<1> QED BY <1>1, <1>2, <1>3, <1>4, <1>5 DEF Cards!IInv

LEMMA CardsRunPreserves ==
  ASSUME Cards!IInv, NEW m \in x10, Cards!Run(m)
  PROVE  Cards!IInv'
<1>1. UNCHANGED <<x2, x3, x4, x5, x6, x7, x8, x9>>
  BY DEF Cards!Run
<1>2. /\ m = [kind |-> m.kind, num |-> m.num, day |-> m.day, card |-> m.card,
              ran |-> m.ran, shown |-> m.shown, ongoing |-> m.ongoing]
      /\ m.num \in Nat /\ m.shown \in SUBSET Cards!Card
  BY DEF Cards!IInv, Cards!TypeOK, Cards!IsMessage
<1>3. /\ x1 \in [listed : SUBSET Cards!Card, ongoing : {0} \cup Cards!Card]
      /\ x1.ongoing \in {0} \cup (x1.listed \cap Cards!Event)
  BY DEF Cards!IInv, Cards!TypeOK, Cards!ListsOK
<1>4. CASE m.kind = "entries"
  <2>1. PICK listed, o : listed = x1.listed \cap Cards!Of(m.day)
                         /\ o = IF x1.ongoing \in listed THEN x1.ongoing ELSE 0
    OBVIOUS
  <2>2. PICK r : r = [kind |-> m.kind, num |-> m.num, day |-> m.day, card |-> m.card,
                      ran |-> TRUE, shown |-> listed, ongoing |-> o]
    OBVIOUS
  <2>3. PICK a : a = [m EXCEPT !.shown = listed, !.ongoing = o]
    OBVIOUS
  <2>4. UNCHANGED x1 /\ Cards!Ran(m, a)
    BY <1>4, <2>1, <2>3 DEF Cards!Run
  <2>5. a = [kind |-> m.kind, num |-> m.num, day |-> m.day, card |-> m.card,
             ran |-> m.ran, shown |-> listed, ongoing |-> o]
    BY <1>2, <2>3
  <2>6. Cards!Ran(m, [kind |-> m.kind, num |-> m.num, day |-> m.day, card |-> m.card,
                   ran |-> m.ran, shown |-> listed, ongoing |-> o])
    BY <2>4, <2>5
  <2>7. UNCHANGED x1 /\ x10' = (x10 \ {m}) \cup {r}
    BY <2>2, <2>4, <2>6 DEF Cards!Ran
  <2>8. Cards!IsMessage(r)
    BY <1>2, <1>3, <2>1, <2>2 DEF Cards!IsMessage
  <2>9. \A c \in Cards!Event : c \in Cards!Of(m.day) /\ m.num > x9[c] => c \in listed
    <3>1. m.num <= x5.num
      BY <1>4 DEF Cards!IInv, Cards!Numbers
    <3> QED BY <1>2, <2>1, <3>1, CardsSavedIsListed
  <2> QED BY <1>1, <1>3, <1>4, <2>2, <2>7, <2>8, <2>9, CardsRanPreserves
<1>5. CASE m.kind = "open"
  <2>1. PICK o : o = IF x1.ongoing = m.card THEN m.card ELSE 0
    OBVIOUS
  <2>2. PICK r : r = [kind |-> m.kind, num |-> m.num, day |-> m.day, card |-> m.card,
                      ran |-> TRUE, shown |-> m.shown, ongoing |-> o]
    OBVIOUS
  <2>3. PICK a : a = [m EXCEPT !.ongoing = o]
    OBVIOUS
  <2>4. UNCHANGED x1 /\ Cards!Ran(m, a)
    BY <1>5, <2>1, <2>3 DEF Cards!Run
  <2>5. a = [kind |-> m.kind, num |-> m.num, day |-> m.day, card |-> m.card,
             ran |-> m.ran, shown |-> m.shown, ongoing |-> o]
    BY <1>2, <2>3
  <2>6. Cards!Ran(m, [kind |-> m.kind, num |-> m.num, day |-> m.day, card |-> m.card,
                   ran |-> m.ran, shown |-> m.shown, ongoing |-> o])
    BY <2>4, <2>5
  <2>7. UNCHANGED x1 /\ x10' = (x10 \ {m}) \cup {r}
    BY <2>2, <2>4, <2>6 DEF Cards!Ran
  <2>8. Cards!IsMessage(r)
    BY <1>2, <2>2 DEF Cards!IsMessage
  <2> QED BY <1>1, <1>3, <1>5, <2>2, <2>7, <2>8, CardsRanPreserves
<1>6. CASE m.kind = "save"
  <2>1. PICK c \in IF m.card = 0 THEN Cards!Card ELSE {m.card} :
          /\ IF m.card = 0 THEN Cards!StartEvent(c) ELSE Cards!EndEvent(c)
          /\ Cards!Ran(m, [m EXCEPT !.card = c])
    BY <1>6 DEF Cards!Run
  <2>2. c \in Cards!Event /\ c \in x1'.listed /\ c \in Cards!Card
    <3>1. CASE m.card = 0
      BY <2>1, <3>1 DEF Cards!StartEvent
    <3>2. CASE m.card # 0
      BY <1>3, <2>1, <3>2 DEF Cards!EndEvent, Cards!Event
    <3> QED BY <3>1, <3>2
  <2>3. PICK r : r = [kind |-> m.kind, num |-> m.num, day |-> m.day, card |-> c,
                      ran |-> TRUE, shown |-> m.shown, ongoing |-> m.ongoing]
    OBVIOUS
  <2>4. PICK a : a = [m EXCEPT !.card = c]
    OBVIOUS
  <2>5. a = [kind |-> m.kind, num |-> m.num, day |-> m.day, card |-> c,
             ran |-> m.ran, shown |-> m.shown, ongoing |-> m.ongoing]
    BY <1>2, <2>4
  <2>6. Cards!Ran(m, [kind |-> m.kind, num |-> m.num, day |-> m.day, card |-> c,
                   ran |-> m.ran, shown |-> m.shown, ongoing |-> m.ongoing])
    BY <2>1, <2>4, <2>5
  <2>7. x10' = (x10 \ {m}) \cup {r}
    BY <2>3, <2>6 DEF Cards!Ran
  <2>8. Cards!IsMessage(r)
    BY <1>2, <2>3 DEF Cards!IsMessage
  <2>9. /\ x1' \in [listed : SUBSET Cards!Card, ongoing : {0} \cup Cards!Card]
        /\ x1.listed \cap Cards!Event \in SUBSET x1'.listed
        /\ x1'.ongoing \in {0} \cup (x1'.listed \cap Cards!Event)
    BY <2>1, <2>2, CardsStoreMoves
  <2> QED BY <1>1, <1>6, <2>2, <2>3, <2>7, <2>8, <2>9, CardsRanPreserves
<1> QED BY <1>4, <1>5, <1>6 DEF Cards!Run

-----------------------------------------------------------------------------
LEMMA CardsDiscardPreserves ==
  ASSUME Cards!IInv, NEW m \in x10, Cards!Discard(m)
  PROVE  Cards!IInv'
<1>1. /\ UNCHANGED <<x1, x2, x3, x4, x5, x6, x7, x8, x9>>
      /\ x10' = x10 \ {m}
  BY DEF Cards!Discard
<1>2. Cards!TypeOK' /\ Cards!Numbers'
  BY <1>1 DEF Cards!IInv, Cards!TypeOK, Cards!Numbers
<1>3. Cards!FormOK' /\ Cards!CardOK'
  BY <1>1
     DEF Cards!IInv, Cards!FormOK, Cards!Unopened, Cards!MayStillOpen, Cards!CardOK,
         Cards!OpenCardIsSelected, Cards!Selected
<1>4. Cards!ListsOK'
  BY <1>1 DEF Cards!IInv, Cards!ListsOK, Cards!OwnSaveIsShown
<1>5. Cards!AwaitedIsComing'
  <2>1. ~Cards!Owned(m)
    BY DEF Cards!Discard
  <2> QED BY <1>1, <2>1 DEF Cards!IInv, Cards!AwaitedIsComing, Cards!Coming, Cards!Owned
<1> QED BY <1>2, <1>3, <1>4, <1>5 DEF Cards!IInv

LEMMA CardsRefuseEntriesPreserves ==
  ASSUME Cards!IInv, NEW m \in x10, Cards!RefuseEntries(m)
  PROVE  Cards!IInv'
<1>1. /\ UNCHANGED <<x1, x2, x3, x4, x6, x7, x8, x9>>
      /\ x10' = x10 \ {m} /\ m.kind = "entries"
  BY DEF Cards!RefuseEntries
<1>2. x5' = [num |-> x5.num, day |-> x5.day, pending |-> FALSE]
  BY DEF Cards!RefuseEntries, Cards!IInv, Cards!TypeOK
<1>3. Cards!TypeOK'
  BY <1>1, <1>2 DEF Cards!IInv, Cards!TypeOK
<1>4. Cards!Numbers'
  BY <1>1, <1>2 DEF Cards!IInv, Cards!Numbers
<1>5. Cards!FormOK' /\ Cards!CardOK'
  BY <1>1, <1>2
     DEF Cards!IInv, Cards!FormOK, Cards!Unopened, Cards!MayStillOpen, Cards!CardOK,
         Cards!OpenCardIsSelected, Cards!Selected
<1>6. Cards!ListsOK'
  BY <1>1, <1>2 DEF Cards!IInv, Cards!ListsOK, Cards!OwnSaveIsShown
<1>7. Cards!AwaitedIsComing'
  BY <1>1, <1>2 DEF Cards!IInv, Cards!AwaitedIsComing, Cards!Coming
<1> QED BY <1>3, <1>4, <1>5, <1>6, <1>7 DEF Cards!IInv

LEMMA CardsRefuseSavePreserves ==
  ASSUME Cards!IInv, NEW m \in x10, Cards!RefuseSave(m)
  PROVE  Cards!IInv'
<1>1. /\ UNCHANGED <<x1, x2, x3, x4, x5, x6, x7, x9>>
      /\ x10' = x10 \ {m} /\ m.kind = "save" /\ m.num = x8.num
  BY DEF Cards!RefuseSave, Cards!Owned
<1>2. x8' = [num |-> x8.num, open |-> x8.open, ending |-> x8.ending, saving |-> FALSE]
  BY DEF Cards!RefuseSave, Cards!IInv, Cards!TypeOK
<1>3. Cards!TypeOK'
  BY <1>1, <1>2 DEF Cards!IInv, Cards!TypeOK
<1>4. Cards!Numbers'
  <2>1. \A n \in x10' : n.kind = "save" => n.num # x8.num
    BY <1>1 DEF Cards!IInv, Cards!Numbers
  <2> QED BY <1>1, <1>2, <2>1 DEF Cards!IInv, Cards!Numbers
<1>5. Cards!FormOK' /\ Cards!CardOK'
  BY <1>1, <1>2
     DEF Cards!IInv, Cards!FormOK, Cards!Unopened, Cards!MayStillOpen, Cards!CardOK,
         Cards!OpenCardIsSelected, Cards!Selected
<1>6. Cards!ListsOK'
  BY <1>1 DEF Cards!IInv, Cards!ListsOK, Cards!OwnSaveIsShown
<1>7. Cards!AwaitedIsComing'
  BY <1>1, <1>2 DEF Cards!IInv, Cards!AwaitedIsComing, Cards!Coming
<1> QED BY <1>3, <1>4, <1>5, <1>6, <1>7 DEF Cards!IInv

LEMMA CardsTakeOpenedPreserves ==
  ASSUME Cards!IInv, NEW m \in x10, Cards!TakeOpened(m)
  PROVE  Cards!IInv'
<1>1. /\ UNCHANGED <<x1, x2, x3, x5, x6, x8, x9>>
      /\ x10' = x10 \ {m} /\ m.kind = "open" /\ m.num = x7.num
  BY DEF Cards!TakeOpened, Cards!Owned
<1>2. PICK p : p = IF m.ran THEN m.card ELSE x7.picker
  OBVIOUS
<1>3. x7' = [num |-> x7.num, key |-> x7.key, opening |-> FALSE, picker |-> p]
  BY <1>2 DEF Cards!TakeOpened, Cards!IInv, Cards!TypeOK
<1>4. PICK o : o = IF m.ran /\ x4.ongoing = m.card THEN m.ongoing ELSE x4.ongoing
  OBVIOUS
<1>5. x4' = [shown |-> x4.shown, ongoing |-> o, from |-> x4.from]
  <2>1. x4 = [shown |-> x4.shown, ongoing |-> x4.ongoing,
                   from |-> x4.from]
    BY DEF Cards!IInv, Cards!TypeOK
  <2> QED BY <1>4, <2>1 DEF Cards!TakeOpened
<1>6. Cards!TypeOK'
  BY <1>1, <1>3, <1>5 DEF Cards!IInv, Cards!TypeOK
<1>7. Cards!Numbers'
  BY <1>1, <1>3 DEF Cards!IInv, Cards!Numbers
<1>8. Cards!FormOK'
  BY <1>1, <1>3 DEF Cards!IInv, Cards!FormOK, Cards!Unopened, Cards!MayStillOpen
<1>9. Cards!CardOK'
  <2>1. x7.key # 0 => p = 0 \/ p = x7.key
    BY <1>1, <1>2 DEF Cards!IInv, Cards!CardOK, Cards!OpenCardIsSelected, Cards!Numbers
  <2> QED BY <1>1, <1>3, <1>5, <2>1
             DEF Cards!IInv, Cards!CardOK, Cards!OpenCardIsSelected, Cards!Selected
<1>10. Cards!ListsOK'
  BY <1>1, <1>5 DEF Cards!IInv, Cards!ListsOK, Cards!OwnSaveIsShown
<1>11. Cards!AwaitedIsComing'
  BY <1>1, <1>3 DEF Cards!IInv, Cards!AwaitedIsComing, Cards!Coming
<1> QED BY <1>6, <1>7, <1>8, <1>9, <1>10, <1>11 DEF Cards!IInv

\* A save reloads: the form is closed, and no load is under way that was asked for before.
LEMMA CardsTakeSavePreserves ==
  ASSUME Cards!IInv, NEW m \in x10, Cards!TakeSave(m)
  PROVE  Cards!IInv'
<1>1. PICK d : d = IF x8.ending = 0 THEN Cards!Today ELSE x3
  OBVIOUS
<1>2. /\ UNCHANGED <<x1, x2, x3, x4>> /\ x2
      /\ m.kind = "save" /\ m.num = x8.num /\ m.ran /\ Cards!LoadDay(d)
      /\ x10' = (x10 \ {m}) \cup Cards!List(d) /\ x9' = [x9 EXCEPT ![m.card] = x5.num]
  BY <1>1 DEF Cards!TakeSave, Cards!Owned
<1>3. d \in Cards!Day /\ d # 0
  BY <1>1 DEF Cards!IInv, Cards!TypeOK, Cards!Day, Cards!Today
<1>4. /\ x5' \in [num : Nat, day : {0} \cup Cards!Day, pending : BOOLEAN]
      /\ x5'.num = x5.num + 1 /\ x5'.day = d /\ x5'.pending = TRUE
      /\ x7' = [num |-> x7'.num, key |-> x7'.key, opening |-> x7'.opening,
                  picker |-> x7'.picker]
      /\ x7'.num = x7.num + 1 /\ x7'.key = x7.key /\ x7'.opening = FALSE
      /\ x7'.picker = x7.picker
  BY <1>2, <1>3, CardsLoadFacts
<1>5. PICK g : /\ Cards!List(d) = {g}
               /\ Cards!IsMessage(g) /\ g.kind = "entries" /\ g.num = x5'.num /\ g.day = d
               /\ g.ran = FALSE
  BY <1>2, <1>3, CardsLoadFacts
<1>6. x10' = (x10 \ {m}) \cup {g}
  BY <1>2, <1>5
<1>7. x5.num \in Nat /\ x7.num \in Nat /\ x8.num \in Nat /\ x4.from \in Nat
      /\ (\A n \in x10 : n.num \in Nat) /\ x8.open /\ x8.saving /\ x7.key = 0
  BY <1>2 DEF Cards!IInv, Cards!TypeOK, Cards!IsMessage, Cards!Numbers, Cards!FormOK
<1>8. x8' = [num |-> x8.num, open |-> FALSE, ending |-> 0, saving |-> FALSE]
  BY DEF Cards!TakeSave, Cards!IInv, Cards!TypeOK
<1>9. x6' \in [index : Nat, follow : BOOLEAN, boundary : BOOLEAN]
  BY DEF Cards!TakeSave, Cards!IInv, Cards!TypeOK
<1>10. m.card \in x1.listed \cap Cards!Event /\ m.card \in Cards!Card
  BY <1>2 DEF Cards!IInv, Cards!ListsOK, Cards!Event
<1>11. /\ x9' \in [Cards!Card -> Nat] /\ x9'[m.card] = x5.num
       /\ \A c \in Cards!Card \ {m.card} : x9'[c] = x9[c]
  BY <1>2, <1>7, <1>10 DEF Cards!IInv, Cards!TypeOK
<1>12. Cards!TypeOK'
  <2>1. \A n \in x10' : Cards!IsMessage(n)
    BY <1>5, <1>6 DEF Cards!IInv, Cards!TypeOK
  <2>2. x7'.num \in Nat
    BY <1>4, <1>7
  <2>3. x7'.opening \in BOOLEAN
    BY <1>4, Zenon
  <2> QED BY <1>2, <1>4, <1>7, <1>8, <1>9, <1>11, <2>1, <2>2, <2>3 DEF Cards!IInv, Cards!TypeOK
<1>13. Cards!Numbers'
  <2>1. \A n \in x10' : n.kind = "save" => n \in x10 /\ n.num # x8.num
    BY <1>2, <1>5, <1>6 DEF Cards!IInv, Cards!Numbers
  <2>2. x5'.day # 0
    BY <1>3, <1>4
  <2>3. \A n \in x10' : n = g \/ (n \in x10 /\ n # m)
    BY <1>6
  <2>4. \A n \in x10' : n.kind = "save" =>
           n.num <= x8'.num /\ (n.num = x8'.num => x8'.saving)
    BY <1>7, <1>8, <2>1 DEF Cards!IInv, Cards!Numbers
  <2>5. \A n \in x10' : n.kind = "entries" =>
           n.num <= x5'.num /\ (n.num = x5'.num => n.day = x5'.day)
    BY <1>4, <1>5, <1>7, <2>3 DEF Cards!IInv, Cards!Numbers
  <2>6. \A n \in x10' : n.kind = "open" =>
           n.num <= x7'.num /\ (n.num = x7'.num /\ x7'.key # 0 => n.card = x7'.key)
    BY <1>4, <1>5, <1>7, <2>3 DEF Cards!IInv, Cards!Numbers
  <2>7. \A n, o \in x10' : n.kind = "save" /\ o.kind = "save" /\ n.num = o.num => n = o
    BY <2>1 DEF Cards!IInv, Cards!Numbers
  <2> QED BY <2>2, <2>4, <2>5, <2>6, <2>7 DEF Cards!Numbers
<1>14. Cards!FormOK'
  BY <1>4, <1>7, <1>8, CardsAssumption
     DEF Cards!IInv, Cards!FormOK, Cards!Unopened, Cards!MayStillOpen
<1>15. Cards!CardOK'
  BY <1>4, <1>7 DEF Cards!CardOK, Cards!OpenCardIsSelected
<1>16. Cards!ListsOK'
  <2>1. \A n \in x10' : n \in x10 \/ n.ran = FALSE
    BY <1>5, <1>6
  <2>2. \A c \in Cards!Event : c \in Cards!Card /\ (c = m.card \/ x9'[c] = x9[c])
    BY <1>11 DEF Cards!Event
  <2>3. \A n \in x10' : n.kind = "save" /\ n.ran => n.card \in x1'.listed \cap Cards!Event
    BY <1>2, <2>1 DEF Cards!IInv, Cards!ListsOK
  <2>4. \A c \in Cards!Event : c \in x1'.listed \/ x9'[c] >= MaxLoads + MaxForms
    BY <1>2, <1>10, <2>2 DEF Cards!IInv, Cards!ListsOK
  <2>5. \A n \in x10' : n.kind = "entries" /\ n.ran =>
           \A c \in Cards!Event : c \in Cards!Of(n.day) /\ n.num > x9'[c] => c \in n.shown
    <3>1. \A n \in x10 : n.kind = "entries" => ~(n.num > x5.num)
      BY <1>7 DEF Cards!IInv, Cards!Numbers
    <3> QED BY <1>11, <2>1, <2>2, <3>1 DEF Cards!IInv, Cards!ListsOK
  <2>6. x4'.from <= x5'.num /\ ~(x4.from > x5.num)
    BY <1>2, <1>4, <1>7 DEF Cards!IInv, Cards!ListsOK
  <2>7. Cards!OwnSaveIsShown'
    BY <1>2, <1>11, <2>2, <2>6 DEF Cards!IInv, Cards!ListsOK, Cards!OwnSaveIsShown
  <2>8. x1'.ongoing \in {0} \cup (x1'.listed \cap Cards!Event)
    BY <1>2 DEF Cards!IInv, Cards!ListsOK
  <2> QED BY <2>3, <2>4, <2>5, <2>6, <2>7, <2>8 DEF Cards!ListsOK
<1>17. Cards!AwaitedIsComing'
  BY <1>4, <1>5, <1>6, <1>8 DEF Cards!AwaitedIsComing, Cards!Coming
<1> QED BY <1>12, <1>13, <1>14, <1>15, <1>16, <1>17 DEF Cards!IInv

-----------------------------------------------------------------------------
\* A list arrives: the open card is found again at its place, or closed.
LEMMA CardsLandingType ==
  ASSUME Cards!IInv, NEW shown \in SUBSET Cards!Card, NEW ongoing, NEW before, NEW index \in Nat
  PROVE  Cards!Landing(shown, ongoing, before, index) \in Nat
  BY CardsIndexType, CardsLastType DEF Cards!Landing

LEMMA CardsTakeEntriesFacts ==
  ASSUME Cards!IInv, NEW m \in x10, Cards!TakeEntries(m)
  PROVE  /\ UNCHANGED <<x1, x2, x8, x9>>
         /\ x2 /\ m.kind = "entries" /\ m.ran /\ x5.pending /\ m.num = x5.num
         /\ m.day = x5.day /\ m.shown \in SUBSET Cards!Card /\ x3' = m.day /\ m.day \in Cards!Day
         /\ x4' = [shown |-> m.shown, ongoing |-> m.ongoing, from |-> x5.num]
         /\ x5' = [num |-> x5.num, day |-> x5.day, pending |-> FALSE]
         /\ x6' \in [index : Nat, follow : BOOLEAN, boundary : BOOLEAN]
<1>1. /\ UNCHANGED <<x1, x2, x8, x9>>
      /\ x2 /\ m.kind = "entries" /\ m.ran /\ x5.pending /\ m.num = x5.num
      /\ x3' = x5.day
      /\ x4' = [shown |-> m.shown, ongoing |-> m.ongoing, from |-> x5.num]
      /\ x5' = [x5 EXCEPT !.pending = FALSE]
  BY DEF Cards!TakeEntries, Cards!Owned
<1>2. m.day = x5.day /\ x5.day \in Cards!Day /\ m.shown \in SUBSET Cards!Card
  BY <1>1 DEF Cards!IInv, Cards!TypeOK, Cards!IsMessage, Cards!Numbers
<1>3. x5' = [num |-> x5.num, day |-> x5.day, pending |-> FALSE]
  BY <1>1 DEF Cards!IInv, Cards!TypeOK
<1>4. x6' \in [index : Nat, follow : BOOLEAN, boundary : BOOLEAN]
  <2>1. PICK x, y : x = Cards!Landing(m.shown, m.ongoing, 0, 0)
                    /\ y = Cards!Landing(m.shown, m.ongoing, Cards!Selected, x6.index)
    OBVIOUS
  <2>2. x \in Nat /\ y \in Nat
    BY <1>2, <2>1, CardsLandingType DEF Cards!IInv, Cards!TypeOK
  <2>3. PICK moved \in BOOLEAN, reopens \in BOOLEAN :
          (moved <=> x5.day # x3)
          /\ (reopens <=> (~(x5.day # x3) /\ x7.key # 0 /\ x7.key \in m.shown))
    OBVIOUS
  <2>4. x6' = [index |-> IF moved THEN x ELSE y,
                follow |-> x6.follow /\ ~reopens,
                boundary |-> IF moved THEN x6.follow ELSE x6.boundary /\ ~reopens]
    BY <2>1, <2>3 DEF Cards!TakeEntries
  <2>5. x6.follow \in BOOLEAN /\ x6.boundary \in BOOLEAN
    BY DEF Cards!IInv, Cards!TypeOK
  <2>6. (IF moved THEN x ELSE y) \in Nat
    BY <2>2
  <2>7. (x6.follow /\ ~reopens) \in BOOLEAN
        /\ (IF moved THEN x6.follow ELSE x6.boundary /\ ~reopens) \in BOOLEAN
    BY <2>5
  <2> QED BY <2>4, <2>6, <2>7
<1> QED BY <1>1, <1>2, <1>3, <1>4

LEMMA CardsTakeEntriesPreserves ==
  ASSUME Cards!IInv, NEW m \in x10, Cards!TakeEntries(m)
  PROVE  Cards!IInv'
<1>1. /\ UNCHANGED <<x1, x2, x8, x9>>
      /\ x2 /\ m.kind = "entries" /\ m.ran /\ x5.pending /\ m.num = x5.num
      /\ m.day = x5.day /\ m.shown \in SUBSET Cards!Card /\ x3' = m.day /\ m.day \in Cards!Day
      /\ x4' = [shown |-> m.shown, ongoing |-> m.ongoing, from |-> x5.num]
      /\ x5' = [num |-> x5.num, day |-> x5.day, pending |-> FALSE]
      /\ x6' \in [index : Nat, follow : BOOLEAN, boundary : BOOLEAN]
  BY CardsTakeEntriesFacts
<1>2. x5.num \in Nat /\ x7.num \in Nat /\ x8.num \in Nat /\ x4.from \in Nat
      /\ (\A n \in x10 : n.num \in Nat)
  BY DEF Cards!IInv, Cards!TypeOK, Cards!IsMessage
<1>3. Cards!OwnSaveIsShown'
  BY <1>1 DEF Cards!IInv, Cards!ListsOK, Cards!OwnSaveIsShown
<1>4. CASE x5.day = x3 /\ x7.key # 0 /\ x7.key \in m.shown
  <2>1. PICK n \in Nat, c \in m.shown : n = x7.num + 1 /\ c = x7.key
    BY <1>2, <1>4
  <2>2. PICK g : g = Cards!Message("open", n, 0, c)
    OBVIOUS
  <2>3. Cards!IsMessage(g) /\ g.kind = "open" /\ g.num = n /\ g.card = c /\ g.ran = FALSE
    BY <2>2 DEF Cards!Message, Cards!IsMessage
  <2>4. x10' = (x10 \ {m}) \cup {g}
    BY <1>4, <2>1, <2>2 DEF Cards!TakeEntries, Cards!Opening
  <2>5. x7' = [num |-> n, key |-> c, opening |-> TRUE, picker |-> x7.picker]
    BY <1>4, <2>1 DEF Cards!TakeEntries, Cards!Opened
  <2>6. Cards!TypeOK'
    <3>1. \A x \in x10' : Cards!IsMessage(x)
      BY <2>3, <2>4 DEF Cards!IInv, Cards!TypeOK
    <3> QED BY <1>1, <1>2, <2>5, <3>1 DEF Cards!IInv, Cards!TypeOK
  <2>7. Cards!Numbers'
    BY <1>1, <1>2, <2>1, <2>3, <2>4, <2>5 DEF Cards!IInv, Cards!Numbers
  <2>8. Cards!FormOK'
    BY <1>1, <1>4, <2>5 DEF Cards!IInv, Cards!FormOK, Cards!Unopened, Cards!MayStillOpen
  <2>9. Cards!CardOK'
    <3>1. x6.follow = FALSE /\ Cards!Selected = c /\ x7.picker \in {0, c}
      BY <1>4, <2>1 DEF Cards!IInv, Cards!TypeOK, Cards!CardOK, Cards!OpenCardIsSelected
    <3>2. x6'.index = Cards!Index(c, m.shown) /\ x6'.follow = FALSE
      BY <1>4, <3>1 DEF Cards!TakeEntries, Cards!Landing
    <3>3. Cards!Selected' = c
      BY <1>1, <3>2, CardsCardAtItsIndex DEF Cards!Selected
    <3> QED BY <2>5, <3>1, <3>2, <3>3 DEF Cards!CardOK, Cards!OpenCardIsSelected
  <2>10. Cards!ListsOK'
    BY <1>1, <1>2, <1>3, <2>3, <2>4 DEF Cards!IInv, Cards!ListsOK
  <2>11. Cards!AwaitedIsComing'
    BY <1>1, <2>3, <2>4, <2>5 DEF Cards!IInv, Cards!AwaitedIsComing, Cards!Coming
  <2> QED BY <2>6, <2>7, <2>8, <2>9, <2>10, <2>11 DEF Cards!IInv
<1>5. CASE ~(x5.day = x3 /\ x7.key # 0 /\ x7.key \in m.shown)
  <2>1. x10' = x10 \ {m}
    BY <1>5 DEF Cards!TakeEntries
  <2>2. x7' = [num |-> x7.num, key |-> 0, opening |-> x7.opening, picker |-> 0]
    BY <1>5 DEF Cards!TakeEntries, Cards!IInv, Cards!TypeOK
  <2>3. Cards!TypeOK'
    BY <1>1, <1>2, <2>1, <2>2 DEF Cards!IInv, Cards!TypeOK
  <2>4. Cards!Numbers'
    BY <1>1, <1>2, <2>1, <2>2 DEF Cards!IInv, Cards!Numbers
  <2>5. Cards!FormOK'
    BY <1>1, <2>2 DEF Cards!IInv, Cards!FormOK, Cards!Unopened, Cards!MayStillOpen
  <2>6. Cards!CardOK'
    BY <2>2 DEF Cards!CardOK, Cards!OpenCardIsSelected
  <2>7. Cards!ListsOK'
    BY <1>1, <1>2, <1>3, <2>1 DEF Cards!IInv, Cards!ListsOK
  <2>8. Cards!AwaitedIsComing'
    BY <1>1, <2>1, <2>2 DEF Cards!IInv, Cards!AwaitedIsComing, Cards!Coming
  <2> QED BY <2>3, <2>4, <2>5, <2>6, <2>7, <2>8 DEF Cards!IInv
<1> QED BY <1>4, <1>5

-----------------------------------------------------------------------------
LEMMA CardsInitIInv == Cards!Init => Cards!IInv
<1> SUFFICES ASSUME Cards!Init PROVE Cards!IInv
  OBVIOUS
<1>1. Cards!TypeOK
  <2>1. x9 \in [Cards!Card -> Nat] /\ MaxLoads + MaxForms \in Nat
    BY CardsAssumption DEF Cards!Init
  <2>2. /\ x2 \in BOOLEAN /\ x7.opening \in BOOLEAN /\ x8.open \in BOOLEAN
        /\ x8.saving \in BOOLEAN
    BY Zenon DEF Cards!Init
  <2> QED BY <2>1, <2>2 DEF Cards!Init, Cards!TypeOK, Cards!Day, Cards!Today
<1>2. Cards!Numbers /\ Cards!CardOK /\ Cards!AwaitedIsComing
  BY DEF Cards!Init, Cards!Numbers, Cards!CardOK, Cards!OpenCardIsSelected, Cards!AwaitedIsComing
<1>3. Cards!FormOK
  BY CardsAssumption DEF Cards!Init, Cards!FormOK, Cards!Unopened, Cards!MayStillOpen
<1>4. Cards!ListsOK
  <2>1. \A c \in Cards!Event : c \in Cards!Card /\ x9[c] = MaxLoads + MaxForms /\ x9[c] \in Nat
    BY CardsAssumption DEF Cards!Init, Cards!Event
  <2> QED BY <2>1, CardsAssumption DEF Cards!Init, Cards!ListsOK, Cards!OwnSaveIsShown
<1> QED BY <1>1, <1>2, <1>3, <1>4 DEF Cards!IInv

LEMMA CardsNextPreserves == Cards!IInv /\ (Cards!Next \/ UNCHANGED Cards!vars) => Cards!IInv'
<1>1. ASSUME Cards!IInv, UNCHANGED Cards!vars PROVE Cards!IInv'
  BY <1>1
     DEF Cards!vars, Cards!IInv, Cards!TypeOK, Cards!Numbers, Cards!FormOK, Cards!CardOK,
         Cards!ListsOK, Cards!AwaitedIsComing, Cards!Coming, Cards!Unopened, Cards!MayStillOpen,
         Cards!OpenCardIsSelected, Cards!Selected, Cards!OwnSaveIsShown
<1>2. ASSUME Cards!IInv, NEW m \in x10, Cards!Answer(m) PROVE Cards!IInv'
  BY <1>2, CardsRunPreserves, CardsDiscardPreserves, CardsTakeEntriesPreserves,
     CardsRefuseEntriesPreserves, CardsTakeOpenedPreserves, CardsRefuseSavePreserves,
     CardsTakeSavePreserves DEF Cards!Answer
<1> QED
  BY <1>1, <1>2, CardsOtherSessionPreserves, CardsOpenPreserves, CardsClosePreserves,
     CardsDayKeysPreserve, CardsEndPreserves, CardsMovePreserves, CardsOpenSelectedPreserves,
     CardsReopenCardPreserves, CardsCollapseCardPreserves, CardsStartFormPreserves,
     CardsCancelFormPreserves, CardsSaveFormPreserves DEF Cards!Next

-----------------------------------------------------------------------------
(* The speech setup: x1 its popup, x2 whether another screen keeps it      *)
(* back, x3 whether speech can be recognised, x4 whether a model is        *)
(* loaded, x5 the checks under way, x6 the downloads.                      *)

\* The offer opens the popup and changes nothing else.
LEMMA SetupOfferedFacts ==
  ASSUME NEW s \in Setup!Setups, NEW hidden, x1' = Setup!Offered(s, hidden)
  PROVE  /\ x1' \in Setup!Setups
         /\ x1'.checking = s.checking /\ x1'.ready = s.ready /\ x1'.way = s.way
         /\ x1'.loadFailed = s.loadFailed /\ x1'.attempt = s.attempt
         /\ x1'.busy = s.busy /\ x1'.cancelling = s.cancelling
         /\ x1'.progress = s.progress
<1>1. x1' = s \/ x1' = [s EXCEPT !.open = TRUE, !.offered = TRUE]
  BY DEF Setup!Offered
<1>2. CASE x1' = s
  BY <1>2
<1>3. CASE x1' = [s EXCEPT !.open = TRUE, !.offered = TRUE]
  BY <1>3 DEF Setup!Setups
<1> QED BY <1>1, <1>2, <1>3

LEMMA SetupMovesFacts ==
  ASSUME x6 \in [Setup!Attempt -> Setup!Downloads], NEW a \in Setup!Attempt,
         NEW d \in Setup!Downloads, Setup!Moves(a, d)
  PROVE  /\ x6' \in [Setup!Attempt -> Setup!Downloads] /\ x6'[a] = d
         /\ \A b \in Setup!Attempt : b # a => x6'[b] = x6[b]
  BY DEF Setup!Moves

LEMMA SetupUnstartedType == Setup!Unstarted \in Setup!Downloads
  BY DEF Setup!Unstarted, Setup!Downloads, Setup!None, Setup!NoAnswer, Setup!Answer

\* What stays when neither the check nor the download is touched.
LEMMA SetupPopupPreserves ==
  ASSUME Setup!IInv, NEW s \in Setup!Setups, NEW hidden, x1' = Setup!Offered(s, hidden),
         x2' \in BOOLEAN,
         s.checking = x1.checking, s.ready = x1.ready, s.way = x1.way,
         s.loadFailed = x1.loadFailed, s.attempt = x1.attempt, s.busy = x1.busy,
         s.cancelling = x1.cancelling, s.progress = x1.progress,
         UNCHANGED <<x3, x4, x5, x6>>
  PROVE  Setup!IInv'
<1>1. /\ x1' \in Setup!Setups
      /\ x1'.checking = x1.checking /\ x1'.ready = x1.ready
      /\ x1'.way = x1.way /\ x1'.loadFailed = x1.loadFailed
      /\ x1'.attempt = x1.attempt /\ x1'.busy = x1.busy
      /\ x1'.cancelling = x1.cancelling /\ x1'.progress = x1.progress
  BY SetupOfferedFacts
<1>2. Setup!TypeOK'
  BY <1>1 DEF Setup!IInv, Setup!TypeOK
<1>3. Setup!OneAtATime'
  BY <1>1 DEF Setup!IInv, Setup!OneAtATime, Setup!Running
<1>4. Setup!ReportsOK'
  BY <1>1 DEF Setup!IInv, Setup!ReportsOK, Setup!InOrder
<1>5. Setup!LoadedOK'
  BY <1>1 DEF Setup!IInv, Setup!LoadedOK
<1>6. Setup!AwaitedIsComing'
  BY <1>1 DEF Setup!IInv, Setup!AwaitedIsComing, Setup!Running
<1> QED BY <1>2, <1>3, <1>4, <1>5, <1>6 DEF Setup!IInv

LEMMA SetupNavigatePreserves ==
  ASSUME Setup!IInv, Setup!Navigate
  PROVE  Setup!IInv'
  BY SetupPopupPreserves DEF Setup!Navigate, Setup!IInv, Setup!TypeOK

LEMMA SetupOpenModelsPreserves ==
  ASSUME Setup!IInv, Setup!OpenModels
  PROVE  Setup!IInv'
<1>1. PICK s : s = [x1 EXCEPT !.open = TRUE, !.offered = TRUE]
  OBVIOUS
<1>2. /\ s \in Setup!Setups
      /\ s.checking = x1.checking /\ s.ready = x1.ready /\ s.way = x1.way
      /\ s.loadFailed = x1.loadFailed /\ s.attempt = x1.attempt /\ s.busy = x1.busy
      /\ s.cancelling = x1.cancelling /\ s.progress = x1.progress
  BY <1>1 DEF Setup!IInv, Setup!TypeOK, Setup!Setups
<1>3. x1' = Setup!Offered(s, x2)
  BY <1>1 DEF Setup!OpenModels, Setup!Becomes
<1> QED BY <1>2, <1>3, SetupPopupPreserves DEF Setup!OpenModels, Setup!IInv, Setup!TypeOK

LEMMA SetupClosePreserves ==
  ASSUME Setup!IInv, Setup!Close \/ Setup!Hide
  PROVE  Setup!IInv'
<1>1. PICK s : /\ \/ s = [x1 EXCEPT !.open = FALSE, !.offered = TRUE]
                  \/ s = [x1 EXCEPT !.open = FALSE]
               /\ \E hidden \in {x2, FALSE} : x2' = hidden /\ x1' = Setup!Offered(s, hidden)
  BY DEF Setup!Close, Setup!Hide, Setup!Becomes
<1>2. /\ s \in Setup!Setups
      /\ s.checking = x1.checking /\ s.ready = x1.ready /\ s.way = x1.way
      /\ s.loadFailed = x1.loadFailed /\ s.attempt = x1.attempt /\ s.busy = x1.busy
      /\ s.cancelling = x1.cancelling /\ s.progress = x1.progress
  BY <1>1 DEF Setup!IInv, Setup!TypeOK, Setup!Setups
<1>3. x2' \in BOOLEAN /\ UNCHANGED <<x3, x4, x5, x6>>
  BY <1>1 DEF Setup!Close, Setup!Hide, Setup!IInv, Setup!TypeOK
<1> QED BY <1>1, <1>2, <1>3, SetupPopupPreserves

-----------------------------------------------------------------------------
LEMMA SetupTakeCheckedPreserves ==
  ASSUME Setup!IInv, Setup!TakeChecked
  PROVE  Setup!IInv'
<1>1. PICK ready \in BOOLEAN, answer \in Setup!Answer :
        /\ x4 => ready
        /\ ready => answer = Setup!NoAnswer
        /\ x4' = ready /\ x3' = ready
        /\ Setup!Becomes([x1 EXCEPT !.checking = FALSE, !.ready = ready, !.way = answer.way,
                                 !.loadFailed = answer.failed])
  BY DEF Setup!TakeChecked
<1>2. x5 = 1 /\ x5' = 0 /\ UNCHANGED <<x2, x6>>
  BY DEF Setup!TakeChecked, Setup!IInv, Setup!TypeOK
<1>3. ~x1.busy
  BY <1>2 DEF Setup!IInv, Setup!OneAtATime
<1>4. PICK s : s = [x1 EXCEPT !.checking = FALSE, !.ready = ready, !.way = answer.way,
                                 !.loadFailed = answer.failed]
  OBVIOUS
<1>5. answer.way \in {"none", "download", "repair"} /\ answer.failed \in BOOLEAN
  BY DEF Setup!Answer
<1>6. /\ s \in Setup!Setups
      /\ s.checking = FALSE /\ s.ready = ready /\ s.way = answer.way
      /\ s.attempt = x1.attempt /\ s.busy = x1.busy
  BY <1>4, <1>5 DEF Setup!IInv, Setup!TypeOK, Setup!Setups
<1>7. /\ x1' \in Setup!Setups
      /\ x1'.checking = FALSE /\ x1'.ready = ready /\ x1'.way = answer.way
      /\ x1'.attempt = x1.attempt /\ x1'.busy = x1.busy
  BY <1>1, <1>4, <1>6, SetupOfferedFacts DEF Setup!Becomes
<1>8. Setup!TypeOK'
  BY <1>1, <1>2, <1>7 DEF Setup!IInv, Setup!TypeOK
<1>9. Setup!OneAtATime'
  BY <1>2, <1>3, <1>7 DEF Setup!IInv, Setup!OneAtATime, Setup!Running
<1>10. Setup!ReportsOK'
  BY <1>3, <1>7 DEF Setup!ReportsOK
<1>11. Setup!LoadedOK'
  <2>1. \A a \in Setup!Attempt : x6[a].step # "returned"
    BY <1>3 DEF Setup!IInv, Setup!OneAtATime, Setup!Running
  <2> QED BY <1>1, <1>2, <1>7, <2>1 DEF Setup!LoadedOK
<1>12. Setup!AwaitedIsComing'
  BY <1>3, <1>7 DEF Setup!AwaitedIsComing
<1> QED BY <1>8, <1>9, <1>10, <1>11, <1>12 DEF Setup!IInv

\* The buttons that start something belong to a popup with nothing under way.
LEMMA SetupButtonsFacts ==
  ASSUME Setup!IInv
  PROVE  /\ Setup!Pressed("download") \/ Setup!Pressed("repair") =>
              ~x1.busy /\ ~x1.checking /\ ~x1.ready /\ x1.way # "none"
         /\ Setup!Pressed("check") =>
              ~x1.busy /\ ~x1.checking /\ ~x1.ready
         /\ Setup!Pressed("cancel") => x1.busy
  BY DEF Setup!Pressed, Setup!Buttons, Setup!IInv, Setup!TypeOK, Setup!Setups

LEMMA SetupStartPreserves ==
  ASSUME Setup!IInv, Setup!Start
  PROVE  Setup!IInv'
<1>1. ~x1.busy /\ ~x1.checking /\ ~x1.ready /\ x1.way # "none"
  BY SetupButtonsFacts DEF Setup!Start
<1>2. PICK b \in Setup!Attempt : b = x1.attempt + 1
  BY SetupAssumption DEF Setup!Start, Setup!IInv, Setup!TypeOK, Setup!Setups, Setup!Attempt
<1>3. PICK s : s = [x1 EXCEPT !.attempt = b, !.busy = TRUE, !.cancelling = FALSE,
                                 !.progress = 0]
  OBVIOUS
<1>4. /\ s \in Setup!Setups
      /\ s.checking = x1.checking /\ s.ready = x1.ready /\ s.way = x1.way
      /\ s.loadFailed = x1.loadFailed /\ s.attempt = b /\ s.busy = TRUE
      /\ s.cancelling = FALSE /\ s.progress = 0
  BY <1>3 DEF Setup!IInv, Setup!TypeOK, Setup!Setups
<1>5. x1' = Setup!Offered(s, x2)
  BY <1>2, <1>3 DEF Setup!Start, Setup!Becomes
<1>6. /\ x1' \in Setup!Setups
      /\ x1'.checking = x1.checking /\ x1'.ready = x1.ready /\ x1'.way = x1.way
      /\ x1'.loadFailed = x1.loadFailed /\ x1'.attempt = b /\ x1'.busy = TRUE
      /\ x1'.cancelling = FALSE /\ x1'.progress = 0
  BY <1>4, <1>5, SetupOfferedFacts
<1>7. PICK d : d = [Setup!Unstarted EXCEPT !.step = "running", !.watch = "waiting"]
  OBVIOUS
<1>8. /\ d \in Setup!Downloads /\ d.step = "running" /\ d.watch = "waiting" /\ d.mail = Setup!None
      /\ d.reported = 0 /\ d.carried = Setup!None
  <2>1. PICK u \in Setup!Downloads : u = Setup!Unstarted
    BY SetupUnstartedType
  <2>2. u.reported = 0 /\ u.mail = Setup!None /\ u.carried = Setup!None
    BY <2>1 DEF Setup!Unstarted
  <2>3. d = [u EXCEPT !.step = "running", !.watch = "waiting"]
    BY <1>7, <2>1
  <2> QED BY <2>2, <2>3 DEF Setup!Downloads
<1>9. Setup!Moves(b, d)
  BY <1>2, <1>7 DEF Setup!Start
<1>10. /\ x6' \in [Setup!Attempt -> Setup!Downloads] /\ x6'[b] = d
       /\ \A a \in Setup!Attempt : a # b => x6'[a] = x6[a]
  BY <1>8, <1>9, SetupMovesFacts DEF Setup!IInv, Setup!TypeOK
<1>11. UNCHANGED <<x2, x3, x4, x5>>
  BY DEF Setup!Start
<1>12. Setup!TypeOK'
  BY <1>6, <1>10, <1>11 DEF Setup!IInv, Setup!TypeOK
<1>13. b # 0
  BY SetupAssumption DEF Setup!Attempt
<1>14. Setup!OneAtATime'
  BY <1>1, <1>6, <1>8, <1>10, <1>11, <1>13 DEF Setup!IInv, Setup!OneAtATime, Setup!Running
<1>15. Setup!ReportsOK'
  BY <1>6, <1>8, <1>10 DEF Setup!ReportsOK, Setup!InOrder, Setup!None
<1>16. Setup!LoadedOK'
  BY <1>1, <1>6, <1>8, <1>10, <1>11 DEF Setup!IInv, Setup!LoadedOK
<1>17. Setup!AwaitedIsComing'
  BY <1>1, <1>6, <1>8, <1>10 DEF Setup!AwaitedIsComing, Setup!Running
<1> QED BY <1>12, <1>14, <1>15, <1>16, <1>17 DEF Setup!IInv

LEMMA SetupCheckAgainPreserves ==
  ASSUME Setup!IInv, Setup!CheckAgain
  PROVE  Setup!IInv'
<1>1. ~x1.busy /\ ~x1.checking /\ ~x1.ready
  BY SetupButtonsFacts DEF Setup!CheckAgain
<1>2. x5 = 0 /\ x5' = 1 /\ UNCHANGED <<x2, x3, x4, x6>>
  BY <1>1 DEF Setup!CheckAgain, Setup!IInv, Setup!TypeOK, Setup!OneAtATime
<1>3. PICK s : s = [x1 EXCEPT !.checking = TRUE]
  OBVIOUS
<1>4. /\ s \in Setup!Setups /\ s.checking = TRUE /\ s.ready = x1.ready
      /\ s.attempt = x1.attempt /\ s.busy = x1.busy
  BY <1>3 DEF Setup!IInv, Setup!TypeOK, Setup!Setups
<1>5. /\ x1' \in Setup!Setups /\ x1'.checking = TRUE /\ x1'.ready = x1.ready
      /\ x1'.attempt = x1.attempt /\ x1'.busy = x1.busy
  BY <1>3, <1>4, SetupOfferedFacts DEF Setup!CheckAgain, Setup!Becomes
<1>6. Setup!TypeOK'
  BY <1>2, <1>5 DEF Setup!IInv, Setup!TypeOK
<1>7. Setup!OneAtATime'
  BY <1>1, <1>2, <1>5 DEF Setup!IInv, Setup!OneAtATime, Setup!Running
<1>8. Setup!ReportsOK' /\ Setup!LoadedOK' /\ Setup!AwaitedIsComing'
  BY <1>1, <1>2, <1>5 DEF Setup!IInv, Setup!ReportsOK, Setup!LoadedOK, Setup!AwaitedIsComing
<1> QED BY <1>6, <1>7, <1>8 DEF Setup!IInv

-----------------------------------------------------------------------------
\* The popup's part in a step of a download that it only watches.
SetupSamePopup ==
  /\ x1' \in Setup!Setups
  /\ x1'.checking = x1.checking /\ x1'.ready = x1.ready
  /\ x1'.way = x1.way /\ x1'.loadFailed = x1.loadFailed
  /\ x1'.attempt = x1.attempt /\ x1'.busy = x1.busy

\* A step of download a.
LEMMA SetupStepPreserves ==
  ASSUME Setup!IInv, NEW a \in Setup!Attempt, NEW d \in Setup!Downloads, Setup!Moves(a, d),
         SetupSamePopup,
         UNCHANGED <<x2, x3, x5>>, x4' \in BOOLEAN,
         (a = x1.attempt /\ x1.busy) \/ x4' = x4,
         a = x1.attempt \/ (x1'.progress = x1.progress
                             /\ x1'.cancelling = x1.cancelling),
         d.step \in {"running", "returned"} <=> a = x1.attempt /\ x1.busy,
         a = x1.attempt /\ x1.busy => Setup!InOrder(d, x1'.progress),
         d.step = "returned" =>
           (~d.answer.failed => x4') /\ (x4' => d.answer.way = "none"),
         a = x1.attempt /\ x1.busy /\ ~x1'.cancelling =>
           d.watch \in {"waiting", "message"} \/ d.step # "running"
  PROVE  Setup!IInv'
<1>1. /\ x1' \in Setup!Setups
      /\ x1'.checking = x1.checking /\ x1'.ready = x1.ready
      /\ x1'.way = x1.way /\ x1'.loadFailed = x1.loadFailed
      /\ x1'.attempt = x1.attempt /\ x1'.busy = x1.busy
  BY DEF SetupSamePopup
<1>2. /\ x6' \in [Setup!Attempt -> Setup!Downloads] /\ x6'[a] = d
      /\ \A b \in Setup!Attempt : b # a => x6'[b] = x6[b]
  BY SetupMovesFacts DEF Setup!IInv, Setup!TypeOK
<1>3. (x1.busy => x1.attempt \in Setup!Attempt) /\ (x1.busy => ~x1.ready)
  BY DEF Setup!IInv, Setup!TypeOK, Setup!OneAtATime, Setup!Setups
<1>4. Setup!TypeOK'
  BY <1>1, <1>2 DEF Setup!IInv, Setup!TypeOK
<1>5. Setup!OneAtATime'
  BY <1>1, <1>2 DEF Setup!IInv, Setup!OneAtATime, Setup!Running
<1>6. Setup!ReportsOK'
  <2>1. CASE a = x1.attempt
    BY <1>1, <1>2, <2>1 DEF Setup!ReportsOK
  <2>2. CASE a # x1.attempt
    BY <1>1, <1>2, <1>3, <2>2 DEF Setup!IInv, Setup!ReportsOK
  <2> QED BY <2>1, <2>2
<1>7. Setup!LoadedOK'
  <2>1. \A b \in Setup!Attempt : x6[b].step = "returned" => b = x1.attempt /\ x1.busy
    BY DEF Setup!IInv, Setup!OneAtATime, Setup!Running
  <2>2. \A b \in Setup!Attempt : x6'[b].step = "returned" =>
           /\ ~x6'[b].answer.failed => x4'
           /\ x4' => x6'[b].answer.way = "none"
    BY <1>2, <2>1 DEF Setup!IInv, Setup!LoadedOK
  <2>3. x3' = x1'.ready /\ (x1'.ready => x4')
    BY <1>1, <1>3 DEF Setup!IInv, Setup!LoadedOK
  <2>4. x4' /\ ~x1'.busy =>
           x1'.ready \/ x1'.checking \/ (x1'.way = "none" /\ x1'.loadFailed)
    BY <1>1 DEF Setup!IInv, Setup!LoadedOK
  <2> QED BY <2>2, <2>3, <2>4 DEF Setup!LoadedOK
<1>8. Setup!AwaitedIsComing'
  <2>1. x1.busy => x6'[x1.attempt].step \in {"running", "returned"}
    BY <1>2, <1>3 DEF Setup!IInv, Setup!AwaitedIsComing, Setup!Running
  <2>2. x1.busy /\ ~x1'.cancelling =>
           \/ x6'[x1.attempt].watch \in {"waiting", "message"}
           \/ x6'[x1.attempt].step # "running"
    BY <1>2, <1>3 DEF Setup!IInv, Setup!AwaitedIsComing
  <2>3. x1.checking => x5' > 0
    BY DEF Setup!IInv, Setup!AwaitedIsComing
  <2> QED BY <1>1, <2>1, <2>2, <2>3 DEF Setup!AwaitedIsComing, Setup!Running
<1> QED BY <1>4, <1>5, <1>6, <1>7, <1>8 DEF Setup!IInv

LEMMA SetupSamePopupFacts ==
  ASSUME Setup!IInv, x1' = x1 \/ x1' = Setup!Offered(x1, x2)
  PROVE  SetupSamePopup /\ x1'.cancelling = x1.cancelling /\ x1'.progress = x1.progress
<1>1. x1 \in Setup!Setups
  BY DEF Setup!IInv, Setup!TypeOK
<1>2. x1' = Setup!Offered(x1, TRUE) \/ x1' = Setup!Offered(x1, x2)
  BY DEF Setup!Offered
<1> QED BY <1>1, <1>2, SetupOfferedFacts DEF SetupSamePopup

\* What is known of a download before its step.
LEMMA SetupDownloadFacts ==
  ASSUME Setup!IInv, NEW a \in Setup!Attempt
  PROVE  /\ x6[a] \in Setup!Downloads
         /\ x6[a].step \in {"running", "returned"} <=> a = x1.attempt /\ x1.busy
         /\ a = x1.attempt /\ x1.busy => Setup!InOrder(x6[a], x1.progress)
         /\ x6[a].step = "returned" =>
              (~x6[a].answer.failed => x4) /\ (x4 => x6[a].answer.way = "none")
         /\ a = x1.attempt /\ x1.busy /\ ~x1.cancelling =>
              x6[a].watch \in {"waiting", "message"} \/ x6[a].step # "running"
         /\ x4 \in BOOLEAN /\ x1.progress \in Nat
  BY
     DEF Setup!IInv, Setup!TypeOK, Setup!OneAtATime, Setup!Running, Setup!ReportsOK,
         Setup!LoadedOK, Setup!AwaitedIsComing, Setup!Setups

LEMMA SetupCancelPreserves ==
  ASSUME Setup!IInv, Setup!Cancel
  PROVE  Setup!IInv'
<1>1. PICK a : a = x1.attempt
  OBVIOUS
<1>2. x1.busy /\ a \in Setup!Attempt /\ x6[a] \in Setup!Downloads
  BY <1>1, SetupButtonsFacts
     DEF Setup!Cancel, Setup!IInv, Setup!TypeOK, Setup!OneAtATime, Setup!Setups
<1>3. PICK d : d = [x6[a] EXCEPT !.cancelled = TRUE]
  OBVIOUS
<1>4. /\ d \in Setup!Downloads /\ d.step = x6[a].step /\ d.answer = x6[a].answer
      /\ d.mail = x6[a].mail /\ d.reported = x6[a].reported
      /\ d.carried = x6[a].carried /\ d.watch = x6[a].watch
  BY <1>2, <1>3 DEF Setup!Downloads
<1>5. PICK s : s = [x1 EXCEPT !.cancelling = TRUE]
  OBVIOUS
<1>6. /\ s \in Setup!Setups
      /\ s.checking = x1.checking /\ s.ready = x1.ready /\ s.way = x1.way
      /\ s.loadFailed = x1.loadFailed /\ s.attempt = x1.attempt /\ s.busy = x1.busy
      /\ s.cancelling = TRUE /\ s.progress = x1.progress
  BY <1>5 DEF Setup!IInv, Setup!TypeOK, Setup!Setups
<1>7. Setup!Moves(a, d) /\ x1' = Setup!Offered(s, x2) /\ UNCHANGED <<x2, x3, x4, x5>>
  BY <1>1, <1>3, <1>5 DEF Setup!Cancel, Setup!Becomes
<1>8. SetupSamePopup /\ x1'.progress = x1.progress /\ x1'.cancelling = TRUE
  BY <1>6, <1>7, SetupOfferedFacts DEF SetupSamePopup
<1>9. Setup!InOrder(d, x1'.progress)
  BY <1>1, <1>2, <1>4, <1>8, SetupDownloadFacts DEF Setup!InOrder
<1> QED BY <1>1, <1>2, <1>4, <1>7, <1>8, <1>9, SetupDownloadFacts, SetupStepPreserves

LEMMA SetupReportPreserves ==
  ASSUME Setup!IInv, NEW a \in Setup!Attempt, Setup!Report(a)
  PROVE  Setup!IInv'
<1>1. x6[a] \in Setup!Downloads /\ x6[a].step = "running"
  BY SetupDownloadFacts DEF Setup!Report
<1>2. PICK n \in Nat : n = x6[a].reported + 1
  BY <1>1 DEF Setup!Downloads
<1>3. PICK d : d = [x6[a] EXCEPT !.reported = n, !.mail = n]
  OBVIOUS
<1>4. /\ d \in Setup!Downloads /\ d.step = "running" /\ d.answer = x6[a].answer
      /\ d.mail = n /\ d.reported = n
      /\ d.carried = x6[a].carried /\ d.watch = x6[a].watch
  BY <1>1, <1>3 DEF Setup!Downloads
<1>5. Setup!Moves(a, d) /\ UNCHANGED <<x1, x2, x3, x4, x5>>
  BY <1>2, <1>3 DEF Setup!Report
<1>6. SetupSamePopup /\ x1'.cancelling = x1.cancelling /\ x1'.progress = x1.progress
  BY <1>5, SetupSamePopupFacts
<1>7. a = x1.attempt /\ x1.busy /\ Setup!InOrder(d, x1'.progress)
  <2>1. a = x1.attempt /\ x1.busy /\ Setup!InOrder(x6[a], x1.progress)
        /\ x1.progress \in Nat
    BY <1>1, SetupDownloadFacts
  <2> QED BY <1>1, <1>2, <1>4, <1>6, <2>1 DEF Setup!InOrder, Setup!Downloads
<1>8. ~x1.cancelling => d.watch \in {"waiting", "message"}
  BY <1>1, <1>4, <1>7, SetupDownloadFacts
<1>9. x4' \in BOOLEAN
  BY <1>5, SetupDownloadFacts
<1> QED BY <1>4, <1>5, <1>6, <1>7, <1>8, <1>9, SetupStepPreserves

LEMMA SetupReturnPreserves ==
  ASSUME Setup!IInv, NEW a \in Setup!Attempt, Setup!Return(a)
  PROVE  Setup!IInv'
<1>1. x6[a] \in Setup!Downloads /\ x6[a].step = "running"
  BY SetupDownloadFacts DEF Setup!Return
<1>2. PICK succeeds \in BOOLEAN, answer \in Setup!Answer :
        /\ succeeds => answer.way = "none" /\ answer.failed = x6[a].cancelled
        /\ ~succeeds => answer.failed
        /\ x4' = succeeds
        /\ Setup!Moves(a, [x6[a] EXCEPT !.step = "returned", !.answer = answer])
  BY DEF Setup!Return
<1>3. PICK d : d = [x6[a] EXCEPT !.step = "returned", !.answer = answer]
  OBVIOUS
<1>4. /\ d \in Setup!Downloads /\ d.step = "returned" /\ d.answer = answer
      /\ d.mail = x6[a].mail /\ d.reported = x6[a].reported
      /\ d.carried = x6[a].carried /\ d.watch = x6[a].watch
  BY <1>1, <1>3 DEF Setup!Downloads
<1>5. Setup!Moves(a, d) /\ UNCHANGED <<x1, x2, x3, x5>>
  BY <1>2, <1>3 DEF Setup!Return
<1>6. SetupSamePopup /\ x1'.cancelling = x1.cancelling /\ x1'.progress = x1.progress
  BY <1>5, SetupSamePopupFacts
<1>7. a = x1.attempt /\ x1.busy /\ Setup!InOrder(d, x1'.progress)
  BY <1>1, <1>4, <1>6, SetupDownloadFacts DEF Setup!InOrder
<1>8. (~d.answer.failed => x4') /\ (x4' => d.answer.way = "none") /\ x4' \in BOOLEAN
  BY <1>2, <1>4
<1> QED BY <1>4, <1>5, <1>6, <1>7, <1>8, SetupStepPreserves

LEMMA SetupWatchPreserves ==
  ASSUME Setup!IInv, NEW a \in Setup!Attempt, Setup!Watch(a)
  PROVE  Setup!IInv'
<1>1. /\ x6[a] \in Setup!Downloads /\ x6[a].watch = "waiting"
      /\ UNCHANGED <<x1, x2, x3, x4, x5>>
  BY SetupDownloadFacts DEF Setup!Watch
<1>2. SetupSamePopup /\ x1'.cancelling = x1.cancelling /\ x1'.progress = x1.progress
  BY <1>1, SetupSamePopupFacts
<1>3. x4' \in BOOLEAN /\ x4' = x4
  BY <1>1, SetupDownloadFacts
<1>4. CASE /\ x6[a].mail # Setup!None
           /\ Setup!Moves(a, [x6[a] EXCEPT !.watch = "message", !.carried = x6[a].mail,
                                           !.mail = Setup!None])
  <2>1. PICK d : d = [x6[a] EXCEPT !.watch = "message", !.carried = x6[a].mail,
                                         !.mail = Setup!None]
    OBVIOUS
  <2>2. /\ d \in Setup!Downloads /\ d.step = x6[a].step /\ d.answer = x6[a].answer
        /\ d.mail = Setup!None /\ d.reported = x6[a].reported
        /\ d.carried = x6[a].mail /\ d.watch = "message"
    BY <1>1, <2>1 DEF Setup!Downloads, Setup!None
  <2>3. a = x1.attempt /\ x1.busy => Setup!InOrder(d, x1'.progress)
    <3>1. x6[a].reported \in Nat
      BY <1>1 DEF Setup!Downloads
    <3> QED BY <1>2, <1>4, <2>2, <3>1, SetupDownloadFacts DEF Setup!InOrder, Setup!None
  <2>4. Setup!Moves(a, d)
    BY <1>4, <2>1
  <2>5. d.step \in {"running", "returned"} <=> a = x1.attempt /\ x1.busy
    BY <2>2, SetupDownloadFacts
  <2>6. d.step = "returned" =>
          (~d.answer.failed => x4') /\ (x4' => d.answer.way = "none")
    BY <1>3, <2>2, SetupDownloadFacts
  <2> QED BY <1>1, <1>2, <1>3, <2>2, <2>3, <2>4, <2>5, <2>6, SetupStepPreserves
<1>5. CASE /\ x6[a].mail = Setup!None /\ x6[a].step \in {"returned", "taken"}
           /\ Setup!Moves(a, [x6[a] EXCEPT !.watch = "none"])
  <2>1. PICK d : d = [x6[a] EXCEPT !.watch = "none"]
    OBVIOUS
  <2>2. /\ d \in Setup!Downloads /\ d.step = x6[a].step /\ d.answer = x6[a].answer
        /\ d.mail = x6[a].mail /\ d.reported = x6[a].reported
        /\ d.carried = x6[a].carried /\ d.watch = "none"
    BY <1>1, <2>1 DEF Setup!Downloads
  <2>3. a = x1.attempt /\ x1.busy => Setup!InOrder(d, x1'.progress)
    BY <1>2, <2>2, SetupDownloadFacts DEF Setup!InOrder
  <2>4. d.step # "running"
    BY <1>5, <2>2
  <2>5. Setup!Moves(a, d)
    BY <1>5, <2>1
  <2>6. d.step \in {"running", "returned"} <=> a = x1.attempt /\ x1.busy
    BY <2>2, SetupDownloadFacts
  <2>7. d.step = "returned" =>
          (~d.answer.failed => x4') /\ (x4' => d.answer.way = "none")
    BY <1>3, <2>2, SetupDownloadFacts
  <2> QED BY <1>1, <1>2, <1>3, <2>2, <2>3, <2>4, <2>5, <2>6, <2>7, SetupStepPreserves
<1> QED BY <1>4, <1>5 DEF Setup!Watch

LEMMA SetupTakeProgressPreserves ==
  ASSUME Setup!IInv, NEW a \in Setup!Attempt, Setup!TakeProgress(a)
  PROVE  Setup!IInv'
<1>1. /\ x6[a] \in Setup!Downloads /\ x6[a].watch = "message"
      /\ UNCHANGED <<x2, x3, x4, x5>>
  BY SetupDownloadFacts DEF Setup!TakeProgress
<1>2. x4' \in BOOLEAN /\ x4' = x4
  BY <1>1, SetupDownloadFacts
<1>3. CASE Setup!Current(a)
  <2>1. PICK d : d = [x6[a] EXCEPT !.watch = "waiting", !.carried = Setup!None]
    OBVIOUS
  <2>2. PICK s : s = [x1 EXCEPT !.progress = x6[a].carried]
    OBVIOUS
  <2>3. Setup!Moves(a, d) /\ x1' = Setup!Offered(s, x2) /\ a = x1.attempt /\ x1.busy
    BY <1>3, <2>1, <2>2 DEF Setup!TakeProgress, Setup!Becomes, Setup!Current
  <2>4. /\ d \in Setup!Downloads /\ d.step = x6[a].step /\ d.answer = x6[a].answer
        /\ d.mail = x6[a].mail /\ d.reported = x6[a].reported
        /\ d.carried = Setup!None /\ d.watch = "waiting"
    BY <1>1, <2>1 DEF Setup!Downloads, Setup!None
  <2>5. /\ s \in Setup!Setups
        /\ s.checking = x1.checking /\ s.ready = x1.ready /\ s.way = x1.way
        /\ s.loadFailed = x1.loadFailed /\ s.attempt = x1.attempt /\ s.busy = x1.busy
        /\ s.progress = x6[a].carried
    BY <1>1, <2>2 DEF Setup!IInv, Setup!TypeOK, Setup!Setups, Setup!Downloads
  <2>6. SetupSamePopup /\ x1'.progress = x6[a].carried
    BY <2>3, <2>5, SetupOfferedFacts DEF SetupSamePopup
  <2>7. Setup!InOrder(d, x1'.progress)
    <3>1. x6[a].reported \in Nat
      BY <1>1 DEF Setup!Downloads
    <3> QED BY <1>1, <2>3, <2>4, <2>6, <3>1, SetupDownloadFacts DEF Setup!InOrder, Setup!None
  <2> QED BY <1>1, <1>2, <2>3, <2>4, <2>6, <2>7, SetupDownloadFacts, SetupStepPreserves
<1>4. CASE ~Setup!Current(a)
  <2>1. PICK d : d = [x6[a] EXCEPT !.watch = "none", !.carried = Setup!None]
    OBVIOUS
  <2>2. Setup!Moves(a, d) /\ x1' = Setup!Offered(x1, x2)
    BY <1>4, <2>1 DEF Setup!TakeProgress, Setup!Becomes
  <2>3. /\ d \in Setup!Downloads /\ d.step = x6[a].step /\ d.answer = x6[a].answer
        /\ d.mail = x6[a].mail /\ d.reported = x6[a].reported
        /\ d.carried = Setup!None /\ d.watch = "none"
    BY <1>1, <2>1 DEF Setup!Downloads, Setup!None
  <2>4. SetupSamePopup /\ x1'.cancelling = x1.cancelling /\ x1'.progress = x1.progress
    BY <2>2, SetupSamePopupFacts
  <2>5. a = x1.attempt /\ x1.busy => Setup!InOrder(d, x1'.progress)
    <3>1. x6[a].reported \in Nat
      BY <1>1 DEF Setup!Downloads
    <3> QED BY <2>3, <2>4, <3>1, SetupDownloadFacts DEF Setup!InOrder, Setup!None
  <2>6. ~(a = x1.attempt /\ x1.busy /\ ~x1'.cancelling)
    BY <1>4, <2>4 DEF Setup!Current
  <2> QED BY <1>1, <1>2, <2>2, <2>3, <2>4, <2>5, <2>6, SetupDownloadFacts, SetupStepPreserves
<1> QED BY <1>3, <1>4

\* The result of a download ends it; one that loaded the model and is no success offers the
\* check that finds it.
LEMMA SetupTakeFinishedPreserves ==
  ASSUME Setup!IInv, NEW a \in Setup!Attempt, Setup!TakeFinished(a)
  PROVE  Setup!IInv'
<1>1. /\ x6[a] \in Setup!Downloads /\ x6[a].step = "returned"
      /\ UNCHANGED <<x2, x4, x5>>
      /\ a = x1.attempt /\ x1.busy /\ ~x1.checking /\ ~x1.ready
  BY SetupDownloadFacts DEF Setup!TakeFinished, Setup!IInv, Setup!OneAtATime
<1>2. PICK d : d = [Setup!Unstarted EXCEPT !.step = "taken", !.mail = x6[a].mail,
                                     !.watch = x6[a].watch,
                                     !.carried = x6[a].carried]
  OBVIOUS
<1>3. d \in Setup!Downloads /\ d.step = "taken"
  <2>1. PICK u \in Setup!Downloads : u = Setup!Unstarted
    BY SetupUnstartedType
  <2>2. d = [u EXCEPT !.step = "taken", !.mail = x6[a].mail,
                      !.watch = x6[a].watch, !.carried = x6[a].carried]
    BY <1>2, <2>1
  <2> QED BY <1>1, <2>2 DEF Setup!Downloads
<1>4. Setup!Moves(a, d)
  BY <1>2 DEF Setup!TakeFinished
<1>5. /\ x6' \in [Setup!Attempt -> Setup!Downloads] /\ x6'[a] = d
      /\ \A b \in Setup!Attempt : b # a => x6'[b] = x6[b]
  BY <1>3, <1>4, SetupMovesFacts DEF Setup!IInv, Setup!TypeOK
<1>6. PICK e \in BOOLEAN : e = Setup!Enabled(a)
  BY DEF Setup!Enabled
<1>7. PICK s : s = [x1 EXCEPT !.busy = FALSE, !.cancelling = FALSE, !.progress = 0,
                                 !.ready = e, !.way = x6[a].answer.way, !.loadFailed = ~e]
  OBVIOUS
<1>8. x6[a].answer.way \in {"none", "download", "repair"} /\ (~e) \in BOOLEAN
  BY <1>1 DEF Setup!Downloads, Setup!Answer
<1>9. /\ s \in Setup!Setups
      /\ s.checking = FALSE /\ s.ready = e /\ s.way = x6[a].answer.way
      /\ s.loadFailed = ~e /\ s.attempt = a /\ s.busy = FALSE
  BY <1>1, <1>7, <1>8 DEF Setup!IInv, Setup!TypeOK, Setup!Setups
<1>10. x1' = Setup!Offered(s, x2) /\ x3' = e
  BY <1>1, <1>6, <1>7 DEF Setup!TakeFinished, Setup!Becomes, Setup!Fails
<1>11. /\ x1' \in Setup!Setups
       /\ x1'.checking = FALSE /\ x1'.ready = e /\ x1'.way = x6[a].answer.way
       /\ x1'.loadFailed = ~e /\ x1'.attempt = a /\ x1'.busy = FALSE
  BY <1>9, <1>10, SetupOfferedFacts
<1>12. Setup!TypeOK'
  BY <1>1, <1>5, <1>10, <1>11 DEF Setup!IInv, Setup!TypeOK
<1>13. Setup!OneAtATime'
  BY <1>1, <1>3, <1>5, <1>11 DEF Setup!IInv, Setup!OneAtATime, Setup!Running
<1>14. Setup!ReportsOK' /\ Setup!AwaitedIsComing'
  BY <1>11 DEF Setup!ReportsOK, Setup!AwaitedIsComing
<1>15. Setup!LoadedOK'
  <2>1. (e => x4) /\ (x4 => x6[a].answer.way = "none")
    BY <1>1, <1>6 DEF Setup!Enabled, Setup!IInv, Setup!LoadedOK
  <2>2. \A b \in Setup!Attempt : x6'[b].step # "returned"
    BY <1>1, <1>3, <1>5 DEF Setup!IInv, Setup!OneAtATime, Setup!Running
  <2> QED BY <1>1, <1>10, <1>11, <2>1, <2>2 DEF Setup!LoadedOK
<1> QED BY <1>12, <1>13, <1>14, <1>15 DEF Setup!IInv

-----------------------------------------------------------------------------
LEMMA SetupInitIInv == Setup!Init => Setup!IInv
<1> SUFFICES ASSUME Setup!Init PROVE Setup!IInv
  OBVIOUS
<1>1. Setup!TypeOK
  <2>1. /\ x1 = [open |-> FALSE, offered |-> FALSE, checking |-> TRUE, ready |-> FALSE,
                    way |-> "none", loadFailed |-> FALSE, attempt |-> 0, busy |-> FALSE,
                    cancelling |-> FALSE, progress |-> 0]
        /\ x6 = [a \in Setup!Attempt |-> Setup!Unstarted]
        /\ x5 = 1
    BY DEF Setup!Init
  <2>2. x1 \in Setup!Setups
    BY <2>1 DEF Setup!Setups
  <2>3. x2 \in BOOLEAN /\ x3 \in BOOLEAN /\ x4 \in BOOLEAN
    BY Zenon DEF Setup!Init
  <2> QED BY <2>1, <2>2, <2>3, SetupUnstartedType DEF Setup!TypeOK
<1>2. Setup!ReportsOK /\ Setup!AwaitedIsComing
  BY DEF Setup!Init, Setup!ReportsOK, Setup!AwaitedIsComing
<1>3. Setup!OneAtATime /\ Setup!LoadedOK
  <2>1. \A a \in Setup!Attempt : x6[a].step = "none"
    BY DEF Setup!Init, Setup!Unstarted
  <2> QED BY <2>1 DEF Setup!Init, Setup!OneAtATime, Setup!LoadedOK, Setup!Running
<1> QED BY <1>1, <1>2, <1>3 DEF Setup!IInv

LEMMA SetupNextPreserves == Setup!IInv /\ (Setup!Next \/ UNCHANGED Setup!vars) => Setup!IInv'
<1>1. ASSUME Setup!IInv, UNCHANGED Setup!vars PROVE Setup!IInv'
  BY <1>1
     DEF Setup!vars, Setup!IInv, Setup!TypeOK, Setup!OneAtATime, Setup!ReportsOK, Setup!InOrder,
         Setup!LoadedOK, Setup!AwaitedIsComing, Setup!Running
<1> QED
  BY <1>1, SetupNavigatePreserves, SetupOpenModelsPreserves, SetupClosePreserves,
     SetupTakeCheckedPreserves, SetupStartPreserves, SetupCancelPreserves,
     SetupCheckAgainPreserves, SetupReportPreserves, SetupReturnPreserves, SetupWatchPreserves,
     SetupTakeProgressPreserves, SetupTakeFinishedPreserves DEF Setup!Next

\* What the popup promises follows.
LEMMA SetupConsequences == Setup!IInv => Setup!OneCall /\ Setup!ProgressIsOfDownload /\ Setup!ReadyIsLoaded
<1> SUFFICES ASSUME Setup!IInv PROVE Setup!OneCall /\ Setup!ProgressIsOfDownload
                    /\ Setup!ReadyIsLoaded
  OBVIOUS
<1>1. Setup!OneCall
  BY DEF Setup!IInv, Setup!TypeOK, Setup!OneAtATime, Setup!OneCall
<1>2. Setup!ProgressIsOfDownload
  BY DEF Setup!IInv, Setup!ReportsOK, Setup!InOrder, Setup!ProgressIsOfDownload
<1>3. Setup!ReadyIsLoaded
  BY
     DEF Setup!IInv, Setup!TypeOK, Setup!Setups, Setup!LoadedOK, Setup!ReadyIsLoaded,
         Setup!Buttons
<1> QED BY <1>1, <1>2, <1>3

LEMMA SetupContinuity == Setup!IInv /\ (Setup!Next \/ UNCHANGED Setup!vars) => Setup!ProgressNeverGoesBack
<1> SUFFICES ASSUME Setup!IInv, Setup!Next \/ UNCHANGED Setup!vars, x1.busy, x1'.busy,
                    x1'.attempt = x1.attempt
             PROVE  x1'.progress >= x1.progress
  BY DEF Setup!ProgressNeverGoesBack
<1>1. x1 \in Setup!Setups /\ x1.progress \in Nat
  BY DEF Setup!IInv, Setup!TypeOK, Setup!Setups
<1>2. ASSUME NEW s \in Setup!Setups, NEW hidden, x1' = Setup!Offered(s, hidden),
             s.progress = x1.progress
      PROVE  x1'.progress >= x1.progress
  <2>1. x1'.progress = x1.progress
    BY <1>2, SetupOfferedFacts
  <2> QED BY <1>1, <2>1
<1>3. CASE Setup!Navigate
  BY <1>1, <1>2, <1>3 DEF Setup!Navigate
<1>4. CASE Setup!OpenModels
  <2>1. PICK s : s = [x1 EXCEPT !.open = TRUE, !.offered = TRUE]
    OBVIOUS
  <2>2. s \in Setup!Setups /\ s.progress = x1.progress
    BY <1>1, <2>1 DEF Setup!Setups
  <2> QED BY <1>2, <1>4, <2>1, <2>2 DEF Setup!OpenModels, Setup!Becomes
<1>5. CASE Setup!TakeChecked
  <2>1. PICK ready \in BOOLEAN, answer \in Setup!Answer :
          Setup!Becomes([x1 EXCEPT !.checking = FALSE, !.ready = ready, !.way = answer.way,
                                !.loadFailed = answer.failed])
    BY <1>5 DEF Setup!TakeChecked
  <2>2. PICK s : s = [x1 EXCEPT !.checking = FALSE, !.ready = ready, !.way = answer.way,
                                   !.loadFailed = answer.failed]
    OBVIOUS
  <2>3. answer.way \in {"none", "download", "repair"} /\ answer.failed \in BOOLEAN
    BY DEF Setup!Answer
  <2>4. s \in Setup!Setups /\ s.progress = x1.progress
    BY <1>1, <2>2, <2>3 DEF Setup!Setups
  <2> QED BY <1>2, <2>1, <2>2, <2>4 DEF Setup!Becomes
<1>6. CASE Setup!Close \/ Setup!Hide
  <2>1. PICK s, hidden : /\ \/ s = [x1 EXCEPT !.open = FALSE, !.offered = TRUE]
                            \/ s = [x1 EXCEPT !.open = FALSE]
                         /\ x1' = Setup!Offered(s, hidden)
    BY <1>6 DEF Setup!Close, Setup!Hide, Setup!Becomes
  <2>2. s \in Setup!Setups /\ s.progress = x1.progress
    BY <1>1, <2>1 DEF Setup!Setups
  <2> QED BY <1>2, <2>1, <2>2
<1>7. CASE Setup!Start
  <2>1. PICK b \in Nat : b = x1.attempt + 1
    BY <1>1, SetupAssumption DEF Setup!Setups, Setup!Attempt
  <2>2. PICK s : s = [x1 EXCEPT !.attempt = b, !.busy = TRUE, !.cancelling = FALSE,
                                   !.progress = 0]
    OBVIOUS
  <2>3. x1' = s \/ x1' = [s EXCEPT !.open = TRUE, !.offered = TRUE]
    BY <1>7, <2>1, <2>2 DEF Setup!Start, Setup!Becomes, Setup!Offered
  <2>4. s.attempt = b
    BY <1>1, <2>2 DEF Setup!Setups
  <2>5. s = [open |-> s.open, offered |-> s.offered, checking |-> s.checking,
             ready |-> s.ready, way |-> s.way, loadFailed |-> s.loadFailed,
             attempt |-> s.attempt, busy |-> s.busy, cancelling |-> s.cancelling,
             progress |-> s.progress]
    BY <1>1, <2>2 DEF Setup!Setups
  <2>6. x1'.attempt = b
    BY <2>3, <2>4, <2>5
  <2>7. x1.attempt \in Nat
    BY <1>1, SetupAssumption DEF Setup!Setups, Setup!Attempt
  <2> QED BY <2>1, <2>6, <2>7
<1>8. CASE Setup!Cancel
  <2>1. PICK s : s = [x1 EXCEPT !.cancelling = TRUE]
    OBVIOUS
  <2>2. s \in Setup!Setups /\ s.progress = x1.progress
    BY <1>1, <2>1 DEF Setup!Setups
  <2> QED BY <1>2, <1>8, <2>1, <2>2 DEF Setup!Cancel, Setup!Becomes
<1>9. CASE Setup!CheckAgain
  <2>1. PICK s : s = [x1 EXCEPT !.checking = TRUE]
    OBVIOUS
  <2>2. s \in Setup!Setups /\ s.progress = x1.progress
    BY <1>1, <2>1 DEF Setup!Setups
  <2> QED BY <1>2, <1>9, <2>1, <2>2 DEF Setup!CheckAgain, Setup!Becomes
<1>10. CASE \E a \in Setup!Attempt : Setup!Report(a) \/ Setup!Return(a) \/ Setup!Watch(a)
  <2>1. x1' = x1
    BY <1>10 DEF Setup!Report, Setup!Return, Setup!Watch
  <2> QED BY <1>1, <2>1
<1>11. ASSUME NEW a \in Setup!Attempt, Setup!TakeProgress(a) PROVE x1'.progress >= x1.progress
  <2>1. CASE ~Setup!Current(a)
    BY <1>1, <1>2, <1>11, <2>1 DEF Setup!TakeProgress, Setup!Becomes
  <2>2. CASE Setup!Current(a)
    <3>1. PICK s : s = [x1 EXCEPT !.progress = x6[a].carried]
      OBVIOUS
    <3>2. x1' = Setup!Offered(s, x2)
      BY <1>11, <2>2, <3>1 DEF Setup!TakeProgress, Setup!Becomes
    <3>3. x6[a] \in Setup!Downloads /\ Setup!InOrder(x6[a], x1.progress)
          /\ x6[a].watch = "message"
      BY <1>11, <2>2, SetupDownloadFacts DEF Setup!Current, Setup!TakeProgress
    <3>4. x6[a].carried \in Nat /\ x1.progress <= x6[a].carried
      BY <3>3 DEF Setup!Downloads, Setup!InOrder
    <3>5. s \in Setup!Setups /\ s.progress = x6[a].carried
      BY <1>1, <3>1, <3>4 DEF Setup!Setups
    <3> QED BY <1>1, <3>2, <3>4, <3>5, SetupOfferedFacts
  <2> QED BY <2>1, <2>2
<1>12. ASSUME NEW a \in Setup!Attempt, Setup!TakeFinished(a) PROVE x1'.progress >= x1.progress
  <2>1. PICK e \in BOOLEAN : e = Setup!Enabled(a)
    BY DEF Setup!Enabled
  <2>2. x6[a] \in Setup!Downloads /\ a = x1.attempt
    BY <1>12, SetupDownloadFacts DEF Setup!TakeFinished
  <2>3. PICK s : s = [x1 EXCEPT !.busy = FALSE, !.cancelling = FALSE, !.progress = 0,
                                   !.ready = e, !.way = x6[a].answer.way,
                                   !.loadFailed = ~e]
    OBVIOUS
  <2>4. x1' = Setup!Offered(s, x2)
    BY <1>12, <2>1, <2>2, <2>3 DEF Setup!TakeFinished, Setup!Becomes, Setup!Fails
  <2>5. x6[a].answer.way \in {"none", "download", "repair"} /\ (~e) \in BOOLEAN
    BY <2>2 DEF Setup!Downloads, Setup!Answer
  <2>6. s \in Setup!Setups /\ s.busy = FALSE
    BY <1>1, <2>3, <2>5 DEF Setup!Setups
  <2> QED BY <2>4, <2>6, SetupOfferedFacts
<1>13. CASE UNCHANGED Setup!vars
  BY <1>1, <1>13 DEF Setup!vars
<1> QED BY <1>3, <1>4, <1>5, <1>6, <1>7, <1>8, <1>9, <1>10, <1>11, <1>12, <1>13 DEF Setup!Next

-----------------------------------------------------------------------------
(* The Goals screen: x1 the versions stored, x2 the root's screen, x3 the  *)
(* screen, x4 the request awaited, x5 its state, x6 the Goal selected, x7  *)
(* the Goal asked for, x8 the picker, x9 the messages.                     *)

LEMMA GoalsNoGoalType == Goals!NoGoal \in Goals!Read /\ Goals!NoGoal.goal = 0 /\ Goals!NoGoal.version = 0
  BY DEF Goals!NoGoal, Goals!Read

LEMMA GoalsGoalType == \A g \in Goals!Goal : g \in Nat /\ g # 0
  BY GoalsAssumption DEF Goals!Goal

LEMMA GoalsMessageFacts ==
  ASSUME Goals!IInv,
         NEW kind \in {"list", "detail", "picker", "new", "edit", "members"},
         NEW goal \in Nat, NEW version \in Nat, NEW ids \in Goals!Read,
         NEW g, g = Goals!Message(kind, goal, version, ids)
  PROVE  /\ g \in Goals!Messages /\ g.kind = kind /\ g.num = x4.last + 1 /\ g.goal = goal
         /\ g.version = version /\ g.ids = ids /\ g.step = 0
<1>1. PICK n \in Nat : n = x4.last + 1
  BY DEF Goals!IInv, Goals!TypeOK
<1>2. g = [kind |-> kind, num |-> n, goal |-> goal, version |-> version, ids |-> ids,
           step |-> 0]
  BY <1>1 DEF Goals!Message
<1> QED BY <1>1, <1>2 DEF Goals!Messages

\* A request replaces the one that was awaited.
LEMMA GoalsAskedIsAwaited ==
  ASSUME Goals!IInv, NEW g \in Goals!Messages, g.num = x4.last + 1, g.step = 0,
         g.kind # "creation",
         NEW gone, x9' = (x9 \ gone) \cup {g}, x1' = x1,
         x4' = [now |-> x4.last + 1, last |-> x4.last + 1],
         x5'.loading = TRUE, x5'.saving <=> g.kind \in Goals!Saves,
         ~x5'.saving => Goals!Expected(g)',
         g.kind \in {"detail", "edit", "members"} => g.goal \in Goals!Goal,
         g.kind = "picker" /\ g.goal # 0 => g.goal \in Goals!Goal,
         g.kind = "members" => Goals!ReadAfter(g.goal, g.version, g.ids)
  PROVE  /\ x9' \in SUBSET Goals!Messages /\ x4' \in [now : Nat, last : Nat]
         /\ Goals!OneAwaited' /\ Goals!Reads' /\ Goals!AwaitedIsComing'
<1>1. PICK n \in Nat : n = x4.last + 1
  BY DEF Goals!IInv, Goals!TypeOK
<1>2. x4' = [now |-> n, last |-> n] /\ g.num = n
  BY <1>1
<1>3. x9 \in SUBSET Goals!Messages /\ x4.last \in Nat /\ x4.now \in Nat
  BY DEF Goals!IInv, Goals!TypeOK
<1>4. \A m \in x9 : m.num \in Nat
  BY <1>3 DEF Goals!Messages
<1>5. Goals!OneAwaited'
  <2>1. \A m \in x9 : m.kind # "creation" => 0 < m.num /\ m.num <= n /\ m.num # n
    BY <1>1, <1>3, <1>4 DEF Goals!IInv, Goals!OneAwaited
  <2>2. 0 < n
    BY <1>1, <1>3
  <2>3. \A m \in x9' : m.kind # "creation" =>
          /\ 0 < m.num /\ m.num <= x4'.last
          /\ m.num = x4'.now =>
               /\ x5'.loading
               /\ x5'.saving <=> m.kind \in Goals!Saves
               /\ ~x5'.saving => Goals!Expected(m)'
    BY <1>2, <2>1, <2>2
  <2>4. \A m, o \in x9' :
          m.kind # "creation" /\ o.kind # "creation" /\ m.num = o.num => m = o
    BY <1>2, <2>1 DEF Goals!IInv, Goals!OneAwaited
  <2> QED BY <1>2, <2>3, <2>4 DEF Goals!OneAwaited
<1>6. Goals!Reads'
  <2>1. Goals!ReadOK(g)'
    BY DEF Goals!ReadOK, Goals!ReadAfter
  <2>2. \A m \in x9 : Goals!ReadOK(m)'
    BY DEF Goals!IInv, Goals!Reads, Goals!ReadOK, Goals!ReadAfter
  <2> QED BY <2>1, <2>2 DEF Goals!Reads
<1>7. Goals!AwaitedIsComing'
  BY <1>2 DEF Goals!AwaitedIsComing
<1> QED BY <1>2, <1>3, <1>5, <1>6, <1>7

LEMMA GoalsStateFacts ==
  ASSUME Goals!IInv
  PROVE  /\ x5.open \in BOOLEAN /\ x5.loading \in BOOLEAN /\ x5.saving \in BOOLEAN
         /\ x5.failed \in BOOLEAN /\ x4.last \in Nat /\ x4.now \in Nat
         /\ x6 \in Goals!Read /\ x6.goal \in Nat /\ x6.version \in Nat
         /\ x7 \in Nat /\ x8.ids \in Goals!Read /\ x8.before \in Goals!Read
         /\ x8.visit \in Nat /\ x8.creation \in Nat
         /\ x3.view \in {"list", "detail", "create", "edit", "picker"}
         /\ x3.back \in {"detail", "create"} /\ x9 \in SUBSET Goals!Messages
         /\ x3 = [view |-> x3.view, back |-> x3.back]
         /\ x2 = [at |-> x2.at, visit |-> x2.visit]
  BY DEF Goals!IInv, Goals!TypeOK, Goals!Read

\* beginRequest sets the state of the screen.
LEMMA GoalsBeginFacts ==
  ASSUME Goals!IInv, NEW m, NEW saving \in BOOLEAN, Goals!Begin(m, saving)
  PROVE  /\ x4' = [now |-> x4.last + 1, last |-> x4.last + 1]
         /\ x5' \in [open : BOOLEAN, loading : BOOLEAN, saving : BOOLEAN, failed : BOOLEAN]
         /\ x5'.open = x5.open /\ x5'.loading = TRUE /\ x5'.saving = saving
         /\ x9' = (x9 \ {}) \cup {m}
  BY DEF Goals!Begin, Goals!IInv, Goals!TypeOK

LEMMA GoalsOtherSessionPreserves ==
  ASSUME Goals!IInv, Goals!OtherSession
  PROVE  Goals!IInv'
<1>1. /\ UNCHANGED <<x2, x3, x4, x5, x6, x7, x8, x9>>
      /\ x1 \in [Goals!Goal -> Nat]
  BY DEF Goals!OtherSession, Goals!IInv, Goals!TypeOK
<1>2. x1' \in [Goals!Goal -> Nat] /\ \A g \in Goals!Goal : x1[g] <= x1'[g]
  BY <1>1 DEF Goals!OtherSession
<1>3. Goals!TypeOK'
  BY <1>1, <1>2 DEF Goals!IInv, Goals!TypeOK
<1>4. Goals!GoalsInView' /\ Goals!OneAwaited'
  BY <1>1 DEF Goals!IInv, Goals!GoalsInView, Goals!OfGoal, Goals!OneAwaited, Goals!Expected
<1>5. \A goal, version, ids : ids.version \in Nat /\ Goals!ReadAfter(goal, version, ids)
        => Goals!ReadAfter(goal, version, ids)'
  BY <1>1, <1>2 DEF Goals!ReadAfter
<1>6. Goals!Reads'
  <2>1. ASSUME NEW m \in x9 PROVE Goals!ReadOK(m)'
    <3>1. m.version \in Nat /\ m.ids.version \in Nat /\ Goals!ReadOK(m)
      BY DEF Goals!IInv, Goals!TypeOK, Goals!Messages, Goals!Read, Goals!Reads
    <3>2. Goals!ReadAfter(m.goal, m.version, m.ids) => Goals!ReadAfter(m.goal, m.version, m.ids)'
      BY <1>5, <3>1
    <3>3. m.goal \in Goals!Goal /\ m.version <= x1[m.goal] => m.version <= x1'[m.goal]
      BY <1>1, <1>2, <3>1
    <3> QED BY <3>1, <3>2, <3>3 DEF Goals!ReadOK
  <2> QED BY <1>1, <2>1 DEF Goals!Reads
<1>7. Goals!PickerOK'
  <2>1. x8.ids.version \in Nat
    BY DEF Goals!IInv, Goals!TypeOK, Goals!Read
  <2> QED BY <1>1, <1>5, <2>1 DEF Goals!IInv, Goals!PickerOK
<1>8. Goals!AwaitedIsComing'
  BY <1>1 DEF Goals!IInv, Goals!AwaitedIsComing
<1> QED BY <1>3, <1>4, <1>6, <1>7, <1>8 DEF Goals!IInv

LEMMA GoalsOpenPreserves ==
  ASSUME Goals!IInv, Goals!Open
  PROVE  Goals!IInv'
<1>1. PICK g : g = Goals!Message("list", 0, 0, Goals!NoGoal)
  OBVIOUS
<1>2. g \in Goals!Messages /\ g.kind = "list" /\ g.num = x4.last + 1 /\ g.step = 0
  <2>1. PICK n \in Nat : n = x4.last + 1
    BY DEF Goals!IInv, Goals!TypeOK
  <2>2. g = [kind |-> "list", num |-> n, goal |-> 0, version |-> 0, ids |-> Goals!NoGoal, step |-> 0]
    BY <1>1, <2>1 DEF Goals!Message
  <2> QED BY <2>1, <2>2, GoalsNoGoalType DEF Goals!Messages
<1>3. /\ x2.at = "home" /\ x3.view = "list" /\ x5.open = FALSE /\ x5.saving = FALSE
      /\ UNCHANGED <<x1, x6, x7, x8>>
      /\ x4' = [now |-> x4.last + 1, last |-> x4.last + 1]
      /\ x9' = (x9 \ {}) \cup {g}
  BY <1>1, GoalsStateFacts DEF Goals!Open, Goals!IInv, Goals!GoalsInView
<1>4. x2' = [at |-> "goals", visit |-> x2.visit]
  BY GoalsStateFacts DEF Goals!Open
<1>5. x3' = [view |-> "list", back |-> x3.back]
  BY GoalsStateFacts DEF Goals!Open
<1>6. /\ x5' \in [open : BOOLEAN, loading : BOOLEAN, saving : BOOLEAN, failed : BOOLEAN]
      /\ x5'.open = TRUE /\ x5'.loading = TRUE /\ x5'.saving = FALSE
  BY <1>3 DEF Goals!Open, Goals!IInv, Goals!TypeOK
<1>7. Goals!Expected(g)'
  BY <1>2, <1>5 DEF Goals!Expected
<1>8. /\ x9' \in SUBSET Goals!Messages /\ x4' \in [now : Nat, last : Nat]
      /\ Goals!OneAwaited' /\ Goals!Reads' /\ Goals!AwaitedIsComing'
  BY <1>2, <1>3, <1>6, <1>7, GoalsAskedIsAwaited DEF Goals!Saves
<1>9. Goals!TypeOK'
  BY <1>3, <1>4, <1>5, <1>6, <1>8, GoalsStateFacts DEF Goals!IInv, Goals!TypeOK
<1>10. Goals!GoalsInView' /\ Goals!PickerOK'
  BY <1>4, <1>5, <1>6 DEF Goals!GoalsInView, Goals!OfGoal, Goals!PickerOK
<1> QED BY <1>8, <1>9, <1>10 DEF Goals!IInv

-----------------------------------------------------------------------------
\* The list or the details are read again, and shown.
LEMMA GoalsLoadListPreserves ==
  ASSUME Goals!IInv, Goals!LoadList, x5.open, x3' = [view |-> "list", back |-> x3.back],
         UNCHANGED <<x1, x2>>,
         x8' \in [visit : Nat, ready : BOOLEAN, ids : Goals!Read, before : Goals!Read, creation : Nat]
  PROVE  Goals!IInv'
<1>1. PICK g : g = Goals!Message("list", 0, 0, Goals!NoGoal)
  OBVIOUS
<1>2. g \in Goals!Messages /\ g.kind = "list" /\ g.num = x4.last + 1 /\ g.step = 0
  <2>1. PICK n \in Nat : n = x4.last + 1
    BY DEF Goals!IInv, Goals!TypeOK
  <2>2. g = [kind |-> "list", num |-> n, goal |-> 0, version |-> 0, ids |-> Goals!NoGoal, step |-> 0]
    BY <1>1, <2>1 DEF Goals!Message
  <2> QED BY <2>1, <2>2, GoalsNoGoalType DEF Goals!Messages
<1>3. Goals!Begin(g, FALSE) /\ UNCHANGED <<x6, x7>>
  BY <1>1 DEF Goals!LoadList
<1>4. /\ x4' = [now |-> x4.last + 1, last |-> x4.last + 1]
      /\ x5' \in [open : BOOLEAN, loading : BOOLEAN, saving : BOOLEAN, failed : BOOLEAN]
      /\ x5'.open = x5.open /\ x5'.loading = TRUE /\ x5'.saving = FALSE
      /\ x9' = (x9 \ {}) \cup {g}
  BY <1>3, GoalsBeginFacts
<1>5. Goals!Expected(g)'
  BY <1>2 DEF Goals!Expected
<1>6. /\ x9' \in SUBSET Goals!Messages /\ x4' \in [now : Nat, last : Nat]
      /\ Goals!OneAwaited' /\ Goals!Reads' /\ Goals!AwaitedIsComing'
  BY <1>2, <1>4, <1>5, GoalsAskedIsAwaited DEF Goals!Saves
<1>7. Goals!TypeOK'
  BY <1>3, <1>4, <1>6, GoalsStateFacts DEF Goals!IInv, Goals!TypeOK
<1>8. Goals!GoalsInView' /\ Goals!PickerOK'
  BY <1>4 DEF Goals!GoalsInView, Goals!OfGoal, Goals!PickerOK, Goals!IInv
<1> QED BY <1>6, <1>7, <1>8 DEF Goals!IInv

LEMMA GoalsLoadDetailPreserves ==
  ASSUME Goals!IInv, NEW goal \in Goals!Goal, NEW view \in {"detail", "edit"},
         Goals!LoadDetail(goal, view),
         x5.open, x3' = [view |-> view, back |-> x3.back],
         view = "edit" => x6.goal = goal,
         UNCHANGED <<x1, x2>>,
         x8' \in [visit : Nat, ready : BOOLEAN, ids : Goals!Read, before : Goals!Read, creation : Nat]
  PROVE  Goals!IInv'
<1>1. PICK g : g = Goals!Message("detail", goal, 0, Goals!NoGoal)
  OBVIOUS
<1>2. g \in Goals!Messages /\ g.kind = "detail" /\ g.num = x4.last + 1 /\ g.step = 0
      /\ g.goal = goal
  <2>1. goal \in Nat
    BY GoalsGoalType
  <2>2. PICK n \in Nat : n = x4.last + 1
    BY DEF Goals!IInv, Goals!TypeOK
  <2>3. g = [kind |-> "detail", num |-> n, goal |-> goal, version |-> 0, ids |-> Goals!NoGoal,
             step |-> 0]
    BY <1>1, <2>2 DEF Goals!Message
  <2> QED BY <2>1, <2>2, <2>3, GoalsNoGoalType DEF Goals!Messages
<1>3. Goals!Begin(g, FALSE) /\ x7' = goal
      /\ x6' = IF view = "detail" THEN Goals!NoGoal ELSE x6
  BY <1>1 DEF Goals!LoadDetail
<1>4. /\ x4' = [now |-> x4.last + 1, last |-> x4.last + 1]
      /\ x5' \in [open : BOOLEAN, loading : BOOLEAN, saving : BOOLEAN, failed : BOOLEAN]
      /\ x5'.open = x5.open /\ x5'.loading = TRUE /\ x5'.saving = FALSE
      /\ x9' = (x9 \ {}) \cup {g}
  BY <1>3, GoalsBeginFacts
<1>5. Goals!Expected(g)'
  BY <1>2, <1>3 DEF Goals!Expected
<1>6. /\ x9' \in SUBSET Goals!Messages /\ x4' \in [now : Nat, last : Nat]
      /\ Goals!OneAwaited' /\ Goals!Reads' /\ Goals!AwaitedIsComing'
  BY <1>2, <1>4, <1>5, GoalsAskedIsAwaited DEF Goals!Saves
<1>7. Goals!TypeOK'
  BY <1>3, <1>4, <1>6, GoalsStateFacts, GoalsGoalType, GoalsNoGoalType
     DEF Goals!IInv, Goals!TypeOK
<1>8. Goals!GoalsInView'
  <2>1. x2'.at = "home" <=> ~x5'.open
    BY <1>4 DEF Goals!IInv, Goals!GoalsInView
  <2>2. x6'.goal = goal \/ (view = "detail" /\ x6' = Goals!NoGoal)
    BY <1>3
  <2> QED BY <1>3, <1>4, <2>1, <2>2 DEF Goals!GoalsInView, Goals!OfGoal
<1>9. Goals!PickerOK'
  BY DEF Goals!PickerOK
<1> QED BY <1>6, <1>7, <1>8, <1>9 DEF Goals!IInv

LEMMA GoalsLoadPickerPreserves ==
  ASSUME Goals!IInv, NEW back \in {"detail", "create"}, NEW goal \in Nat,
         Goals!Begin(Goals!Message("picker", goal, 0, Goals!NoGoal), FALSE),
         back = "detail" => goal \in Goals!Goal /\ goal = x7 /\ x6.goal = goal,
         back = "create" => goal = 0 /\ x6 = Goals!NoGoal,
         x5.open, x3' = [view |-> "picker", back |-> back],
         UNCHANGED <<x1, x2, x6, x7>>, x8'.ready = FALSE,
         x8' \in [visit : Nat, ready : BOOLEAN, ids : Goals!Read, before : Goals!Read, creation : Nat]
  PROVE  Goals!IInv'
<1>1. PICK g : g = Goals!Message("picker", goal, 0, Goals!NoGoal)
  OBVIOUS
<1>2. g \in Goals!Messages /\ g.kind = "picker" /\ g.num = x4.last + 1 /\ g.step = 0
      /\ g.goal = goal
  <2>1. PICK n \in Nat : n = x4.last + 1
    BY DEF Goals!IInv, Goals!TypeOK
  <2>2. g = [kind |-> "picker", num |-> n, goal |-> goal, version |-> 0, ids |-> Goals!NoGoal,
             step |-> 0]
    BY <1>1, <2>1 DEF Goals!Message
  <2> QED BY <2>1, <2>2, GoalsNoGoalType DEF Goals!Messages
<1>3. /\ x4' = [now |-> x4.last + 1, last |-> x4.last + 1]
      /\ x5' \in [open : BOOLEAN, loading : BOOLEAN, saving : BOOLEAN, failed : BOOLEAN]
      /\ x5'.open = x5.open /\ x5'.loading = TRUE /\ x5'.saving = FALSE
      /\ x9' = (x9 \ {}) \cup {g}
  BY <1>1, GoalsBeginFacts
<1>4. Goals!Expected(g)'
  BY <1>2 DEF Goals!Expected
<1>5. /\ x9' \in SUBSET Goals!Messages /\ x4' \in [now : Nat, last : Nat]
      /\ Goals!OneAwaited' /\ Goals!Reads' /\ Goals!AwaitedIsComing'
  BY <1>2, <1>3, <1>4, GoalsAskedIsAwaited DEF Goals!Saves
<1>6. Goals!TypeOK'
  BY <1>3, <1>5, GoalsStateFacts DEF Goals!IInv, Goals!TypeOK
<1>7. Goals!GoalsInView'
  BY <1>3 DEF Goals!IInv, Goals!GoalsInView, Goals!OfGoal
<1>8. Goals!PickerOK'
  BY DEF Goals!PickerOK
<1> QED BY <1>5, <1>6, <1>7, <1>8 DEF Goals!IInv

LEMMA GoalsOpenGoalPreserves ==
  ASSUME Goals!IInv, Goals!OpenGoal
  PROVE  Goals!IInv'
<1>1. PICK goal \in Goals!Goal : Goals!LoadDetail(goal, "detail")
  BY DEF Goals!OpenGoal
<1>2. /\ x5.open /\ x3' = [view |-> "detail", back |-> x3.back]
      /\ UNCHANGED <<x1, x2, x8>>
  BY GoalsStateFacts DEF Goals!OpenGoal, Goals!Idle, Goals!Quiet
<1> QED BY <1>1, <1>2, GoalsLoadDetailPreserves DEF Goals!IInv, Goals!TypeOK

LEMMA GoalsRetryPreserves ==
  ASSUME Goals!IInv, Goals!Retry
  PROVE  Goals!IInv'
<1>1. /\ x5.open /\ x3' = [view |-> x3.view, back |-> x3.back]
      /\ UNCHANGED <<x1, x2, x3>>
  BY GoalsStateFacts DEF Goals!Retry, Goals!Idle, Goals!Quiet
<1>2. CASE x3.view = "list"
  BY <1>1, <1>2, GoalsLoadListPreserves DEF Goals!Retry, Goals!IInv, Goals!TypeOK
<1>3. CASE x3.view = "detail"
  <2>1. PICK goal \in Goals!Goal : goal = x7
    BY <1>3 DEF Goals!IInv, Goals!GoalsInView, Goals!OfGoal
  <2>2. Goals!LoadDetail(goal, "detail") /\ UNCHANGED x8
    BY <1>3, <2>1 DEF Goals!Retry
  <2> QED BY <1>1, <1>3, <2>2, GoalsLoadDetailPreserves DEF Goals!IInv, Goals!TypeOK
<1>4. CASE x3.view = "edit"
  <2>1. PICK goal \in Goals!Goal : goal = x6.goal
    BY <1>4 DEF Goals!IInv, Goals!GoalsInView, Goals!OfGoal
  <2>2. Goals!LoadDetail(goal, "edit") /\ UNCHANGED x8
    BY <1>4, <2>1 DEF Goals!Retry
  <2> QED BY <1>1, <1>4, <2>1, <2>2, GoalsLoadDetailPreserves DEF Goals!IInv, Goals!TypeOK
<1>5. CASE x3.view = "picker"
  <2>1. PICK back \in {"detail", "create"} : back = x3.back
    BY GoalsStateFacts
  <2>2. PICK goal \in Nat : goal = IF back = "detail" THEN x6.goal ELSE 0
    BY GoalsStateFacts
  <2>3. /\ Goals!Begin(Goals!Message("picker", goal, 0, Goals!NoGoal), FALSE) /\ UNCHANGED <<x6,
           x7>>
        /\ x8' = [x8 EXCEPT !.ready = FALSE]
    BY <1>5, <2>1, <2>2 DEF Goals!Retry, Goals!LoadPicker
  <2>4. /\ x8'.ready = FALSE
        /\ x8' \in [visit : Nat, ready : BOOLEAN, ids : Goals!Read, before : Goals!Read, creation : Nat]
    BY <2>3 DEF Goals!IInv, Goals!TypeOK
  <2>5. /\ back = "detail" => goal \in Goals!Goal /\ goal = x7 /\ x6.goal = goal
        /\ back = "create" => goal = 0 /\ x6 = Goals!NoGoal
    BY <1>5, <2>1, <2>2 DEF Goals!IInv, Goals!GoalsInView, Goals!OfGoal
  <2> QED BY <1>1, <1>5, <2>1, <2>3, <2>4, <2>5, GoalsLoadPickerPreserves
<1>6. x3.view # "create"
  BY DEF Goals!Retry
<1> QED BY <1>2, <1>3, <1>4, <1>5, <1>6, GoalsStateFacts

LEMMA GoalsOpenPickerPreserves ==
  ASSUME Goals!IInv, Goals!OpenPicker
  PROVE  Goals!IInv'
<1>1. PICK back \in {"detail", "create"} : back = x3.view
  BY DEF Goals!OpenPicker
<1>2. PICK goal \in Nat : goal = IF back = "detail" THEN x6.goal ELSE 0
  BY GoalsStateFacts
<1>3. /\ Goals!Begin(Goals!Message("picker", goal, 0, Goals!NoGoal), FALSE)
      /\ UNCHANGED <<x1, x2, x6, x7>>
      /\ x5.open /\ x3' = [view |-> "picker", back |-> back]
      /\ x8' = [x8 EXCEPT !.visit = @ + 1, !.ready = FALSE, !.before = x8.ids]
      /\ back = "detail" => x6 # Goals!NoGoal
  BY <1>1, <1>2 DEF Goals!OpenPicker, Goals!Idle, Goals!Quiet
<1>4. PICK n \in Nat : n = x8.visit + 1
  BY GoalsStateFacts
<1>5. /\ x8'.ready = FALSE
      /\ x8' \in [visit : Nat, ready : BOOLEAN, ids : Goals!Read, before : Goals!Read, creation : Nat]
  <2>1. x8' = [x8 EXCEPT !.visit = n, !.ready = FALSE, !.before = x8.ids]
    BY <1>3, <1>4
  <2> QED BY <2>1 DEF Goals!IInv, Goals!TypeOK
<1>6. /\ back = "detail" => goal \in Goals!Goal /\ goal = x7 /\ x6.goal = goal
      /\ back = "create" => goal = 0 /\ x6 = Goals!NoGoal
  BY <1>1, <1>2, <1>3 DEF Goals!IInv, Goals!GoalsInView, Goals!OfGoal
<1> QED BY <1>1, <1>3, <1>5, <1>6, GoalsLoadPickerPreserves

LEMMA GoalsEscPreserves ==
  ASSUME Goals!IInv, Goals!Esc
  PROVE  Goals!IInv'
<1>1. /\ x5.open /\ x5.saving = FALSE /\ UNCHANGED <<x1, x2>> /\ x3.view # "list"
  BY GoalsStateFacts DEF Goals!Esc, Goals!Quiet
<1>2. CASE x3.view \in {"detail", "create"}
  <2>1. x3' = [view |-> "list", back |-> x3.back] /\ Goals!LoadList /\ UNCHANGED x8
    BY <1>2, GoalsStateFacts DEF Goals!Esc
  <2> QED BY <1>1, <2>1, GoalsLoadListPreserves DEF Goals!IInv, Goals!TypeOK
<1>3. CASE x3.view = "edit"
  <2>1. PICK goal \in Goals!Goal : goal = x6.goal
    BY <1>3 DEF Goals!IInv, Goals!GoalsInView, Goals!OfGoal
  <2>2. /\ x3' = [view |-> "detail", back |-> x3.back]
        /\ Goals!LoadDetail(goal, "detail") /\ UNCHANGED x8
    BY <1>3, <2>1, GoalsStateFacts DEF Goals!Esc
  <2> QED BY <1>1, <2>2, GoalsLoadDetailPreserves DEF Goals!IInv, Goals!TypeOK
<1>4. CASE x3.view = "picker"
  <2>1. x8' \in [visit : Nat, ready : BOOLEAN, ids : Goals!Read, before : Goals!Read, creation : Nat]
    <3>1. x8' = [x8 EXCEPT !.ids = x8.before]
      BY <1>4 DEF Goals!Esc
    <3> QED BY <3>1 DEF Goals!IInv, Goals!TypeOK
  <2>2. x3' = [view |-> x3.back, back |-> x3.back]
    BY <1>4, GoalsStateFacts DEF Goals!Esc
  <2>3. CASE x3.back = "detail"
    <3>1. PICK goal \in Goals!Goal : goal = x6.goal
      BY <1>4, <2>3 DEF Goals!IInv, Goals!GoalsInView, Goals!OfGoal
    <3>2. Goals!LoadDetail(goal, "detail") /\ x3' = [view |-> "detail", back |-> x3.back]
      BY <1>4, <2>2, <2>3, <3>1 DEF Goals!Esc
    <3> QED BY <1>1, <2>1, <3>2, GoalsLoadDetailPreserves
  <2>4. CASE x3.back = "create"
    <3>1. /\ x4' = [now |-> 0, last |-> x4.last]
          /\ x5' = [open |-> x5.open, loading |-> FALSE, saving |-> x5.saving,
                       failed |-> FALSE]
          /\ UNCHANGED <<x6, x7, x9>>
      BY <1>4, <2>4 DEF Goals!Esc, Goals!Cancelled, Goals!IInv, Goals!TypeOK
    <3>2. x6 = Goals!NoGoal /\ x3' = [view |-> "create", back |-> x3.back]
      BY <1>4, <2>2, <2>4 DEF Goals!IInv, Goals!GoalsInView, Goals!OfGoal
    <3>3. Goals!TypeOK'
      BY <1>1, <2>1, <3>1, <3>2, GoalsStateFacts DEF Goals!IInv, Goals!TypeOK
    <3>4. Goals!GoalsInView'
      BY <1>1, <3>1, <3>2 DEF Goals!IInv, Goals!GoalsInView, Goals!OfGoal
    <3>5. Goals!OneAwaited'
      <4>1. \A m \in x9 : m.num \in Nat
        BY GoalsStateFacts DEF Goals!Messages
      <4> QED BY <3>1, <4>1, GoalsStateFacts DEF Goals!IInv, Goals!OneAwaited
    <3>6. Goals!Reads' /\ Goals!PickerOK' /\ Goals!AwaitedIsComing'
      BY <1>1, <3>1, <3>2
         DEF Goals!IInv, Goals!Reads, Goals!ReadOK, Goals!ReadAfter, Goals!PickerOK,
             Goals!AwaitedIsComing
    <3> QED BY <3>3, <3>4, <3>5, <3>6 DEF Goals!IInv
  <2> QED BY <2>3, <2>4, GoalsStateFacts
<1> QED BY <1>1, <1>2, <1>3, <1>4, GoalsStateFacts

-----------------------------------------------------------------------------
\* A step that changes none of what is awaited, read or expected.
LEMMA GoalsStillPreserves ==
  ASSUME Goals!IInv, UNCHANGED <<x1, x4, x7, x9>>,
         x2' \in [at : {"home", "goals", "form"}, visit : Nat],
         x2'.at = "home" <=> x2.at = "home",
         x3' \in [view : {"list", "detail", "create", "edit", "picker"},
                      back : {"detail", "create"}],
         x5' \in [open : BOOLEAN, loading : BOOLEAN, saving : BOOLEAN, failed : BOOLEAN],
         x5'.open = x5.open, x5'.loading = x5.loading, x5'.saving = x5.saving,
         x6' \in Goals!Read,
         x8' \in [visit : Nat, ready : BOOLEAN, ids : Goals!Read, before : Goals!Read, creation : Nat],
         \/ x3' = x3 /\ x6' = x6
         \/ ~x5.loading /\ Goals!GoalsInView',
         Goals!PickerOK'
  PROVE  Goals!IInv'
<1>1. Goals!TypeOK'
  BY DEF Goals!IInv, Goals!TypeOK
<1>2. Goals!GoalsInView'
  BY DEF Goals!IInv, Goals!GoalsInView, Goals!OfGoal
<1>3. Goals!OneAwaited'
  BY DEF Goals!IInv, Goals!OneAwaited, Goals!Expected
<1>4. Goals!Reads' /\ Goals!AwaitedIsComing'
  BY DEF Goals!IInv, Goals!Reads, Goals!ReadOK, Goals!ReadAfter, Goals!AwaitedIsComing
<1> QED BY <1>1, <1>2, <1>3, <1>4 DEF Goals!IInv

LEMMA GoalsStartFormPreserves ==
  ASSUME Goals!IInv, Goals!StartForm
  PROVE  Goals!IInv'
<1>1. /\ UNCHANGED <<x1, x2, x4, x7, x9>> /\ x5.open /\ ~x5.loading
      /\ x5' = [x5 EXCEPT !.failed = FALSE]
  BY DEF Goals!StartForm, Goals!Idle, Goals!Quiet
<1>2. /\ x5' \in [open : BOOLEAN, loading : BOOLEAN, saving : BOOLEAN, failed : BOOLEAN]
      /\ x5'.open = x5.open /\ x5'.loading = x5.loading
      /\ x5'.saving = x5.saving
  BY <1>1 DEF Goals!IInv, Goals!TypeOK
<1>3. CASE /\ x3' = [x3 EXCEPT !.view = "create"]
           /\ x6' = Goals!NoGoal
           /\ x8' = [x8 EXCEPT !.ids = Goals!NoGoal]
  <2>1. x3' = [view |-> "create", back |-> x3.back]
    BY <1>3, GoalsStateFacts
  <2>2. x8' \in [visit : Nat, ready : BOOLEAN, ids : Goals!Read, before : Goals!Read, creation : Nat]
    BY <1>3, GoalsNoGoalType DEF Goals!IInv, Goals!TypeOK
  <2>3. Goals!GoalsInView' /\ Goals!PickerOK'
    BY <1>1, <1>2, <1>3, <2>1 DEF Goals!IInv, Goals!GoalsInView, Goals!OfGoal, Goals!PickerOK
  <2>4. x3' \in [view : {"list", "detail", "create", "edit", "picker"},
                     back : {"detail", "create"}] /\ x6' \in Goals!Read
    BY <1>3, <2>1, GoalsStateFacts, GoalsNoGoalType
  <2> QED BY <1>1, <1>2, <2>2, <2>3, <2>4, GoalsStillPreserves DEF Goals!IInv, Goals!TypeOK
<1>4. CASE /\ x3.view = "detail" /\ x6 # Goals!NoGoal
           /\ x3' = [x3 EXCEPT !.view = "edit"]
           /\ UNCHANGED <<x6, x8>>
  <2>1. x3' = [view |-> "edit", back |-> x3.back]
    BY <1>4, GoalsStateFacts
  <2>2. Goals!GoalsInView' /\ Goals!PickerOK'
    BY <1>1, <1>2, <1>4, <2>1 DEF Goals!IInv, Goals!GoalsInView, Goals!OfGoal, Goals!PickerOK
  <2>3. x3' \in [view : {"list", "detail", "create", "edit", "picker"},
                     back : {"detail", "create"}]
    BY <2>1, GoalsStateFacts
  <2> QED BY <1>1, <1>2, <1>4, <2>2, <2>3, GoalsStillPreserves DEF Goals!IInv, Goals!TypeOK
<1> QED BY <1>3, <1>4 DEF Goals!StartForm

LEMMA GoalsDonePickingPreserves ==
  ASSUME Goals!IInv, Goals!DonePicking
  PROVE  Goals!IInv'
<1>1. /\ UNCHANGED <<x1, x2, x4, x5, x6, x7, x8, x9>>
      /\ x5.open /\ ~x5.loading /\ x3.view = "picker" /\ x3.back = "create"
  BY DEF Goals!DonePicking, Goals!PickerKeys, Goals!Idle, Goals!Quiet
<1>2. x3' = [view |-> "create", back |-> "create"]
  BY <1>1, GoalsStateFacts DEF Goals!DonePicking
<1>3. Goals!GoalsInView' /\ Goals!PickerOK'
  BY <1>1, <1>2 DEF Goals!IInv, Goals!GoalsInView, Goals!OfGoal, Goals!PickerOK
<1>4. x3' \in [view : {"list", "detail", "create", "edit", "picker"},
                   back : {"detail", "create"}]
  BY <1>2
<1> QED BY <1>1, <1>3, <1>4, GoalsStillPreserves DEF Goals!IInv, Goals!TypeOK

LEMMA GoalsReturnFromCreationPreserves ==
  ASSUME Goals!IInv, Goals!ReturnFromCreation
  PROVE  Goals!IInv'
<1>1. /\ UNCHANGED <<x1, x3, x4, x5, x6, x7, x9>>
      /\ x2.at = "form" /\ x2' = [at |-> "goals", visit |-> 0]
  BY DEF Goals!ReturnFromCreation
<1>2. x8' = x8 \/ x8' = [x8 EXCEPT !.creation = 0]
  BY DEF Goals!ReturnFromCreation
<1>3. /\ x8' \in [visit : Nat, ready : BOOLEAN, ids : Goals!Read, before : Goals!Read, creation : Nat]
      /\ x8'.ready = x8.ready /\ x8'.ids = x8.ids
  BY <1>2 DEF Goals!IInv, Goals!TypeOK
<1>4. Goals!PickerOK'
  BY <1>1, <1>3 DEF Goals!IInv, Goals!PickerOK, Goals!ReadAfter
<1> QED BY <1>1, <1>3, <1>4, GoalsStillPreserves DEF Goals!IInv, Goals!TypeOK

LEMMA GoalsClosePreserves ==
  ASSUME Goals!IInv, Goals!Close
  PROVE  Goals!IInv'
<1>1. /\ UNCHANGED <<x1, x3, x6, x7, x9>> /\ x3.view = "list"
      /\ x5.saving = FALSE
  BY GoalsStateFacts DEF Goals!Close
<1>2. /\ x4' = [now |-> 0, last |-> x4.last]
      /\ x2' = [at |-> "home", visit |-> x2.visit]
      /\ x5' = [open |-> FALSE, loading |-> FALSE, saving |-> x5.saving,
                   failed |-> x5.failed]
      /\ x8' \in [visit : Nat, ready : BOOLEAN, ids : Goals!Read, before : Goals!Read, creation : Nat]
  BY DEF Goals!Close, Goals!IInv, Goals!TypeOK
<1>3. Goals!TypeOK'
  BY <1>1, <1>2, GoalsStateFacts DEF Goals!IInv, Goals!TypeOK
<1>4. Goals!GoalsInView' /\ Goals!PickerOK' /\ Goals!AwaitedIsComing'
  BY <1>1, <1>2 DEF Goals!GoalsInView, Goals!OfGoal, Goals!PickerOK, Goals!AwaitedIsComing
<1>5. Goals!OneAwaited'
  <2>1. \A m \in x9 : m.num \in Nat
    BY GoalsStateFacts DEF Goals!Messages
  <2> QED BY <1>1, <1>2, <2>1, GoalsStateFacts DEF Goals!IInv, Goals!OneAwaited
<1>6. Goals!Reads'
  BY <1>1 DEF Goals!IInv, Goals!Reads, Goals!ReadOK, Goals!ReadAfter
<1> QED BY <1>3, <1>4, <1>5, <1>6 DEF Goals!IInv

-----------------------------------------------------------------------------
\* Saves, with what the screen has seen.
LEMMA GoalsSavePreserves ==
  ASSUME Goals!IInv, NEW kind \in {"new", "edit", "members"},
         Goals!Begin(Goals!Message(kind, x6.goal, x6.version, x8.ids), TRUE),
         kind = "edit" => x6.goal \in Goals!Goal,
         kind = "members" => Goals!ReadAfter(x6.goal, x6.version, x8.ids),
         x5.open, UNCHANGED <<x1, x2, x3, x6, x7, x8>>
  PROVE  Goals!IInv'
<1>1. PICK goal \in Nat, version \in Nat, ids \in Goals!Read :
        goal = x6.goal /\ version = x6.version /\ ids = x8.ids
  BY GoalsStateFacts
<1>2. PICK g : g = Goals!Message(kind, goal, version, ids)
  OBVIOUS
<1>3. g \in Goals!Messages /\ g.kind = kind /\ g.num = x4.last + 1 /\ g.goal = goal
      /\ g.version = version /\ g.ids = ids /\ g.step = 0
  BY <1>2, GoalsMessageFacts
<1>4. /\ x4' = [now |-> x4.last + 1, last |-> x4.last + 1]
      /\ x5' \in [open : BOOLEAN, loading : BOOLEAN, saving : BOOLEAN, failed : BOOLEAN]
      /\ x5'.open = x5.open /\ x5'.loading = TRUE /\ x5'.saving = TRUE
      /\ x9' = (x9 \ {}) \cup {g}
  <2>1. Goals!Begin(g, TRUE)
    BY <1>1, <1>2
  <2> QED BY <2>1, GoalsBeginFacts
<1>5. kind = "members" => goal \in Goals!Goal
  BY <1>1 DEF Goals!ReadAfter
<1>6. /\ x9' \in SUBSET Goals!Messages /\ x4' \in [now : Nat, last : Nat]
      /\ Goals!OneAwaited' /\ Goals!Reads' /\ Goals!AwaitedIsComing'
  BY <1>1, <1>3, <1>4, <1>5, GoalsAskedIsAwaited DEF Goals!Saves
<1>7. Goals!TypeOK'
  BY <1>4, <1>6 DEF Goals!IInv, Goals!TypeOK
<1>8. Goals!GoalsInView' /\ Goals!PickerOK'
  BY <1>4 DEF Goals!IInv, Goals!GoalsInView, Goals!OfGoal, Goals!PickerOK, Goals!ReadAfter
<1> QED BY <1>6, <1>7, <1>8 DEF Goals!IInv

LEMMA GoalsSavePropertiesPreserves ==
  ASSUME Goals!IInv, Goals!SaveProperties
  PROVE  Goals!IInv'
<1>1. PICK kind \in {"new", "edit"} : kind = IF x3.view = "create" THEN "new" ELSE "edit"
  OBVIOUS
<1>2. /\ Goals!Begin(Goals!Message(kind, x6.goal, x6.version, x8.ids), TRUE)
      /\ x5.open /\ UNCHANGED <<x1, x2, x3, x6, x7, x8>>
  BY <1>1 DEF Goals!SaveProperties, Goals!Idle, Goals!Quiet
<1>3. kind = "edit" => x6.goal \in Goals!Goal
  BY <1>1 DEF Goals!SaveProperties, Goals!IInv, Goals!GoalsInView, Goals!OfGoal
<1> QED BY <1>2, <1>3, GoalsSavePreserves

LEMMA GoalsSaveSubjectsPreserves ==
  ASSUME Goals!IInv, Goals!SaveSubjects
  PROVE  Goals!IInv'
<1>1. /\ Goals!Begin(Goals!Message("members", x6.goal, x6.version, x8.ids), TRUE)
      /\ x5.open /\ UNCHANGED <<x1, x2, x3, x6, x7, x8>>
  BY DEF Goals!SaveSubjects, Goals!PickerKeys, Goals!Idle, Goals!Quiet
<1>2. Goals!ReadAfter(x6.goal, x6.version, x8.ids)
  BY DEF Goals!SaveSubjects, Goals!PickerKeys, Goals!IInv, Goals!PickerOK
<1> QED BY <1>1, <1>2, GoalsSavePreserves

\* The request for a Subject belongs to no owner.
LEMMA GoalsRequestCreationPreserves ==
  ASSUME Goals!IInv, Goals!RequestCreation
  PROVE  Goals!IInv'
<1>1. /\ UNCHANGED <<x1, x2, x3, x5, x6, x7>>
      /\ x5.open /\ x5.loading = FALSE /\ x5.saving = FALSE
  BY GoalsStateFacts
     DEF Goals!RequestCreation, Goals!PickerKeys, Goals!Idle, Goals!Quiet, Goals!IInv,
         Goals!GoalsInView
<1>2. PICK n \in Nat, v \in Nat : n = x4.last + 1 /\ v = x8.visit
  BY GoalsStateFacts
<1>3. PICK g : g = [Goals!Message("creation", 0, 0, Goals!NoGoal) EXCEPT !.num = v]
  OBVIOUS
<1>4. g \in Goals!Messages /\ g.kind = "creation"
  <2>1. PICK h : h = Goals!Message("creation", 0, 0, Goals!NoGoal)
    OBVIOUS
  <2>2. h = [kind |-> "creation", num |-> n, goal |-> 0, version |-> 0, ids |-> Goals!NoGoal,
             step |-> 0]
    BY <1>2, <2>1 DEF Goals!Message
  <2>3. h \in Goals!Messages /\ h.kind = "creation"
    BY <2>2, GoalsNoGoalType DEF Goals!Messages
  <2>4. g = [h EXCEPT !.num = v]
    BY <1>3, <2>1
  <2> QED BY <2>3, <2>4 DEF Goals!Messages
<1>5. x9' = x9 \cup {g}
  BY <1>2, <1>3 DEF Goals!RequestCreation
<1>6. x4' = [now |-> 0, last |-> x4.last]
  BY DEF Goals!RequestCreation, Goals!IInv, Goals!TypeOK
<1>7. /\ x8' \in [visit : Nat, ready : BOOLEAN, ids : Goals!Read, before : Goals!Read, creation : Nat]
      /\ x8'.ready = x8.ready /\ x8'.ids = x8.ids
  BY DEF Goals!RequestCreation, Goals!IInv, Goals!TypeOK
<1>8. Goals!TypeOK'
  BY <1>1, <1>4, <1>5, <1>6, <1>7, GoalsStateFacts DEF Goals!IInv, Goals!TypeOK
<1>9. Goals!GoalsInView' /\ Goals!AwaitedIsComing' /\ Goals!PickerOK'
  BY <1>1, <1>7
     DEF Goals!IInv, Goals!GoalsInView, Goals!OfGoal, Goals!AwaitedIsComing, Goals!PickerOK,
         Goals!ReadAfter
<1>10. Goals!OneAwaited'
  <2>1. \A m \in x9 : m.num \in Nat
    BY GoalsStateFacts DEF Goals!Messages
  <2> QED BY <1>4, <1>5, <1>6, <2>1, GoalsStateFacts DEF Goals!IInv, Goals!OneAwaited
<1>11. Goals!Reads'
  <2>1. Goals!ReadOK(g)'
    BY <1>4 DEF Goals!ReadOK
  <2>2. \A m \in x9 : Goals!ReadOK(m)'
    BY <1>1 DEF Goals!IInv, Goals!Reads, Goals!ReadOK, Goals!ReadAfter
  <2> QED BY <1>5, <2>1, <2>2 DEF Goals!Reads
<1> QED BY <1>8, <1>9, <1>10, <1>11 DEF Goals!IInv

-----------------------------------------------------------------------------
\* An answer is taken from the wire that is not awaited, or no longer.
LEMMA GoalsGonePreserves ==
  ASSUME Goals!IInv, NEW m \in x9, x9' = x9 \ {m}, UNCHANGED <<x1, x4>>, Goals!TypeOK',
         Goals!GoalsInView', Goals!PickerOK',
         \/ UNCHANGED <<x3, x5, x7>> /\ (m.kind = "creation" \/ ~Goals!Owned(m))
         \/ Goals!Owned(m) /\ ~x5'.loading
  PROVE  Goals!IInv'
<1>1. \A n \in x9' : Goals!ReadOK(n)'
  BY DEF Goals!IInv, Goals!Reads, Goals!ReadOK, Goals!ReadAfter
<1>2. Goals!OneAwaited' /\ Goals!AwaitedIsComing'
  <2>1. CASE UNCHANGED <<x3, x5, x7>> /\ (m.kind = "creation" \/ ~Goals!Owned(m))
    BY <2>1 DEF Goals!IInv, Goals!OneAwaited, Goals!Expected, Goals!AwaitedIsComing, Goals!Owned
  <2>2. CASE Goals!Owned(m) /\ ~x5'.loading
    <3>1. \A n \in x9' : n.kind # "creation" => n.num # x4.now
      BY <2>2 DEF Goals!IInv, Goals!OneAwaited, Goals!Owned
    <3> QED BY <2>2, <3>1 DEF Goals!IInv, Goals!OneAwaited, Goals!AwaitedIsComing
  <2> QED BY <2>1, <2>2
<1> QED BY <1>1, <1>2 DEF Goals!IInv, Goals!Reads

LEMMA GoalsRootTakesRequestPreserves ==
  ASSUME Goals!IInv, NEW m \in x9, Goals!RootTakesRequest(m)
  PROVE  Goals!IInv'
<1>1. /\ UNCHANGED <<x1, x3, x4, x5, x6, x7, x8>>
      /\ x9' = x9 \ {m} /\ m.kind = "creation" /\ m.num \in Nat
  BY GoalsStateFacts DEF Goals!RootTakesRequest, Goals!Messages
<1>2. \/ x2' = x2
      \/ x2.at = "goals" /\ x2' = [at |-> "form", visit |-> m.num]
  BY DEF Goals!RootTakesRequest
<1>3. Goals!TypeOK' /\ Goals!GoalsInView' /\ Goals!PickerOK'
  BY <1>1, <1>2
     DEF Goals!IInv, Goals!TypeOK, Goals!GoalsInView, Goals!OfGoal, Goals!PickerOK,
         Goals!ReadAfter
<1> QED BY <1>1, <1>3, GoalsGonePreserves

LEMMA GoalsDiscardPreserves ==
  ASSUME Goals!IInv, NEW m \in x9, Goals!Discard(m)
  PROVE  Goals!IInv'
<1>1. /\ UNCHANGED <<x1, x2, x3, x4, x5, x6, x7, x8>>
      /\ x9' = x9 \ {m} /\ ~Goals!Owned(m)
  BY DEF Goals!Discard
<1>2. Goals!TypeOK' /\ Goals!GoalsInView' /\ Goals!PickerOK'
  BY <1>1
     DEF Goals!IInv, Goals!TypeOK, Goals!GoalsInView, Goals!OfGoal, Goals!PickerOK,
         Goals!ReadAfter
<1> QED BY <1>1, <1>2, GoalsGonePreserves

LEMMA GoalsFailPreserves ==
  ASSUME Goals!IInv, NEW m \in x9, Goals!Fail(m)
  PROVE  Goals!IInv'
<1>1. /\ UNCHANGED <<x1, x2, x3, x4, x6, x7, x8>>
      /\ x9' = x9 \ {m} /\ Goals!Owned(m)
  BY DEF Goals!Fail
<1>2. x5' = [open |-> x5.open, loading |-> FALSE, saving |-> FALSE, failed |-> TRUE]
  BY DEF Goals!Fail, Goals!IInv, Goals!TypeOK
<1>3. Goals!TypeOK' /\ Goals!GoalsInView' /\ Goals!PickerOK'
  BY <1>1, <1>2
     DEF Goals!IInv, Goals!TypeOK, Goals!GoalsInView, Goals!OfGoal, Goals!PickerOK,
         Goals!ReadAfter
<1> QED BY <1>1, <1>2, <1>3, GoalsGonePreserves

\* The answer of a save is replaced by the request that reads its Goal.
LEMMA GoalsTakeSavePreserves ==
  ASSUME Goals!IInv, NEW m \in x9, Goals!TakeSave(m)
  PROVE  Goals!IInv'
<1>1. /\ Goals!Owned(m) /\ m.step = 2 /\ x5.saving /\ x5.loading /\ x5.open
      /\ x7' = m.goal /\ x6' = Goals!NoGoal /\ UNCHANGED <<x1, x2, x8>>
      /\ x4' = [now |-> x4.last + 1, last |-> x4.last + 1]
      /\ m.kind \in Goals!Saves
  BY DEF Goals!TakeSave, Goals!Quiet, Goals!IInv, Goals!GoalsInView, Goals!OneAwaited, Goals!Owned
<1>2. PICK goal \in Goals!Goal : goal = m.goal
  BY <1>1 DEF Goals!IInv, Goals!Reads, Goals!ReadOK, Goals!Saves
<1>3. PICK g : g = Goals!Message("detail", goal, 0, Goals!NoGoal)
  OBVIOUS
<1>4. g \in Goals!Messages /\ g.kind = "detail" /\ g.num = x4.last + 1 /\ g.step = 0
      /\ g.goal = goal
  <2>1. goal \in Nat
    BY GoalsGoalType
  <2> QED BY <1>3, <2>1, GoalsMessageFacts, GoalsNoGoalType
<1>5. x9' = (x9 \ {m}) \cup {g}
  BY <1>2, <1>3 DEF Goals!TakeSave
<1>6. /\ x5' = [open |-> TRUE, loading |-> TRUE, saving |-> FALSE, failed |-> FALSE]
  BY <1>1 DEF Goals!TakeSave, Goals!IInv, Goals!TypeOK
<1>7. x3' = [view |-> "detail", back |-> x3.back]
  BY GoalsStateFacts DEF Goals!TakeSave
<1>8. Goals!Expected(g)'
  BY <1>1, <1>2, <1>4, <1>7 DEF Goals!Expected
<1>9. /\ x9' \in SUBSET Goals!Messages /\ x4' \in [now : Nat, last : Nat]
      /\ Goals!OneAwaited' /\ Goals!Reads' /\ Goals!AwaitedIsComing'
  BY <1>1, <1>4, <1>5, <1>6, <1>8, GoalsAskedIsAwaited DEF Goals!Saves
<1>10. Goals!TypeOK'
  BY <1>1, <1>2, <1>6, <1>7, <1>9, GoalsStateFacts, GoalsGoalType, GoalsNoGoalType
     DEF Goals!IInv, Goals!TypeOK
<1>11. Goals!GoalsInView' /\ Goals!PickerOK'
  BY <1>1, <1>2, <1>6, <1>7 DEF Goals!IInv, Goals!GoalsInView, Goals!OfGoal, Goals!PickerOK
<1> QED BY <1>9, <1>10, <1>11 DEF Goals!IInv

\* Any other answer is the one that the screen shown asked for.
LEMMA GoalsTakeReadPreserves ==
  ASSUME Goals!IInv, NEW m \in x9, Goals!TakeRead(m)
  PROVE  Goals!IInv'
<1>1. /\ Goals!Owned(m) /\ m.step = 2 /\ ~x5.saving /\ x5.open /\ Goals!Expected(m)
      /\ UNCHANGED <<x1, x2, x3, x4, x7>> /\ x9' = x9 \ {m}
      /\ m \in Goals!Messages
  BY GoalsStateFacts DEF Goals!TakeRead, Goals!Quiet, Goals!IInv, Goals!OneAwaited, Goals!Owned
<1>2. PICK found : found = [goal |-> m.goal, version |-> m.version]
  OBVIOUS
<1>3. found \in Goals!Read /\ found.goal = m.goal /\ found.version = m.version
      /\ m.ids \in Goals!Read
  BY <1>1, <1>2 DEF Goals!Read, Goals!Messages
<1>4. x5' = [open |-> TRUE, loading |-> FALSE, saving |-> FALSE, failed |-> FALSE]
  <2>1. x5.open = TRUE /\ x5.saving = FALSE
    BY <1>1, GoalsStateFacts
  <2> QED BY <2>1 DEF Goals!TakeRead, Goals!IInv, Goals!TypeOK
<1>5. x6' = CASE x3.view = "list" -> Goals!NoGoal
                    [] x3.view = "picker" ->
                         IF x3.back = "detail" THEN found ELSE x6
                    [] OTHER -> found
  BY <1>2 DEF Goals!TakeRead
<1>6. x8' = IF x3.view # "picker" THEN x8
                ELSE [x8 EXCEPT !.ready = TRUE,
                                    !.ids = IF x3.back = "detail" THEN m.ids ELSE @]
  BY DEF Goals!TakeRead
<1>7. /\ x8' \in [visit : Nat, ready : BOOLEAN, ids : Goals!Read, before : Goals!Read, creation : Nat]
      /\ x3.view = "picker" /\ x3.back = "detail" => x8'.ids = m.ids
  BY <1>3, <1>6 DEF Goals!IInv, Goals!TypeOK
<1>8. x6' \in Goals!Read
  BY <1>3, <1>5, GoalsNoGoalType, GoalsStateFacts
<1>9. Goals!TypeOK'
  BY <1>1, <1>4, <1>7, <1>8, GoalsStateFacts DEF Goals!IInv, Goals!TypeOK
<1>10. Goals!GoalsInView'
  <2>1. x3.view # "create" /\ (x2.at # "home")
    BY <1>1 DEF Goals!Expected, Goals!IInv, Goals!GoalsInView
  <2>2. Goals!OfGoal => x6'.goal = x7 /\ x7 \in Goals!Goal
    <3>1. Goals!OfGoal => m.goal = x7 /\ x7 \in Goals!Goal
      BY <1>1 DEF Goals!Expected, Goals!IInv, Goals!GoalsInView, Goals!OfGoal
    <3> QED BY <1>3, <1>5, <3>1 DEF Goals!OfGoal
  <2>3. ~Goals!OfGoal /\ x3.view # "list" => x6' = Goals!NoGoal
    BY <1>5, <2>1, GoalsStateFacts DEF Goals!IInv, Goals!GoalsInView, Goals!OfGoal
  <2>4. Goals!OfGoal' <=> Goals!OfGoal
    BY <1>1 DEF Goals!OfGoal
  <2> QED BY <1>1, <1>4, <2>1, <2>2, <2>3, <2>4 DEF Goals!GoalsInView
<1>11. Goals!PickerOK'
  <2>1. SUFFICES ASSUME x3.view = "picker", x3.back = "detail"
                 PROVE  /\ x6'.goal \in Goals!Goal /\ x8'.ids.goal = x6'.goal
                        /\ x6'.version <= x8'.ids.version
                        /\ x8'.ids.version <= x1[x6'.goal]
    BY <1>1 DEF Goals!PickerOK, Goals!ReadAfter
  <2>2. m.kind = "picker" /\ m.goal \in Goals!Goal
    BY <1>1, <2>1 DEF Goals!Expected, Goals!IInv, Goals!GoalsInView, Goals!OfGoal
  <2>3. Goals!ReadAfter(m.goal, m.version, m.ids)
    <3>1. m.goal # 0
      BY <2>2, GoalsGoalType
    <3> QED BY <1>1, <2>2, <3>1 DEF Goals!IInv, Goals!Reads, Goals!ReadOK
  <2> QED BY <1>1, <1>3, <1>5, <1>7, <2>1, <2>3 DEF Goals!ReadAfter
<1> QED BY <1>1, <1>4, <1>9, <1>10, <1>11, GoalsGonePreserves

-----------------------------------------------------------------------------
\* What is read for a message replaces its fields.
LEMMA GoalsAnswerFacts ==
  ASSUME NEW m \in Goals!Messages, NEW goal \in Nat, NEW version \in Nat, NEW ids \in Goals!Read,
         NEW step \in 0..2,
         NEW r, r = [kind |-> m.kind, num |-> m.num, goal |-> goal, version |-> version,
                     ids |-> ids, step |-> step]
  PROVE  /\ r \in Goals!Messages /\ r.kind = m.kind /\ r.num = m.num /\ r.goal = goal
         /\ r.version = version /\ r.ids = ids /\ r.step = step
  BY DEF Goals!Messages

LEMMA GoalsStepFacts ==
  ASSUME NEW m \in Goals!Messages, NEW r, r = [m EXCEPT !.step = 2]
  PROVE  /\ r \in Goals!Messages /\ r.kind = m.kind /\ r.num = m.num /\ r.goal = m.goal
         /\ r.version = m.version /\ r.ids = m.ids /\ r.step = 2
<1>1. /\ m.kind \in {"list", "detail", "picker", "new", "edit", "members", "creation"}
      /\ m.num \in Nat /\ m.goal \in Nat /\ m.version \in Nat /\ m.ids \in Goals!Read
      /\ m = [kind |-> m.kind, num |-> m.num, goal |-> m.goal, version |-> m.version,
              ids |-> m.ids, step |-> m.step]
  BY DEF Goals!Messages
<1>2. r = [kind |-> m.kind, num |-> m.num, goal |-> m.goal, version |-> m.version,
           ids |-> m.ids, step |-> 2]
  BY <1>1
<1> QED BY <1>1, <1>2, GoalsAnswerFacts

\* A command reads the Goal first and its Subjects after it.
LEMMA GoalsReadPickerFacts ==
  ASSUME Goals!IInv, NEW m \in x9, m.kind = "picker", m.step < 2, NEW r, r = Goals!ReadPicker(m)
  PROVE  /\ r \in Goals!Messages /\ r.kind = m.kind /\ r.num = m.num /\ r.goal = m.goal
         /\ Goals!ReadOK(r)
<1>1. m \in Goals!Messages /\ Goals!ReadOK(m) /\ x1 \in [Goals!Goal -> Nat]
  BY GoalsStateFacts DEF Goals!IInv, Goals!TypeOK, Goals!Reads
<1>2. CASE m.goal = 0
  <2>1. r = [m EXCEPT !.step = 2]
    BY <1>2 DEF Goals!ReadPicker
  <2>2. r \in Goals!Messages /\ r.kind = m.kind /\ r.num = m.num /\ r.goal = m.goal
    BY <1>1, <2>1, GoalsStepFacts
  <2> QED BY <1>2, <2>2 DEF Goals!ReadOK
<1>3. CASE m.goal # 0 /\ m.step = 0
  <2>1. m.goal \in Goals!Goal /\ x1[m.goal] \in Nat
    BY <1>1, <1>3 DEF Goals!ReadOK
  <2>2. r = [m EXCEPT !.step = 1, !.version = x1[m.goal]]
    BY <1>3 DEF Goals!ReadPicker
  <2>3. PICK version \in Nat : version = x1[m.goal]
    BY <2>1
  <2>4. /\ m.num \in Nat /\ m.goal \in Nat /\ m.ids \in Goals!Read
        /\ m = [kind |-> m.kind, num |-> m.num, goal |-> m.goal, version |-> m.version,
                ids |-> m.ids, step |-> m.step]
    BY <1>1 DEF Goals!Messages
  <2>5. r = [kind |-> m.kind, num |-> m.num, goal |-> m.goal, version |-> version,
             ids |-> m.ids, step |-> 1]
    BY <2>2, <2>3, <2>4
  <2>6. /\ r \in Goals!Messages /\ r.kind = m.kind /\ r.num = m.num /\ r.goal = m.goal
        /\ r.version = version /\ r.step = 1
    BY <1>1, <2>4, <2>5, GoalsAnswerFacts
  <2>7. Goals!ReadOK(r)
    BY <2>1, <2>3, <2>6 DEF Goals!ReadOK
  <2> QED BY <2>6, <2>7
<1>4. CASE m.goal # 0 /\ m.step # 0
  <2>1. m.goal \in Goals!Goal /\ m.goal \in Nat /\ x1[m.goal] \in Nat /\ m.step = 1
        /\ m.version \in Nat /\ m.version <= x1[m.goal]
    BY <1>1, <1>4 DEF Goals!ReadOK, Goals!Messages
  <2>2. PICK i : i = [goal |-> m.goal, version |-> x1[m.goal]]
    OBVIOUS
  <2>3. i \in Goals!Read /\ i.goal = m.goal /\ i.version = x1[m.goal]
    BY <2>1, <2>2 DEF Goals!Read
  <2>4. r = [m EXCEPT !.step = 2, !.ids = i]
    BY <1>4, <2>2 DEF Goals!ReadPicker
  <2>5. /\ r \in Goals!Messages /\ r.kind = "picker" /\ r.num = m.num /\ r.goal = m.goal
        /\ r.version = m.version /\ r.ids = i
    <3>1. /\ m.num \in Nat
          /\ m = [kind |-> m.kind, num |-> m.num, goal |-> m.goal, version |-> m.version,
                  ids |-> m.ids, step |-> m.step]
      BY <1>1 DEF Goals!Messages
    <3>2. r = [kind |-> m.kind, num |-> m.num, goal |-> m.goal, version |-> m.version,
               ids |-> i, step |-> 2]
      BY <2>4, <3>1
    <3> QED BY <1>1, <2>1, <2>3, <3>2, GoalsAnswerFacts
  <2> QED BY <2>1, <2>3, <2>5 DEF Goals!ReadOK, Goals!ReadAfter
<1> QED BY <1>2, <1>3, <1>4

\* The answer of a command takes its place.
LEMMA GoalsRanPreserves ==
  ASSUME Goals!IInv, NEW m \in x9, m.kind # "creation", NEW r \in Goals!Messages, Goals!Ran(m, r),
         r.kind = m.kind, r.num = m.num, r.kind # "new" => r.goal = m.goal, Goals!ReadOK(r)',
         x1' \in [Goals!Goal -> Nat], \A g \in Goals!Goal : x1[g] <= x1'[g],
         UNCHANGED <<x2, x3, x4, x5, x6, x7, x8>>
  PROVE  Goals!IInv'
<1>1. x9' = (x9 \ {m}) \cup {r}
  BY DEF Goals!Ran
<1>2. Goals!TypeOK'
  BY <1>1 DEF Goals!IInv, Goals!TypeOK
<1>3. Goals!GoalsInView'
  BY DEF Goals!IInv, Goals!GoalsInView, Goals!OfGoal
<1>4. Goals!OneAwaited'
  <2>1. ~x5.saving /\ m.num = x4.now => m.kind # "new"
    BY DEF Goals!IInv, Goals!OneAwaited, Goals!Saves
  <2>2. \A n \in x9' : \E o \in x9 : n.kind = o.kind /\ n.num = o.num
                                        /\ (n.kind # "new" => n.goal = o.goal)
    BY <1>1
  <2>3. ASSUME NEW n \in x9', n.kind # "creation"
        PROVE  /\ 0 < n.num /\ n.num <= x4.last
               /\ n.num = x4.now =>
                    /\ x5.loading
                    /\ x5.saving <=> n.kind \in Goals!Saves
                    /\ ~x5.saving => Goals!Expected(n)
    BY <2>1, <2>2, <2>3 DEF Goals!IInv, Goals!OneAwaited, Goals!Expected, Goals!Saves
  <2>4. \A n, o \in x9' :
          n.kind # "creation" /\ o.kind # "creation" /\ n.num = o.num => n = o
    BY <1>1 DEF Goals!IInv, Goals!OneAwaited
  <2>5. \A n : Goals!Expected(n)' <=> Goals!Expected(n)
    BY DEF Goals!Expected
  <2> QED BY <2>3, <2>4, <2>5 DEF Goals!IInv, Goals!OneAwaited
<1>5. \A goal, version, ids : ids.version \in Nat /\ Goals!ReadAfter(goal, version, ids)
        => Goals!ReadAfter(goal, version, ids)'
  BY DEF Goals!ReadAfter, Goals!IInv, Goals!TypeOK
<1>6. Goals!Reads'
  <2>1. ASSUME NEW n \in x9 PROVE Goals!ReadOK(n)'
    <3>1. n.version \in Nat /\ n.ids.version \in Nat /\ Goals!ReadOK(n)
      BY GoalsStateFacts DEF Goals!IInv, Goals!Messages, Goals!Read, Goals!Reads
    <3>2. Goals!ReadAfter(n.goal, n.version, n.ids) => Goals!ReadAfter(n.goal, n.version, n.ids)'
      BY <1>5, <3>1
    <3>3. n.goal \in Goals!Goal /\ n.version <= x1[n.goal] => n.version <= x1'[n.goal]
      BY <3>1 DEF Goals!IInv, Goals!TypeOK
    <3> QED BY <3>1, <3>2, <3>3 DEF Goals!ReadOK
  <2> QED BY <1>1, <2>1 DEF Goals!Reads
<1>7. Goals!PickerOK'
  <2>1. x8.ids.version \in Nat
    BY DEF Goals!IInv, Goals!TypeOK, Goals!Read
  <2> QED BY <1>5, <2>1 DEF Goals!IInv, Goals!PickerOK
<1>8. Goals!AwaitedIsComing'
  BY <1>1 DEF Goals!IInv, Goals!AwaitedIsComing
<1> QED BY <1>2, <1>3, <1>4, <1>6, <1>7, <1>8 DEF Goals!IInv

LEMMA GoalsRunPreserves ==
  ASSUME Goals!IInv, NEW m \in x9, Goals!Run(m)
  PROVE  Goals!IInv'
<1>1. /\ m \in Goals!Messages /\ Goals!ReadOK(m) /\ x1 \in [Goals!Goal -> Nat] /\ m.step < 2
      /\ UNCHANGED <<x2, x3, x4, x5, x6, x7, x8>>
  BY GoalsStateFacts DEF Goals!Run, Goals!IInv, Goals!TypeOK, Goals!Reads
<1>2. ASSUME x1' = x1, NEW x, Goals!ReadOK(x) PROVE Goals!ReadOK(x)'
  BY <1>2 DEF Goals!ReadOK, Goals!ReadAfter
<1>3. x1' = x1 => x1' \in [Goals!Goal -> Nat] /\ \A g \in Goals!Goal : x1[g] <= x1'[g]
  BY <1>1
<1>4. CASE m.kind = "list" /\ Goals!Ran(m, [m EXCEPT !.step = 2]) /\ UNCHANGED x1
  <2>1. PICK r : r = [m EXCEPT !.step = 2]
    OBVIOUS
  <2>2. r \in Goals!Messages /\ r.kind = "list" /\ r.num = m.num /\ r.goal = m.goal
    BY <1>1, <1>4, <2>1, GoalsStepFacts
  <2>3. Goals!ReadOK(r)
    BY <2>2 DEF Goals!ReadOK
  <2> QED BY <1>1, <1>2, <1>3, <1>4, <2>1, <2>2, <2>3, GoalsRanPreserves
<1>5. CASE /\ m.kind = "detail" /\ UNCHANGED x1
           /\ Goals!Ran(m, [m EXCEPT !.step = 2, !.version = x1[m.goal]])
  <2>1. m.goal \in Goals!Goal /\ x1[m.goal] \in Nat
    BY <1>1, <1>5 DEF Goals!ReadOK
  <2>2. PICK r : r = [m EXCEPT !.step = 2, !.version = x1[m.goal]]
    OBVIOUS
  <2>3. r \in Goals!Messages /\ r.kind = "detail" /\ r.num = m.num /\ r.goal = m.goal
    <3>1. PICK version \in Nat : version = x1[m.goal]
      BY <2>1
    <3>2. /\ m.num \in Nat /\ m.goal \in Nat /\ m.ids \in Goals!Read
          /\ m = [kind |-> m.kind, num |-> m.num, goal |-> m.goal, version |-> m.version,
                  ids |-> m.ids, step |-> m.step]
      BY <1>1 DEF Goals!Messages
    <3>3. r = [kind |-> m.kind, num |-> m.num, goal |-> m.goal, version |-> version,
               ids |-> m.ids, step |-> 2]
      BY <2>2, <3>1, <3>2
    <3> QED BY <1>1, <1>5, <3>2, <3>3, GoalsAnswerFacts
  <2>4. Goals!ReadOK(r)
    BY <2>1, <2>3 DEF Goals!ReadOK
  <2> QED BY <1>1, <1>2, <1>3, <1>5, <2>2, <2>3, <2>4, GoalsRanPreserves
<1>6. CASE m.kind = "picker" /\ Goals!Ran(m, Goals!ReadPicker(m)) /\ UNCHANGED x1
  <2>1. PICK r : r = Goals!ReadPicker(m)
    OBVIOUS
  <2>2. /\ r \in Goals!Messages /\ r.kind = m.kind /\ r.num = m.num /\ r.goal = m.goal
        /\ Goals!ReadOK(r)
    BY <1>1, <1>6, <2>1, GoalsReadPickerFacts
  <2> QED BY <1>1, <1>2, <1>3, <1>6, <2>1, <2>2, GoalsRanPreserves
<1>7. CASE /\ m.kind \in {"edit", "members"}
           /\ x1[m.goal] = m.version /\ m.version < MaxVersion
           /\ x1' = [x1 EXCEPT ![m.goal] = @ + 1]
           /\ Goals!Ran(m, [m EXCEPT !.step = 2])
  <2>1. PICK r : r = [m EXCEPT !.step = 2]
    OBVIOUS
  <2>2. /\ r \in Goals!Messages /\ r.kind = m.kind /\ r.num = m.num /\ r.goal = m.goal
        /\ r.version = m.version /\ r.ids = m.ids
    BY <1>1, <2>1, GoalsStepFacts
  <2>3. m.goal \in Goals!Goal /\ m.goal \in Nat /\ m.version \in Nat /\ m.ids \in Goals!Read
    BY <1>1, <1>7, GoalsGoalType DEF Goals!ReadOK, Goals!Messages
  <2>4. x1' \in [Goals!Goal -> Nat] /\ \A g \in Goals!Goal : x1[g] <= x1'[g]
    BY <1>1, <1>7, <2>3
  <2>5. Goals!ReadOK(r)'
    <3>1. CASE m.kind = "edit"
      BY <2>2, <2>3, <3>1 DEF Goals!ReadOK
    <3>2. CASE m.kind = "members"
      <4>1. /\ m.ids.goal = m.goal /\ m.version <= m.ids.version
            /\ m.ids.version <= x1[m.goal]
        BY <1>1, <3>2 DEF Goals!ReadOK, Goals!ReadAfter
      <4>2. m.ids.version \in Nat /\ m.ids = [goal |-> m.ids.goal, version |-> m.ids.version]
        BY <2>3 DEF Goals!Read
      <4>3. m.ids.version = m.version
        BY <1>7, <2>3, <4>1, <4>2
      <4>4. x1'[m.goal] = m.version + 1
        BY <1>1, <1>7, <2>3
      <4>5. m.ids.version <= x1'[m.goal]
        BY <2>3, <4>3, <4>4
      <4> QED BY <2>2, <2>3, <3>2, <4>1, <4>2, <4>3, <4>5 DEF Goals!ReadOK, Goals!ReadAfter
    <3> QED BY <1>7, <3>1, <3>2
  <2> QED BY <1>1, <1>7, <2>1, <2>2, <2>4, <2>5, GoalsRanPreserves
<1>8. CASE /\ m.kind = "new"
           /\ \E g \in Goals!Goal : /\ x1[g] = 0 /\ (\A h \in 1..(g - 1) : x1[h] # 0)
                                    /\ x1' = [x1 EXCEPT ![g] = 1]
                                    /\ Goals!Ran(m, [m EXCEPT !.step = 2, !.goal = g])
  <2>1. PICK g \in Goals!Goal : /\ x1[g] = 0 /\ x1' = [x1 EXCEPT ![g] = 1]
                                /\ Goals!Ran(m, [m EXCEPT !.step = 2, !.goal = g])
    BY <1>8
  <2>2. PICK r : r = [m EXCEPT !.step = 2, !.goal = g]
    OBVIOUS
  <2>3. g \in Nat
    BY GoalsGoalType
  <2>4. r \in Goals!Messages /\ r.kind = "new" /\ r.num = m.num /\ r.goal = g
    <3>1. /\ m.num \in Nat /\ m.version \in Nat /\ m.ids \in Goals!Read
          /\ m = [kind |-> m.kind, num |-> m.num, goal |-> m.goal, version |-> m.version,
                  ids |-> m.ids, step |-> m.step]
      BY <1>1 DEF Goals!Messages
    <3>2. r = [kind |-> m.kind, num |-> m.num, goal |-> g, version |-> m.version,
               ids |-> m.ids, step |-> 2]
      BY <2>2, <3>1
    <3> QED BY <1>1, <1>8, <2>3, <3>1, <3>2, GoalsAnswerFacts
  <2>5. x1' \in [Goals!Goal -> Nat] /\ \A h \in Goals!Goal : x1[h] <= x1'[h]
    BY <1>1, <2>1
  <2>6. Goals!ReadOK(r)'
    BY <2>4 DEF Goals!ReadOK
  <2> QED BY <1>1, <1>8, <2>1, <2>2, <2>4, <2>5, <2>6, GoalsRanPreserves
<1> QED BY <1>4, <1>5, <1>6, <1>7, <1>8 DEF Goals!Run

-----------------------------------------------------------------------------
LEMMA GoalsInitIInv == Goals!Init => Goals!IInv
<1> SUFFICES ASSUME Goals!Init PROVE Goals!IInv
  OBVIOUS
<1>1. Goals!TypeOK
  <2>1. /\ x1 \in [Goals!Goal -> Nat] /\ x2 \in [at : {"home", "goals", "form"}, visit : Nat]
        /\ x3 \in [view : {"list", "detail", "create", "edit", "picker"},
                       back : {"detail", "create"}]
        /\ x4 \in [now : Nat, last : Nat] /\ x9 = {}
        /\ x5 \in [open : BOOLEAN, loading : BOOLEAN, saving : BOOLEAN, failed : BOOLEAN]
    BY DEF Goals!Init
  <2>2. /\ x6 \in Goals!Read /\ x7 \in Nat
        /\ x8 \in [visit : Nat, ready : BOOLEAN, ids : Goals!Read, before : Goals!Read, creation : Nat]
    BY GoalsNoGoalType DEF Goals!Init
  <2> QED BY <2>1, <2>2 DEF Goals!TypeOK
<1>2. Goals!GoalsInView /\ Goals!OneAwaited /\ Goals!Reads /\ Goals!PickerOK
      /\ Goals!AwaitedIsComing
  BY
     DEF Goals!Init, Goals!GoalsInView, Goals!OfGoal, Goals!OneAwaited, Goals!Reads,
         Goals!PickerOK, Goals!AwaitedIsComing
<1> QED BY <1>1, <1>2 DEF Goals!IInv

LEMMA GoalsNextPreserves == Goals!IInv /\ (Goals!Next \/ UNCHANGED Goals!vars) => Goals!IInv'
<1>1. ASSUME Goals!IInv, UNCHANGED Goals!vars PROVE Goals!IInv'
  BY <1>1
     DEF Goals!vars, Goals!IInv, Goals!TypeOK, Goals!GoalsInView, Goals!OfGoal, Goals!OneAwaited,
         Goals!Expected, Goals!Reads, Goals!ReadOK, Goals!ReadAfter, Goals!PickerOK,
         Goals!AwaitedIsComing
<1>2. ASSUME Goals!IInv, NEW m \in x9,
             \/ Goals!RootTakesRequest(m) \/ Goals!Run(m) \/ Goals!Discard(m) \/ Goals!Fail(m)
             \/ Goals!TakeSave(m) \/ Goals!TakeRead(m)
      PROVE  Goals!IInv'
  BY <1>2, GoalsRootTakesRequestPreserves, GoalsRunPreserves, GoalsDiscardPreserves,
     GoalsFailPreserves, GoalsTakeSavePreserves, GoalsTakeReadPreserves
<1> QED
  BY <1>1, <1>2, GoalsOtherSessionPreserves, GoalsOpenPreserves, GoalsOpenGoalPreserves,
     GoalsRetryPreserves, GoalsStartFormPreserves, GoalsOpenPickerPreserves, GoalsEscPreserves,
     GoalsClosePreserves, GoalsSavePropertiesPreserves, GoalsSaveSubjectsPreserves,
     GoalsDonePickingPreserves, GoalsRequestCreationPreserves, GoalsReturnFromCreationPreserves
     DEF Goals!Next

\* What the screen shows follows.
LEMMA GoalsConsequences == Goals!IInv => Goals!AcceptedWasSeen /\ Goals!ShownIsRequested
  BY
     DEF Goals!IInv, Goals!Reads, Goals!ReadOK, Goals!AcceptedWasSeen, Goals!GoalsInView,
         Goals!OfGoal, Goals!ShownIsRequested

-----------------------------------------------------------------------------
(* The filters of Goals: x1 the rows read, x2 the read under way, x3 the   *)
(* selection applied, x4 the controls, x5 the control used last, x6 the    *)
(* list, x7 the menu, x8 the searches, x9 what was asked for last.         *)

\* The cardinality that the filters place their options with is that of the library's theorems.
LEMMA FiltersCardinality == \A s : Filters!Cardinality(s) = Cardinality(s)
  BY DEF Filters!Cardinality, Cardinality

\* The Subjects offered have one place each, and each place from 2 on has one of them.
LEMMA FiltersPlaces ==
  ASSUME NEW r \in Filters!Rows
  PROVE  /\ Cardinality(Filters!Offered(r)) \in Nat
         /\ Cardinality(Filters!Offered(r)) <= MaxSubject
         /\ Filters!Offered(r) \subseteq Filters!Subject
         /\ \A s \in Filters!Offered(r) : Filters!Position(s, r) \in 2..Cardinality(Filters!Offered(r)) + 1
         /\ \A s, t \in Filters!Offered(r) : Filters!Position(s, r) = Filters!Position(t, r) => s = t
         /\ \A i \in 2..Cardinality(Filters!Offered(r)) + 1 : \E s \in Filters!Offered(r) : Filters!Position(s, r) = i
<1> DEFINE below(s) == {t \in Filters!Offered(r) : t < s}
<1>1. Filters!Offered(r) \subseteq Filters!Subject
  BY DEF Filters!Offered, Filters!Rows
<1>2. IsFiniteSet(Filters!Subject) /\ Cardinality(Filters!Subject) = MaxSubject
  BY FiltersAssumption, FS_Interval DEF Filters!Subject
<1>3. /\ IsFiniteSet(Filters!Offered(r)) /\ Cardinality(Filters!Offered(r)) \in Nat
      /\ Cardinality(Filters!Offered(r)) <= MaxSubject
  BY <1>1, <1>2, FS_Subset, FS_CardinalityType
<1>4. \A s \in Filters!Subject : s \in Nat
  BY FiltersAssumption DEF Filters!Subject
<1>5. ASSUME NEW s \in Filters!Offered(r)
      PROVE  /\ IsFiniteSet(below(s)) /\ Cardinality(below(s)) \in Nat
             /\ Cardinality(below(s)) < Cardinality(Filters!Offered(r))
  <2>1. below(s) \in SUBSET Filters!Offered(r) /\ s \notin below(s)
    BY <1>1, <1>4
  <2>2. IsFiniteSet(below(s)) /\ Cardinality(below(s)) \in Nat
    BY <1>3, <2>1, FS_Subset, FS_CardinalityType
  <2>3. Cardinality(below(s)) <= Cardinality(Filters!Offered(r)) /\ below(s) # Filters!Offered(r)
    BY <1>3, <2>1, FS_Subset
  <2>4. Cardinality(below(s)) # Cardinality(Filters!Offered(r))
    BY <1>3, <2>1, <2>3, FS_Subset
  <2> QED BY <1>3, <2>2, <2>3, <2>4
<1>6. ASSUME NEW s \in Filters!Offered(r), NEW t \in Filters!Offered(r), s < t
      PROVE  Cardinality(below(s)) < Cardinality(below(t))
  <2>1. s \in Nat /\ t \in Nat /\ \A u \in Filters!Offered(r) : u \in Nat
    BY <1>1, <1>4
  <2>2. below(s) \in SUBSET below(t) /\ s \in below(t) /\ s \notin below(s)
    <3>1. \A u \in Filters!Offered(r) : u < s => u < t
      BY <1>6, <2>1
    <3>2. ~(s < s)
      BY <2>1
    <3> QED BY <1>6, <3>1, <3>2
  <2>3. Cardinality(below(s)) <= Cardinality(below(t)) /\ below(s) # below(t)
    BY <1>5, <2>2, FS_Subset
  <2>4. Cardinality(below(s)) # Cardinality(below(t))
    BY <1>5, <2>2, <2>3, FS_Subset
  <2> QED BY <1>5, <2>3, <2>4
<1>7. \A s \in Filters!Offered(r) : Filters!Position(s, r) = Cardinality(below(s)) + 2
  BY FiltersCardinality DEF Filters!Position
<1>8. \A s \in Filters!Offered(r) : Filters!Position(s, r) \in 2..Cardinality(Filters!Offered(r)) + 1
  <2> SUFFICES ASSUME NEW s \in Filters!Offered(r)
               PROVE  Filters!Position(s, r) \in 2..Cardinality(Filters!Offered(r)) + 1
    OBVIOUS
  <2>1. PICK n \in Nat : n = Cardinality(below(s))
    BY <1>5
  <2>2. n < Cardinality(Filters!Offered(r)) /\ Filters!Position(s, r) = n + 2
    BY <1>5, <1>7, <2>1
  <2> QED BY <1>3, <2>2
<1>9. \A s, t \in Filters!Offered(r) : Filters!Position(s, r) = Filters!Position(t, r) => s = t
  <2> SUFFICES ASSUME NEW s \in Filters!Offered(r), NEW t \in Filters!Offered(r), s # t
               PROVE  Filters!Position(s, r) # Filters!Position(t, r)
    OBVIOUS
  <2>1. s < t \/ t < s
    BY <1>1, <1>4
  <2>2. PICK m \in Nat : m = Cardinality(below(s))
    BY <1>5
  <2>3. PICK n \in Nat : n = Cardinality(below(t))
    BY <1>5
  <2>4. m # n
    BY <1>6, <2>1, <2>2, <2>3
  <2>5. Filters!Position(s, r) = m + 2 /\ Filters!Position(t, r) = n + 2
    BY <1>7, <2>2, <2>3
  <2> QED BY <2>4, <2>5
<1>10. \A i \in 2..Cardinality(Filters!Offered(r)) + 1 : \E s \in Filters!Offered(r) : Filters!Position(s, r) = i
  <2> DEFINE places == 2..Cardinality(Filters!Offered(r)) + 1
             f == [s \in Filters!Offered(r) |-> Filters!Position(s, r)]
  <2>1. f \in Injection(Filters!Offered(r), places)
    BY <1>8, <1>9 DEF Injection, IsInjective
  <2>2. IsFiniteSet(places) /\ Cardinality(places) = Cardinality(Filters!Offered(r))
    <3>1. PICK n \in Nat : n = Cardinality(Filters!Offered(r))
      BY <1>3
    <3>2. n + 1 \in Int /\ 2 \in Int /\ (IF 2 > n + 1 THEN 0 ELSE (n + 1) - 2 + 1) = n
      OBVIOUS
    <3>3. IsFiniteSet(2..(n + 1)) /\ Cardinality(2..(n + 1)) = n
      BY <3>2, FS_Interval
    <3> QED BY <3>1, <3>3
  <2>3. f \in Surjection(Filters!Offered(r), places)
    BY <2>1, <2>2, FS_Injection
  <2> QED BY <2>3 DEF Surjection
<1> QED BY <1>1, <1>3, <1>8, <1>9, <1>10

LEMMA FiltersMeantFacts ==
  ASSUME NEW r \in Filters!Rows
  PROVE  /\ \A i \in Filters!Options(r) : i >= 2 => Filters!Meant(i, r) \in Filters!Offered(r) /\ Filters!Position(Filters!Meant(i, r), r) = i
         /\ \A s \in Filters!Offered(r) : Filters!Meant(Filters!Position(s, r), r) = s /\ Filters!Position(s, r) \in Filters!Options(r)
<1>1. ASSUME NEW i \in Filters!Options(r), i >= 2
      PROVE  Filters!Meant(i, r) \in Filters!Offered(r)
             /\ Filters!Position(Filters!Meant(i, r), r) = i
  <2>1. i \in 2..Cardinality(Filters!Offered(r)) + 1 /\ i # 0 /\ i # 1
    BY <1>1, FiltersPlaces, FiltersCardinality DEF Filters!Options
  <2>2. \E s \in Filters!Offered(r) : Filters!Position(s, r) = i
    BY <2>1, FiltersPlaces
  <2> QED BY <2>1, <2>2 DEF Filters!Meant
<1>2. ASSUME NEW s \in Filters!Offered(r)
      PROVE  Filters!Meant(Filters!Position(s, r), r) = s
             /\ Filters!Position(s, r) \in Filters!Options(r)
  <2>1. Filters!Position(s, r) \in 2..Cardinality(Filters!Offered(r)) + 1
    BY FiltersPlaces
  <2>2. Filters!Position(s, r) \in Filters!Options(r) /\ Filters!Position(s, r) >= 2
    BY <2>1, FiltersPlaces, FiltersCardinality DEF Filters!Options
  <2> QED BY <1>1, <2>2, FiltersPlaces
<1> QED BY <1>1, <1>2

\* What an option means: what ChooseOption takes for the Subject wanted.
LEMMA FiltersChosenIndex ==
  ASSUME NEW r \in Filters!Rows, NEW i \in Filters!Options(r)
  PROVE  /\ i \in Nat
         /\ \/ i = 0 /\ Filters!Meant(i, r) = Filters!AllSubjects
            \/ i = 1 /\ Filters!Meant(i, r) = Filters!Misc
            \/ Filters!Meant(i, r) \in Filters!Offered(r) /\ i = Filters!Position(Filters!Meant(i, r), r)
<1>1. i \in Nat /\ (i = 0 \/ i = 1 \/ i >= 2)
  BY FiltersPlaces, FiltersCardinality DEF Filters!Options
<1> QED BY <1>1, FiltersMeantFacts DEF Filters!Meant

LEMMA FiltersSubjectFacts ==
  /\ Filters!AllSubjects \notin Filters!Subject /\ Filters!Misc \notin Filters!Subject
  /\ Filters!AllSubjects # Filters!Misc
  /\ \A s \in Filters!Subject : s \in Nat
  BY FiltersAssumption DEF Filters!Subject, Filters!AllSubjects, Filters!Misc

-----------------------------------------------------------------------------
\* A list that arrives: the index follows the name.
LEMMA FiltersResolvedFollows ==
  ASSUME Filters!TypeOK, Filters!IndexIsOfWanted, NEW r \in Filters!Rows,
         x9' = IF x9 \in Filters!Subject \ Filters!Offered(r) THEN Filters!AllSubjects ELSE x9,
         x4' = [x4 EXCEPT !.subject = Filters!Resolved(x4.subject, r)],
         x1' = r
  PROVE  /\ x4' \in [status : Filters!Statuses, priority : Nat, subject : Nat]
         /\ Filters!IndexIsOfWanted'
<1> DEFINE i == Filters!Resolved(x4.subject, r)
<1>1. x1 \in Filters!Rows
  BY DEF Filters!TypeOK
<1>2. /\ i \in Nat
      /\ \/ i = 0 /\ x9' = Filters!AllSubjects
         \/ i = 1 /\ x9' = Filters!Misc
         \/ x9' \in Filters!Offered(r) /\ i = Filters!Position(x9', r)
  <2>1. CASE x4.subject = 0 /\ x9 = Filters!AllSubjects
    BY <2>1, FiltersSubjectFacts DEF Filters!Resolved
  <2>2. CASE x4.subject = 1 /\ x9 = Filters!Misc
    BY <2>2, FiltersSubjectFacts DEF Filters!Resolved
  <2>3. CASE x9 \in Filters!Offered(x1) /\ x4.subject = Filters!Position(x9, x1)
    <3>1. x4.subject \in Nat /\ x4.subject >= 2 /\ x9 \in Filters!Subject
      BY <1>1, <2>3, FiltersPlaces
    <3>2. Filters!Meant(x4.subject, x1) = x9
      BY <1>1, <2>3, FiltersMeantFacts
    <3>3. i = IF x9 \in Filters!Offered(r) THEN Filters!Position(x9, r) ELSE 0
      BY <3>1, <3>2 DEF Filters!Resolved
    <3>4. x9 \in Filters!Offered(r) => Filters!Position(x9, r) \in Nat
      BY FiltersPlaces
    <3> QED BY <3>1, <3>3, <3>4
  <2> QED BY <2>1, <2>2, <2>3 DEF Filters!IndexIsOfWanted
<1>3. x4' = [status |-> x4.status, priority |-> x4.priority, subject |-> i]
  BY DEF Filters!TypeOK
<1> QED BY <1>2, <1>3 DEF Filters!TypeOK, Filters!IndexIsOfWanted

-----------------------------------------------------------------------------
LEMMA FiltersInitIInv == Filters!Init => Filters!IInv
<1> SUFFICES ASSUME Filters!Init PROVE Filters!IInv
  OBVIOUS
<1>1. x1 \in Filters!Rows
  BY DEF Filters!Init, Filters!Absent, Filters!Rows
<1>2. Filters!TypeOK
  <2>1. x4 = [status |-> 1, priority |-> 0, subject |-> 0] /\ x8 = {}
        /\ x7 = [open |-> FALSE, searching |-> FALSE, query |-> 0, visible |-> {}]
        /\ x2 = FALSE
    BY DEF Filters!Init, Filters!ClosedMenu
  <2>2. 1 \in Filters!Statuses
    BY DEF Filters!Statuses
  <2> QED BY <1>1, <2>1, <2>2, FiltersAssumption DEF Filters!TypeOK
<1>3. Filters!IndexIsOfWanted /\ Filters!MenuIsOfRows /\ Filters!SearchesAreOfMenu
      /\ Filters!MenuShowsQuery
  BY
     DEF Filters!Init, Filters!IndexIsOfWanted, Filters!MenuIsOfRows, Filters!SearchesAreOfMenu,
         Filters!MenuShowsQuery, Filters!ClosedMenu
<1>4. x6.shown = Filters!Shown(x4, x1)
  BY DEF Filters!Init, Filters!Shown, Filters!Absent
<1> QED BY <1>2, <1>3, <1>4 DEF Filters!IInv

LEMMA FiltersReadPreserves ==
  ASSUME Filters!IInv, Filters!Load \/ Filters!LoadFails
  PROVE  Filters!IInv'
<1>1. UNCHANGED <<x1, x4, x5, x6, x7, x8, x9>> /\ x2' \in BOOLEAN
  BY DEF Filters!Load, Filters!LoadFails
<1>2. x7'.open => ~x2'
  BY DEF Filters!Load, Filters!LoadFails, Filters!IInv, Filters!MenuIsOfRows
<1> QED BY <1>1, <1>2
           DEF Filters!IInv, Filters!TypeOK, Filters!IndexIsOfWanted, Filters!MenuIsOfRows,
               Filters!SearchesAreOfMenu, Filters!MenuShowsQuery

LEMMA FiltersLoadedPreserves ==
  ASSUME Filters!IInv, Filters!Loaded
  PROVE  Filters!IInv'
<1>1. PICK r \in [Filters!Goal -> UNION {Listings[g] : g \in Filters!Goal}] :
        /\ \A g \in Filters!Goal : r[g] \in Listings[g]
        /\ Filters!Apply([x4 EXCEPT !.subject = Filters!Resolved(@, r)], r)
        /\ x9' = IF x9 \in Filters!Subject \ Filters!Offered(r) THEN Filters!AllSubjects ELSE x9
  BY DEF Filters!Loaded
<1>2. r \in Filters!Rows
  <2>1. \A g \in Filters!Goal : r[g] \in
          [listed : BOOLEAN, active : BOOLEAN, priority : Nat, subjects : SUBSET Filters!Subject]
    BY <1>1, FiltersAssumption
  <2> QED BY <2>1 DEF Filters!Rows
<1>3. /\ x1' = r /\ x4' = [x4 EXCEPT !.subject = Filters!Resolved(x4.subject, r)]
      /\ x6'.shown = Filters!Shown(x4', x1')
  BY <1>1 DEF Filters!Apply
<1>4. ~x7.open /\ x2' = FALSE /\ x7' = x7 /\ x8' = x8
  BY DEF Filters!Loaded, Filters!IInv, Filters!MenuIsOfRows
<1>5. x4' \in [status : Filters!Statuses, priority : Nat, subject : Nat]
      /\ Filters!IndexIsOfWanted'
  BY <1>1, <1>2, <1>3, FiltersResolvedFollows DEF Filters!IInv
<1>6. Filters!TypeOK'
  BY <1>2, <1>3, <1>4, <1>5 DEF Filters!IInv, Filters!TypeOK
<1>7. Filters!MenuIsOfRows' /\ Filters!SearchesAreOfMenu' /\ Filters!MenuShowsQuery'
  BY <1>4
     DEF Filters!IInv, Filters!MenuIsOfRows, Filters!SearchesAreOfMenu, Filters!MenuShowsQuery
<1> QED BY <1>3, <1>5, <1>6, <1>7 DEF Filters!IInv

LEMMA FiltersKeysPreserve ==
  ASSUME Filters!IInv, Filters!Move \/ Filters!ChangeStatus \/ Filters!ChangePriority
  PROVE  Filters!IInv'
<1>1. x1' = x1 /\ UNCHANGED <<x2, x7, x8, x9>>
  BY DEF Filters!Move, Filters!ChangeStatus, Filters!ChangePriority, Filters!Keys, Filters!Apply
<1>2. /\ x4' \in [status : Filters!Statuses, priority : Nat, subject : Nat]
      /\ x4'.subject = x4.subject
      /\ x6'.shown = Filters!Shown(x4', x1)
  <2>1. CASE Filters!Move
    BY <2>1 DEF Filters!Move, Filters!IInv, Filters!TypeOK
  <2>2. CASE Filters!ChangeStatus
    BY <2>2 DEF Filters!ChangeStatus, Filters!Apply, Filters!IInv, Filters!TypeOK
  <2>3. CASE Filters!ChangePriority
    <3>1. PICK priority \in Filters!Priorities :
            /\ x4' = [x4 EXCEPT !.priority = priority]
            /\ x6'.shown = Filters!Shown(x4', x1)
      BY <2>3 DEF Filters!ChangePriority
    <3>2. priority \in Nat
      BY FiltersAssumption DEF Filters!Priorities
    <3> QED BY <3>1, <3>2 DEF Filters!IInv, Filters!TypeOK
  <2> QED BY <2>1, <2>2, <2>3
<1>3. Filters!TypeOK' /\ Filters!IndexIsOfWanted'
  BY <1>1, <1>2 DEF Filters!IInv, Filters!TypeOK, Filters!IndexIsOfWanted
<1>4. Filters!MenuIsOfRows' /\ Filters!SearchesAreOfMenu' /\ Filters!MenuShowsQuery'
  BY <1>1
     DEF Filters!IInv, Filters!MenuIsOfRows, Filters!SearchesAreOfMenu, Filters!MenuShowsQuery
<1> QED BY <1>1, <1>2, <1>3, <1>4 DEF Filters!IInv

LEMMA FiltersInvalidatedFacts ==
  ASSUME Filters!TypeOK
  PROVE  /\ \A m \in Filters!Invalidated : ~m.live
         /\ Filters!Invalidated \subseteq [query : Filters!Query, live : BOOLEAN]
<1> SUFFICES ASSUME NEW m \in x8, NEW n, n = [m EXCEPT !.live = FALSE]
             PROVE  n.live = FALSE /\ n \in [query : Filters!Query, live : BOOLEAN]
  BY DEF Filters!Invalidated
<1>1. m \in [query : Filters!Query, live : BOOLEAN]
  BY DEF Filters!TypeOK
<1> QED BY <1>1

LEMMA FiltersOpenMenuPreserves ==
  ASSUME Filters!IInv, Filters!OpenMenu
  PROVE  Filters!IInv'
<1>1. /\ UNCHANGED <<x1, x2, x3, x4, x5, x6, x9>> /\ ~x2
      /\ x7' = [open |-> TRUE, searching |-> FALSE, query |-> 0, visible |-> Filters!Options(x1)]
  BY DEF Filters!OpenMenu, Filters!MayOpenMenu
<1>2. Filters!TypeOK'
  <2>1. \A i \in Filters!Options(x1) : i \in Nat
    BY FiltersChosenIndex DEF Filters!IInv, Filters!TypeOK
  <2> QED BY <1>1, <2>1, FiltersAssumption, FiltersInvalidatedFacts
             DEF Filters!IInv, Filters!TypeOK, Filters!OpenMenu
<1>3. Filters!MenuIsOfRows' /\ Filters!IndexIsOfWanted'
  BY <1>1 DEF Filters!IInv, Filters!MenuIsOfRows, Filters!IndexIsOfWanted
<1>4. Filters!SearchesAreOfMenu'
  BY FiltersInvalidatedFacts DEF Filters!IInv, Filters!OpenMenu, Filters!SearchesAreOfMenu
<1>5. Filters!MenuShowsQuery'
  <2>1. Filters!Options(x1) \subseteq 0..MaxSubject + 1
    BY FiltersPlaces, FiltersAssumption, FiltersCardinality
       DEF Filters!Options, Filters!IInv, Filters!TypeOK
  <2> QED BY <1>1, <2>1, FiltersAssumption DEF Filters!MenuShowsQuery
<1> QED BY <1>1, <1>2, <1>3, <1>4, <1>5 DEF Filters!IInv

LEMMA FiltersCloseMenuPreserves ==
  ASSUME Filters!IInv, Filters!CloseMenu
  PROVE  Filters!IInv'
<1>1. UNCHANGED <<x1, x2, x5, x3, x4, x6, x9>> /\ x7' = Filters!ClosedMenu
  BY DEF Filters!CloseMenu, Filters!MenuKeys
<1>2. Filters!TypeOK'
  BY <1>1, FiltersAssumption, FiltersInvalidatedFacts
     DEF Filters!IInv, Filters!TypeOK, Filters!ClosedMenu, Filters!CloseMenu
<1>3. Filters!MenuIsOfRows' /\ Filters!IndexIsOfWanted' /\ Filters!MenuShowsQuery'
  BY <1>1
     DEF Filters!IInv, Filters!MenuIsOfRows, Filters!IndexIsOfWanted, Filters!MenuShowsQuery,
         Filters!ClosedMenu
<1>4. Filters!SearchesAreOfMenu'
  BY FiltersInvalidatedFacts DEF Filters!IInv, Filters!CloseMenu, Filters!SearchesAreOfMenu
<1> QED BY <1>1, <1>2, <1>3, <1>4 DEF Filters!IInv

LEMMA FiltersChooseOptionPreserves ==
  ASSUME Filters!IInv, Filters!ChooseOption
  PROVE  Filters!IInv'
<1>1. PICK i \in x7.visible : Filters!Apply([x4 EXCEPT !.subject = i], x1)
           /\ x9' = Filters!Meant(i, x1)
  BY DEF Filters!ChooseOption
<1>2. /\ x1' = x1 /\ x2' = x2 /\ x7' = Filters!ClosedMenu
      /\ x4' = [x4 EXCEPT !.subject = i] /\ x6'.shown = Filters!Shown(x4', x1')
  BY <1>1 DEF Filters!ChooseOption, Filters!MenuKeys, Filters!Apply
<1>3. i \in Filters!Options(x1) /\ x1 \in Filters!Rows
  BY <1>1
     DEF Filters!ChooseOption, Filters!MenuKeys, Filters!IInv, Filters!MenuIsOfRows,
         Filters!TypeOK
<1>4. /\ i \in Nat
      /\ \/ i = 0 /\ x9' = Filters!AllSubjects
         \/ i = 1 /\ x9' = Filters!Misc
         \/ x9' \in Filters!Offered(x1) /\ i = Filters!Position(x9', x1)
  BY <1>1, <1>3, FiltersChosenIndex
<1>5. x4' = [status |-> x4.status, priority |-> x4.priority, subject |-> i]
  BY <1>2 DEF Filters!IInv, Filters!TypeOK
<1>6. Filters!TypeOK'
  BY <1>2, <1>4, <1>5, FiltersAssumption, FiltersInvalidatedFacts
     DEF Filters!IInv, Filters!TypeOK, Filters!ClosedMenu, Filters!ChooseOption
<1>7. Filters!IndexIsOfWanted'
  BY <1>2, <1>4, <1>5 DEF Filters!IndexIsOfWanted
<1>8. Filters!MenuIsOfRows' /\ Filters!MenuShowsQuery'
  BY <1>2 DEF Filters!MenuIsOfRows, Filters!MenuShowsQuery, Filters!ClosedMenu
<1>9. Filters!SearchesAreOfMenu'
  BY FiltersInvalidatedFacts DEF Filters!IInv, Filters!ChooseOption, Filters!SearchesAreOfMenu
<1> QED BY <1>2, <1>6, <1>7, <1>8, <1>9 DEF Filters!IInv

LEMMA FiltersSearchPreserves ==
  ASSUME Filters!IInv, Filters!StartSearch \/ Filters!ChangeQuery
  PROVE  Filters!IInv'
<1>1. UNCHANGED <<x1, x2, x5, x3, x4, x6, x9>> /\ x7.open
  BY FiltersCardinality DEF Filters!StartSearch, Filters!ChangeQuery, Filters!MenuKeys
<1>2. Filters!IndexIsOfWanted' /\ x6'.shown = Filters!Shown(x4', x1')
  BY <1>1 DEF Filters!IInv, Filters!IndexIsOfWanted
<1>3. CASE Filters!StartSearch
  <2>1. /\ x8' = x8 /\ x7'.open = x7.open /\ x7'.query = x7.query
        /\ x7'.visible = x7.visible /\ x7'.searching = TRUE
        /\ x7' \in [open : BOOLEAN, searching : BOOLEAN, query : Filters!Query, visible : SUBSET Nat]
    BY <1>3 DEF Filters!StartSearch, Filters!IInv, Filters!TypeOK
  <2> QED BY <1>1, <1>2, <2>1
             DEF Filters!IInv, Filters!TypeOK, Filters!MenuIsOfRows, Filters!SearchesAreOfMenu,
                 Filters!MenuShowsQuery
<1>4. CASE Filters!ChangeQuery
  <2>1. PICK q \in Filters!Query : /\ x7' = [x7 EXCEPT !.query = q]
                                   /\ x8' = Filters!Invalidated \cup {[query |-> q, live |-> TRUE]}
    BY <1>4, FiltersCardinality DEF Filters!ChangeQuery
  <2>2. /\ x7'.open = x7.open /\ x7'.visible = x7.visible
        /\ x7'.searching = x7.searching
        /\ x7' \in [open : BOOLEAN, searching : BOOLEAN, query : Filters!Query, visible : SUBSET Nat]
    BY <2>1 DEF Filters!IInv, Filters!TypeOK
  <2>3. x7'.query = q
    BY <2>1 DEF Filters!IInv, Filters!TypeOK
  <2> DEFINE new == [query |-> q, live |-> TRUE]
  <2>4. /\ new \in [query : Filters!Query, live : BOOLEAN] /\ new.live /\ new.query = q
        /\ x8' = Filters!Invalidated \cup {new}
    BY <2>1
  <2>5. Filters!TypeOK
    BY DEF Filters!IInv
  <2> HIDE DEF new
  <2>6. Filters!TypeOK'
    BY <1>1, <2>2, <2>4, <2>5, FiltersInvalidatedFacts DEF Filters!TypeOK
  <2>7. x7.searching
    BY <1>4, FiltersCardinality DEF Filters!ChangeQuery
  <2>8. Filters!SearchesAreOfMenu' /\ Filters!MenuShowsQuery'
    BY <1>1, <2>2, <2>3, <2>4, <2>5, <2>7, FiltersInvalidatedFacts
       DEF Filters!SearchesAreOfMenu, Filters!MenuShowsQuery
  <2>9. Filters!MenuIsOfRows'
    BY <1>1, <2>2 DEF Filters!IInv, Filters!MenuIsOfRows
  <2> QED BY <1>2, <2>6, <2>8, <2>9 DEF Filters!IInv
<1> QED BY <1>3, <1>4

LEMMA FiltersTakeMatchesPreserves ==
  ASSUME Filters!IInv, NEW m \in x8, Filters!TakeMatches(m)
  PROVE  Filters!IInv'
<1>1. UNCHANGED <<x1, x2, x3, x4, x5, x6, x9>> /\ x8' = x8 \ {m}
  BY DEF Filters!TakeMatches
<1>2. Filters!IndexIsOfWanted' /\ x6'.shown = Filters!Shown(x4', x1')
  BY <1>1 DEF Filters!IInv, Filters!IndexIsOfWanted
<1>3. CASE x7.open /\ x7.searching /\ Filters!Owns(m)
  <2>1. x7' = [x7 EXCEPT !.visible = Filters!Options(x1) \cap MenuMatches[m.query]]
    BY <1>3 DEF Filters!TakeMatches
  <2>2. /\ x7'.open = x7.open /\ x7'.query = x7.query
        /\ x7'.searching = x7.searching
        /\ x7'.visible = Filters!Options(x1) \cap MenuMatches[m.query]
        /\ x7' \in [open : BOOLEAN, searching : BOOLEAN, query : Filters!Query, visible : SUBSET Nat]
    <3>1. \A i \in Filters!Options(x1) : i \in Nat
      BY FiltersChosenIndex DEF Filters!IInv, Filters!TypeOK
    <3> QED BY <2>1, <3>1 DEF Filters!IInv, Filters!TypeOK
  <2>3. x7.open => x7'.visible = Filters!Options(x1) \cap MenuMatches[x7.query]
    BY <1>3, <2>2 DEF Filters!IInv, Filters!SearchesAreOfMenu, Filters!Owns
  <2> QED BY <1>1, <1>2, <1>3, <2>2, <2>3
             DEF Filters!IInv, Filters!TypeOK, Filters!MenuIsOfRows, Filters!SearchesAreOfMenu,
                 Filters!MenuShowsQuery
<1>4. CASE ~(x7.open /\ x7.searching /\ Filters!Owns(m))
  <2>1. x7' = x7
    BY <1>4 DEF Filters!TakeMatches
  <2>2. Filters!TypeOK' /\ Filters!MenuIsOfRows' /\ Filters!SearchesAreOfMenu'
    BY <1>1, <2>1
       DEF Filters!IInv, Filters!TypeOK, Filters!MenuIsOfRows, Filters!SearchesAreOfMenu
  <2>3. ASSUME x7.open, NEW n \in x8, n.live, n.query = x7.query, n # m
        PROVE  n \in x8'
    BY <1>1, <2>3
  <2>4. Filters!MenuShowsQuery'
    BY <1>1, <1>4, <2>1, <2>3
       DEF Filters!IInv, Filters!MenuShowsQuery, Filters!SearchesAreOfMenu, Filters!Owns
  <2> QED BY <1>1, <1>2, <2>2, <2>4 DEF Filters!IInv
<1> QED BY <1>3, <1>4

LEMMA FiltersNextPreserves ==
  ASSUME Filters!IInv, Filters!Next \/ UNCHANGED Filters!vars
  PROVE  Filters!IInv'
<1>1. CASE UNCHANGED Filters!vars
  BY <1>1
     DEF Filters!vars, Filters!IInv, Filters!TypeOK, Filters!IndexIsOfWanted,
         Filters!MenuIsOfRows, Filters!SearchesAreOfMenu, Filters!MenuShowsQuery
<1>2. CASE Filters!Next
  BY <1>2, FiltersReadPreserves, FiltersLoadedPreserves, FiltersKeysPreserve,
     FiltersOpenMenuPreserves, FiltersCloseMenuPreserves, FiltersChooseOptionPreserves,
     FiltersSearchPreserves, FiltersTakeMatchesPreserves DEF Filters!Next
<1> QED BY <1>1, <1>2

\* What is shown has the status, priority and Subject that were chosen.
LEMMA FiltersConsequences ==
  ASSUME Filters!IInv
  PROVE  Filters!ShownAsChosen /\ Filters!MenuShowsQuery
<1>1. \A g \in Filters!Goal : /\ x1[g].active \in BOOLEAN /\ x1[g].priority \in Nat
                              /\ x1[g].subjects \subseteq Filters!Subject
  BY DEF Filters!IInv, Filters!TypeOK, Filters!Rows
<1>2. x1 \in Filters!Rows /\ x4.status \in {0, 1, 2} /\ x4.priority \in Nat
  BY DEF Filters!IInv, Filters!TypeOK, Filters!Statuses
<1>3. ASSUME NEW g \in Filters!Goal
      PROVE  Filters!MatchesSubject(g, x4.subject, x1)
             <=> \/ x9 = Filters!AllSubjects
                 \/ x9 = Filters!Misc /\ x1[g].subjects = {}
                 \/ x9 \in x1[g].subjects
  <2>1. CASE x4.subject = 0 /\ x9 = Filters!AllSubjects
    BY <2>1 DEF Filters!MatchesSubject
  <2>2. CASE x4.subject = 1 /\ x9 = Filters!Misc
    BY <1>1, <2>2, FiltersSubjectFacts DEF Filters!MatchesSubject
  <2>3. CASE x9 \in Filters!Offered(x1) /\ x4.subject = Filters!Position(x9, x1)
    <3>1. /\ x4.subject \in Filters!Options(x1) /\ x4.subject \in Nat
          /\ x4.subject >= 2 /\ x9 \in Filters!Subject
          /\ Filters!Meant(x4.subject, x1) = x9
      BY <1>2, <2>3, FiltersPlaces, FiltersMeantFacts
    <3>2. x9 # Filters!AllSubjects /\ x9 # Filters!Misc
      BY <3>1, FiltersSubjectFacts
    <3>3. x4.subject # 0 /\ x4.subject # 1
      BY <3>1
    <3> QED BY <3>1, <3>2, <3>3 DEF Filters!MatchesSubject
  <2> QED BY <2>1, <2>2, <2>3 DEF Filters!IInv, Filters!IndexIsOfWanted
<1>4. ASSUME NEW g \in Filters!Goal
      PROVE  /\ x4.status = 1 => x1[g].active
             /\ x4.status = 2 => ~x1[g].active
             <=> (x4.status # 0 => (x1[g].active <=> (x4.status = 1)))
  BY <1>2
<1>5. \A g \in Filters!Goal : (x1[g].active = (x4.status = 1)) <=> (x1[g].active <=> (x4.status = 1))
  BY <1>1
<1>6. \A g \in Filters!Goal : (x4.priority > 0 => x1[g].priority = x4.priority)
                      <=> x4.priority \in {0, x1[g].priority}
  BY <1>1, <1>2
<1>7. Filters!ShownAsChosen
  BY <1>3, <1>4, <1>5, <1>6 DEF Filters!ShownAsChosen, Filters!Shown, Filters!IInv
<1> QED BY <1>7 DEF Filters!IInv

-----------------------------------------------------------------------------
\* Kept keeps the Goal that is selected, unless the details of another one were visited.
LEMMA FiltersAppliedStays ==
  ASSUME NEW c, NEW r, Filters!Apply(c, r)
  PROVE  Filters!SelectionStays
<1>1. x6' = [shown |-> Filters!Shown(c, r), at |-> Filters!Kept(c, r)]
  BY DEF Filters!Apply
<1>2. x3 = 0 /\ x6.at \in Filters!Shown(c, r) => Filters!Kept(c, r) = x6.at
  BY DEF Filters!Kept
<1> QED BY <1>1, <1>2 DEF Filters!SelectionStays

LEMMA FiltersContinuity ==
  ASSUME Filters!IInv, Filters!Next
  PROVE  Filters!SelectionStays
<1>1. CASE Filters!Load \/ Filters!LoadFails \/ Filters!OpenMenu \/ Filters!CloseMenu
           \/ Filters!StartSearch \/ Filters!ChangeQuery
  BY <1>1, FiltersCardinality
     DEF Filters!Load, Filters!LoadFails, Filters!OpenMenu, Filters!CloseMenu,
         Filters!StartSearch, Filters!ChangeQuery, Filters!SelectionStays
<1>2. CASE Filters!Loaded \/ Filters!ChangeStatus \/ Filters!ChooseOption
  BY <1>2, FiltersAppliedStays DEF Filters!Loaded, Filters!ChangeStatus, Filters!ChooseOption
<1>3. CASE Filters!Move
  BY <1>3 DEF Filters!Move, Filters!SelectionStays
<1>4. CASE Filters!ChangePriority
  <2>1. PICK priority \in Filters!Priorities \ {x4.priority} :
          x4' = [x4 EXCEPT !.priority = priority]
    BY <1>4 DEF Filters!ChangePriority
  <2>2. x4'.priority = priority
    BY <2>1 DEF Filters!IInv, Filters!TypeOK
  <2> QED BY <2>1, <2>2 DEF Filters!SelectionStays
<1>5. CASE \E m \in x8 : Filters!TakeMatches(m)
  BY <1>5 DEF Filters!TakeMatches, Filters!SelectionStays
<1> QED BY <1>1, <1>2, <1>3, <1>4, <1>5 DEF Filters!Next

-----------------------------------------------------------------------------
(* The Visual screen: x1 the controls, x2 the states on their way to the   *)
(* page, x3 the answers on their way back, x4 the page, x5 its tasks, x6   *)
(* the server, x7 and x8 the histories of a stray and of a missed answer.  *)

LEMMA VisualCutFacts == 1 \in Visual!Cut /\ 0 \notin Visual!Cut /\ \A c \in Visual!Cut : c \in Nat
  BY CutAssumption DEF Visual!Cut

LEMMA VisualNoCandidate ==
  /\ Visual!Blank \in Visual!Candidate /\ Visual!Blank.accepted = 0 /\ Visual!Blank.source = FALSE
  /\ Visual!Blank.local = FALSE
  BY DEF Visual!Blank, Visual!Candidate

LEMMA VisualCloseFacts ==
  ASSUME NEW c \in Visual!Candidate
  PROVE  /\ Visual!Close(c) \in Visual!Candidate
         /\ Visual!Close(c).accepted = 0 /\ Visual!Close(c).source = FALSE
         /\ Visual!Close(c).local = FALSE
         /\ Visual!Close(c).kind = c.kind /\ Visual!Close(c).file = c.file
  BY DEF Visual!Close, Visual!Candidate

\* The fields of the records, and records with one field changed.
LEMMA VisualPageFacts ==
  ASSUME Visual!TypeOK
  PROVE  /\ x4.open \in BOOLEAN /\ x4.picker \in BOOLEAN /\ x4.choosing \in BOOLEAN
         /\ x4.broken \in BOOLEAN /\ x4.saved \in {"still", "video"}
         /\ x4.candidate \in Visual!Candidate
         /\ x4 = [open |-> x4.open, picker |-> x4.picker, choosing |-> x4.choosing,
                    saved |-> x4.saved, broken |-> x4.broken,
                    candidate |-> x4.candidate]
  BY DEF Visual!TypeOK, Visual!Page

LEMMA VisualPageWith ==
  ASSUME Visual!TypeOK, NEW c \in Visual!Candidate, x4' = [x4 EXCEPT !.candidate = c]
  PROVE  /\ x4' \in Visual!Page /\ x4'.candidate = c
         /\ x4'.open = x4.open /\ x4'.picker = x4.picker
         /\ x4'.choosing = x4.choosing
  BY VisualPageFacts DEF Visual!Page

LEMMA VisualTaskFacts ==
  ASSUME Visual!TypeOK, NEW t \in x5
  PROVE  /\ t \in Visual!TaskType /\ t.cur \in BOOLEAN /\ t.cut \in Visual!Cut \cup {0}
         /\ t = [kind |-> t.kind, step |-> t.step, cut |-> t.cut, cur |-> t.cur]
  BY DEF Visual!TypeOK, Visual!TaskType

LEMMA VisualTaskAt ==
  ASSUME Visual!TypeOK, NEW t \in x5,
         NEW step \in {"ready", "render", "rendered", "join", "request", "done", "decode",
                       "remove", "settings", "image", "video", "stored"},
         NEW u, u = [t EXCEPT !.step = step]
  PROVE  u \in Visual!TaskType /\ u.kind = t.kind /\ u.step = step /\ u.cut = t.cut
         /\ (u.cur <=> t.cur)
  BY VisualTaskFacts DEF Visual!TaskType

-----------------------------------------------------------------------------
(* The queues.                                                              *)

LEMMA VisualSeqFacts ==
  ASSUME NEW S, NEW s \in Seq(S)
  PROVE  /\ Len(s) \in Nat /\ DOMAIN s = 1..Len(s) /\ \A i \in 1..Len(s) : s[i] \in S
         /\ s = <<>> <=> Len(s) = 0
         /\ s # <<>> => Len(s) \in DOMAIN s /\ 1 \in DOMAIN s
  OBVIOUS

LEMMA VisualAppendFacts ==
  ASSUME NEW S, NEW s \in Seq(S), NEW e \in S, NEW r, r = Append(s, e)
  PROVE  /\ r \in Seq(S) /\ Len(r) = Len(s) + 1 /\ r[Len(r)] = e /\ r # <<>>
         /\ DOMAIN r = DOMAIN s \cup {Len(s) + 1}
         /\ \A i \in DOMAIN s : r[i] = s[i]
         /\ Len(s) + 1 \notin DOMAIN s
         /\ \A i \in DOMAIN s : i < Len(s) + 1
  OBVIOUS

LEMMA VisualTailFacts ==
  ASSUME NEW S, NEW s \in Seq(S), s # <<>>, NEW r, r = Tail(s)
  PROVE  /\ r \in Seq(S) /\ Len(r) = Len(s) - 1 /\ Head(s) = s[1] /\ Head(s) \in S
         /\ \A i \in DOMAIN r : i + 1 \in DOMAIN s /\ r[i] = s[i + 1]
         /\ \A i \in DOMAIN s : i # 1 => i - 1 \in DOMAIN r /\ r[i - 1] = s[i]
  OBVIOUS

LEMMA VisualPlacesFacts ==
  ASSUME NEW S, NEW s \in Seq(S), NEW n, n = Len(s) + 1
  PROVE  /\ n \in Nat /\ n > 0 /\ (n = 1 <=> s = <<>>)
         /\ s # <<>> => n - 1 \in DOMAIN s /\ n - 1 = Len(s)
         /\ \A i \in DOMAIN s : i \in Nat /\ i # n
         /\ \A i \in DOMAIN s : i # 1 => i - 1 \in DOMAIN s
         /\ \A i, j \in DOMAIN s \cup {n} : j < i => j \in DOMAIN s
  OBVIOUS

LEMMA VisualFrameFacts ==
  ASSUME Visual!TypeOK
  PROVE  /\ Len(x2) \in Nat /\ DOMAIN x2 = 1..Len(x2)
         /\ \A i \in DOMAIN x2 :
              /\ i \in Nat /\ i > 0 /\ x2[i] \in Visual!Frame /\ x2[i].open \in BOOLEAN
              /\ x2[i].request \in Visual!Requests /\ x2[i].cut \in Visual!Cut
         /\ x2 = <<>> <=> DOMAIN x2 = {}
         /\ x2 = <<>> <=> Len(x2) = 0
         /\ x2 # <<>> => Len(x2) \in DOMAIN x2 /\ 1 \in DOMAIN x2
<1>1. x2 \in Seq(Visual!Frame)
  BY DEF Visual!TypeOK
<1>2. \A i \in DOMAIN x2 : x2[i] \in Visual!Frame /\ i \in Nat /\ i > 0
  BY <1>1, VisualSeqFacts
<1>3. \A f \in Visual!Frame : f.open \in BOOLEAN /\ f.request \in Visual!Requests /\ f.cut \in Visual!Cut
  BY DEF Visual!Frame
<1> QED BY <1>1, <1>2, <1>3, VisualSeqFacts

LEMMA VisualActFacts ==
  ASSUME Visual!TypeOK
  PROVE  /\ Len(x3) \in Nat /\ DOMAIN x3 = 1..Len(x3)
         /\ \A i \in DOMAIN x3 :
              /\ i \in Nat /\ i > 0 /\ x3[i] \in Visual!Act /\ x3[i].live \in BOOLEAN
              /\ x3[i].cut \in Visual!Cut \cup {0}
<1>1. x3 \in Seq(Visual!Act)
  BY DEF Visual!TypeOK
<1>2. \A i \in DOMAIN x3 : x3[i] \in Visual!Act /\ i \in Nat /\ i > 0
  BY <1>1, VisualSeqFacts
<1>3. \A a \in Visual!Act : a.live \in BOOLEAN /\ a.cut \in Visual!Cut \cup {0}
  BY DEF Visual!Act
<1> QED BY <1>1, <1>2, <1>3, VisualSeqFacts

LEMMA VisualDeadFacts ==
  ASSUME Visual!TypeOK, x3' = Visual!Dead
  PROVE  /\ x3' \in Seq(Visual!Act) /\ DOMAIN x3' = DOMAIN x3
         /\ \A i \in DOMAIN x3' : ~x3'[i].live
<1>1. \A i \in 1..Len(x3) : /\ [x3[i] EXCEPT !.live = FALSE] \in Visual!Act
                            /\ ~[x3[i] EXCEPT !.live = FALSE].live
  <2> SUFFICES ASSUME NEW a \in Visual!Act
               PROVE  [a EXCEPT !.live = FALSE] \in Visual!Act /\ ~[a EXCEPT !.live = FALSE].live
    BY DEF Visual!TypeOK
  <2> QED BY DEF Visual!Act
<1>2. DOMAIN x3 = 1..Len(x3) /\ Len(x3) \in Nat
  BY VisualActFacts
<1>3. x3' = [i \in 1..Len(x3) |-> [x3[i] EXCEPT !.live = FALSE]]
  BY <1>2 DEF Visual!Dead
<1>4. x3' \in [1..Len(x3) -> Visual!Act]
  BY <1>1, <1>3
<1>5. x3' \in Seq(Visual!Act)
  BY <1>2, <1>4
<1> QED BY <1>1, <1>2, <1>3, <1>5

-----------------------------------------------------------------------------
(* The keys.  Visual!RequestOptions appends a request and outdates the answers.    *)

LEMMA VisualRequestFacts ==
  ASSUME Visual!TypeOK, NEW changed \in Visual!TuiState, NEW asked \in Visual!Requests,
         Visual!RequestOptions(changed, asked)
  PROVE  /\ x1' \in Visual!TuiState /\ x1'.at = changed.at /\ x1'.request = asked
         /\ x1'.newVideo = changed.newVideo /\ x1'.ready = changed.ready
         /\ x1'.accepted = changed.accepted
         /\ x1'.checking => asked = "discardVideo" /\ changed.checking
         /\ x2' \in Seq(Visual!Frame) /\ Len(x2') = Len(x2) + 1 /\ x2' # <<>>
         /\ DOMAIN x2' = DOMAIN x2 \cup {Len(x2) + 1}
         /\ Len(x2) + 1 \notin DOMAIN x2
         /\ \A i \in DOMAIN x2 : x2'[i] = x2[i] /\ i < Len(x2) + 1
         /\ x2'[Len(x2) + 1].open <=> Visual!Screen'
         /\ x2'[Len(x2) + 1].request = asked
         /\ x3' \in Seq(Visual!Act) /\ \A i \in DOMAIN x3' : ~x3'[i].live
<1> DEFINE f == [open |-> changed.at \in {"form", "trim"}, request |-> asked,
                 cut |-> changed.cut]
<1>1. f \in Visual!Frame
  BY DEF Visual!Frame, Visual!TuiState
<1>2. x2' = Append(x2, f)
  BY DEF Visual!RequestOptions
<1>3. PICK c \in BOOLEAN :
        /\ x1' = [changed EXCEPT !.request = asked, !.checking = c]
        /\ c => asked = "discardVideo" /\ changed.checking
  BY DEF Visual!RequestOptions, Visual!TuiState
<1>4. /\ x1' \in Visual!TuiState /\ x1'.at = changed.at /\ x1'.request = asked
      /\ x1'.newVideo = changed.newVideo /\ x1'.ready = changed.ready
      /\ x1'.accepted = changed.accepted /\ x1'.checking = c
  BY <1>3 DEF Visual!TuiState
<1> HIDE DEF f
<1>5. /\ x2' \in Seq(Visual!Frame) /\ Len(x2') = Len(x2) + 1 /\ x2' # <<>>
      /\ x2'[Len(x2) + 1] = f /\ DOMAIN x2' = DOMAIN x2 \cup {Len(x2) + 1}
      /\ Len(x2) + 1 \notin DOMAIN x2
      /\ \A i \in DOMAIN x2 : x2'[i] = x2[i] /\ i < Len(x2) + 1
  BY <1>1, <1>2, VisualAppendFacts DEF Visual!TypeOK
<1>6. x3' \in Seq(Visual!Act) /\ \A i \in DOMAIN x3' : ~x3'[i].live
  BY VisualDeadFacts DEF Visual!RequestOptions
<1>7. f.open = (changed.at \in {"form", "trim"}) /\ f.request = asked
  BY DEF f
<1> QED BY <1>3, <1>4, <1>5, <1>6, <1>7 DEF Visual!Screen

\* An operation is asked for when none is awaited, or it ends the one awaited.
VisualMayFollow(asked) ==
  \/ x1.request = "" /\ asked # "stopPreview"
  \/ asked = "discardVideo" /\ x1.request \in {"prepareLoop", "stopPreview", "choose"}
  \/ asked = "stopPreview" /\ x1.request = "prepareLoop"

LEMMA VisualCurrentFacts ==
  ASSUME Visual!TypeOK
  PROVE  Visual!Current <=> x4.open /\ \A i \in DOMAIN x2 : x2[i].open
  BY DEF Visual!Current

LEMMA VisualAskedPreserves ==
  ASSUME Visual!IInv, NEW changed \in Visual!TuiState, NEW asked \in Visual!Requests,
         Visual!RequestOptions(changed, asked), UNCHANGED <<x4, x5, x7>>,
         x6' \in Visual!Server, x8' \in BOOLEAN,
         Visual!Screen' /\ Visual!Screen =>
           /\ VisualMayFollow(asked) /\ asked # "load"
           /\ changed.checking => asked # "discardVideo" \/ x1.checking
           /\ changed.newVideo = x1.newVideo /\ changed.ready = x1.ready
           /\ changed.accepted = x1.accepted /\ x8' = x8,
         Visual!Screen' /\ ~Visual!Screen => asked = "load" /\ ~changed.newVideo,
         ~Visual!Screen' => asked = "",
         asked = "choose" => ~x4.picker
  PROVE  Visual!IInv'
<1> DEFINE n == Len(x2) + 1
<1> USE DEF Visual!IInv
<1>1. Visual!TypeOK
  OBVIOUS
<1>2. /\ x1' \in Visual!TuiState /\ x1'.at = changed.at /\ x1'.request = asked
      /\ x1'.newVideo = changed.newVideo /\ x1'.ready = changed.ready
      /\ x1'.accepted = changed.accepted
      /\ x1'.checking => asked = "discardVideo" /\ changed.checking
      /\ x3' \in Seq(Visual!Act) /\ \A i \in DOMAIN x3' : ~x3'[i].live
  BY <1>1, VisualRequestFacts
<1>3. /\ x2' \in Seq(Visual!Frame) /\ Len(x2') = n /\ x2' # <<>>
      /\ DOMAIN x2' = DOMAIN x2 \cup {n} /\ n \notin DOMAIN x2
      /\ \A i \in DOMAIN x2 : x2'[i] = x2[i] /\ i < n
      /\ x2'[n].open <=> Visual!Screen'
      /\ x2'[n].request = asked
  BY <1>1, VisualRequestFacts
<1>4. /\ n \in Nat /\ n > 0 /\ (n = 1 <=> x2 = <<>>)
      /\ x2 # <<>> => n - 1 \in DOMAIN x2 /\ n - 1 = Len(x2)
      /\ \A i \in DOMAIN x2 : i \in Nat /\ i # n
      /\ \A i \in DOMAIN x2 : i # 1 => i - 1 \in DOMAIN x2
      /\ \A i, j \in DOMAIN x2' : j < i => j \in DOMAIN x2
  BY <1>1, <1>3, VisualPlacesFacts DEF Visual!TypeOK
<1> HIDE DEF n
<1>5. Visual!Working' <=> Visual!Working
  BY DEF Visual!Working
<1>6. Visual!TypeOK'
  BY <1>2, <1>3 DEF Visual!TypeOK
<1>7. Visual!ScreenOK'
  <2>1. CASE Visual!Screen' /\ Visual!Screen
    BY <1>2, <2>1 DEF Visual!ScreenOK
  <2>2. CASE Visual!Screen' /\ ~Visual!Screen
    BY <1>2, <2>2 DEF Visual!ScreenOK
  <2>3. CASE ~Visual!Screen'
    BY <1>2, <2>3 DEF Visual!ScreenOK
  <2> QED BY <2>1, <2>2, <2>3
\* The request before the new one.
<1>8. (IF n = 1 THEN x4.open ELSE x2'[n - 1].open) <=> Visual!Screen
  <2>1. CASE x2 = <<>>
    BY <1>4, <2>1 DEF Visual!FramesOK, Visual!LastOK
  <2>2. CASE x2 # <<>>
    <3>1. x2'[n - 1] = x2[Len(x2)] /\ n # 1
      BY <1>3, <1>4, <2>2
    <3> QED BY <2>2, <3>1 DEF Visual!FramesOK, Visual!LastOK
  <2> QED BY <2>1, <2>2
<1>9. Visual!Fresh(x2'[n]) => Visual!Screen /\ x1.request = ""
  BY <1>3, <1>8 DEF Visual!Fresh, VisualMayFollow
<1>10. Visual!FramesOK'
  <2>1. ASSUME NEW i \in DOMAIN x2'
        PROVE  /\ Visual!Fresh(x2'[i]) =>
                    ~Visual!Working' /\ \A j \in DOMAIN x2' : j < i => Visual!Plain(x2'[j])
               /\ x2'[i].request = "choose" => ~x4'.picker
               /\ x2'[i].request = "stopPreview" =>
                    /\ ~(x4'.picker /\ x4'.choosing)
                    /\ \A t \in x5' : t.cur => t.kind = "prepare"
                    /\ \A j \in DOMAIN x2' :
                         j < i => Visual!Plain(x2'[j]) \/ x2'[j].request = "prepareLoop"
               /\ x2'[i].request = "discardVideo" =>
                    \A j \in DOMAIN x2' : j < i => x2'[j].request # "apply"
               /\ x2'[i].open =>
                    (x2'[i].request = "load" <=> ~Visual!OpenBefore(i)')
               /\ ~x2'[i].open => x2'[i].request = ""
    <3>1. CASE i \in DOMAIN x2
      <4>1. \A j \in DOMAIN x2' : j < i => j \in DOMAIN x2
        BY <1>3, <1>4, <3>1
      <4>2. x2'[i] = x2[i] /\ (i # 1 => x2'[i - 1] = x2[i - 1])
        BY <1>3, <1>4, <3>1
      <4>3. \A j \in DOMAIN x2 : x2'[j] = x2[j]
        BY <1>3
      <4>4. /\ Visual!Fresh(x2[i]) =>
                 ~Visual!Working /\ \A j \in DOMAIN x2 : j < i => Visual!Plain(x2[j])
            /\ x2[i].request = "choose" => ~x4.picker
            /\ x2[i].request = "stopPreview" =>
                 /\ ~(x4.picker /\ x4.choosing)
                 /\ \A t \in x5 : t.cur => t.kind = "prepare"
                 /\ \A j \in DOMAIN x2 :
                      j < i => Visual!Plain(x2[j]) \/ x2[j].request = "prepareLoop"
            /\ x2[i].request = "discardVideo" =>
                 \A j \in DOMAIN x2 : j < i => x2[j].request # "apply"
            /\ x2[i].open => (x2[i].request = "load" <=> ~Visual!OpenBefore(i))
            /\ ~x2[i].open => x2[i].request = ""
        BY <3>1
           DEF Visual!FramesOK, Visual!QueueOK, Visual!BeginsOne, Visual!StopsOne,
               Visual!DiscardsOne, Visual!OpensOne
      <4>5. x4' = x4 /\ x5' = x5
        OBVIOUS
      <4> QED BY <1>5, <4>1, <4>2, <4>3, <4>4, <4>5 DEF Visual!OpenBefore
    <3>2. CASE i = n
      <4>1. \A j \in DOMAIN x2' : j < i => j \in DOMAIN x2
        BY <1>3, <1>4, <3>2
      <4>2. \A j \in DOMAIN x2 : x2'[j] = x2[j]
        BY <1>3
      <4>3. Visual!Fresh(x2'[i]) =>
              ~Visual!Working' /\ \A j \in DOMAIN x2' : j < i => Visual!Plain(x2'[j])
        BY <1>5, <1>9, <3>2, <4>1, <4>2 DEF Visual!FramesOK, Visual!LastOK
      <4>4. x2'[i].request = "stopPreview" =>
              /\ ~(x4'.picker /\ x4'.choosing)
              /\ \A t \in x5' : t.cur => t.kind = "prepare"
              /\ \A j \in DOMAIN x2' :
                   j < i => Visual!Plain(x2'[j]) \/ x2'[j].request = "prepareLoop"
        <5> SUFFICES ASSUME asked = "stopPreview"
                     PROVE  /\ ~(x4'.picker /\ x4'.choosing)
                            /\ \A t \in x5' : t.cur => t.kind = "prepare"
                            /\ \A j \in DOMAIN x2' :
                                 j < i => Visual!Plain(x2'[j]) \/ x2'[j].request = "prepareLoop"
          BY <1>3, <3>2
        <5>1. Visual!Screen' /\ Visual!Screen /\ x1.request = "prepareLoop"
          BY DEF VisualMayFollow
        <5>2. CASE x2 = <<>>
          <6>1. DOMAIN x2 = {} /\ ~x4.choosing
            BY <1>1, <5>1, <5>2, VisualFrameFacts, VisualPageFacts
               DEF Visual!FramesOK, Visual!LastOK
          <6>2. \A t \in x5 : t.cur => t.kind = "prepare"
            BY <5>1, <5>2 DEF Visual!TasksOK, Visual!Outlived, Visual!Kinds
          <6> QED BY <4>1, <6>1, <6>2
        <5>3. CASE x2 # <<>>
          <6>1. Len(x2) \in DOMAIN x2 /\ Len(x2) \in Nat /\ Len(x2) = n - 1
            BY <1>1, <1>4, <5>3, VisualFrameFacts
          <6>2. Visual!Fresh(x2[Len(x2)]) /\ x2[Len(x2)].request = "prepareLoop"
            BY <5>1, <5>3 DEF Visual!FramesOK, Visual!LastOK, Visual!Fresh
          <6>3. ~Visual!Working /\ \A j \in DOMAIN x2 : j < Len(x2) => Visual!Plain(x2[j])
            BY <6>1, <6>2 DEF Visual!FramesOK, Visual!QueueOK, Visual!BeginsOne
          <6>4. \A j \in DOMAIN x2 : j < Len(x2) \/ j = Len(x2)
            BY <1>3, <1>4, <6>1
          <6> QED BY <4>1, <4>2, <6>2, <6>3, <6>4 DEF Visual!Working
        <5> QED BY <5>2, <5>3
      <4>5. x2'[i].open => (x2'[i].request = "load" <=> ~Visual!OpenBefore(i)')
        BY <1>3, <1>8, <3>2 DEF Visual!OpenBefore
      <4>6. x2'[i].request = "discardVideo" =>
              \A j \in DOMAIN x2' : j < i => x2'[j].request # "apply"
        <5> SUFFICES ASSUME asked = "discardVideo", NEW j \in DOMAIN x2,
                            x2[j].request = "apply"
                     PROVE  FALSE
          BY <1>3, <3>2, <4>1, <4>2
        <5>1. Visual!Screen /\ VisualMayFollow(asked) /\ x2 # <<>>
          BY <1>1, VisualFrameFacts
        <5>2. x1.request = "" => Visual!Plain(x2[j])
          BY <5>1 DEF Visual!FramesOK, Visual!LastOK
        <5>3. Len(x2) \in DOMAIN x2 /\ (j = Len(x2) \/ j < Len(x2))
          BY <1>3, <1>4, <5>1
        <5>4. /\ x2[Len(x2)].request = x1.request /\ x2[Len(x2)].open
              /\ x1.request \in {"", "prepareLoop", "stopPreview", "choose"}
          BY <5>1 DEF Visual!FramesOK, Visual!LastOK, VisualMayFollow
        <5>5. j < Len(x2)
          BY <5>3, <5>4
        <5>6. CASE x1.request \in {"prepareLoop", "choose"}
          <6>1. Visual!Fresh(x2[Len(x2)])
            BY <5>4, <5>6 DEF Visual!Fresh
          <6>2. Visual!Plain(x2[j])
            BY <5>3, <5>5, <6>1 DEF Visual!FramesOK, Visual!QueueOK, Visual!BeginsOne
          <6> QED BY <6>2 DEF Visual!Plain
        <5>7. CASE x1.request = "stopPreview"
          <6>1. Visual!Plain(x2[j]) \/ x2[j].request = "prepareLoop"
            BY <5>3, <5>4, <5>5, <5>7 DEF Visual!FramesOK, Visual!QueueOK, Visual!StopsOne
          <6> QED BY <6>1 DEF Visual!Plain
        <5> QED BY <5>2, <5>4, <5>6, <5>7 DEF Visual!Plain
      <4> QED BY <1>3, <3>2, <4>3, <4>4, <4>5, <4>6
    <3> QED BY <1>3, <3>1, <3>2
  <2>2. /\ x2'[Len(x2')].open <=> Visual!Screen'
        /\ x2'[Len(x2')].request = x1'.request
    BY <1>2, <1>3
  <2>3. Visual!Screen' /\ x1'.request = "" =>
          ~Visual!Working' /\ \A i \in DOMAIN x2' : Visual!Plain(x2'[i])
    <3>1. Visual!Screen' /\ asked = "" => Visual!Screen /\ x1.request = ""
      BY DEF VisualMayFollow
    <3>2. Visual!Screen' /\ asked = "" => Visual!Plain(x2'[n])
      BY <1>3 DEF Visual!Plain
    <3> QED BY <1>2, <1>3, <1>5, <3>1, <3>2 DEF Visual!FramesOK, Visual!LastOK
  <2>4. Visual!Screen' => Visual!Current' \/ x1'.request = "load"
    <3>1. Visual!Screen' /\ Visual!Screen => Visual!Current
      BY DEF Visual!FramesOK, Visual!LastOK, VisualMayFollow
    <3>2. Visual!Screen' /\ Visual!Screen => Visual!Current'
      BY <1>3, <3>1 DEF Visual!Current
    <3> QED BY <1>2, <3>2
  <2> QED BY <1>3, <2>1, <2>2, <2>3, <2>4
             DEF Visual!FramesOK, Visual!QueueOK, Visual!LastOK, Visual!BeginsOne,
                 Visual!StopsOne, Visual!DiscardsOne, Visual!OpensOne
<1>11. Visual!TasksOK'
  <2>1. Visual!Screen' => \A t \in x5 : t.cur => t.kind \in Visual!Kinds(x1'.request) \/ Visual!Outlived(t)'
    <3> SUFFICES ASSUME Visual!Screen', NEW t \in x5, t.cur
                 PROVE  Visual!Outlived(t)'
      OBVIOUS
    <3>1. Visual!Working
      BY DEF Visual!Working
    <3>2. CASE ~Visual!Screen
      BY <1>2, <1>3, <3>2 DEF Visual!Outlived
    <3>3. CASE Visual!Screen
      <4>1. x1.request # ""
        BY <3>1, <3>3 DEF Visual!FramesOK, Visual!LastOK
      <4>2. asked = "discardVideo" \/ (asked = "stopPreview" /\ x1.request = "prepareLoop")
        BY <3>3, <4>1 DEF VisualMayFollow
      <4>3. asked = "stopPreview" => t.kind = "prepare"
        <5>1. x2'[n].request = "stopPreview" => \A u \in x5' : u.cur => u.kind = "prepare"
          BY <1>3, <1>10 DEF Visual!FramesOK, Visual!QueueOK, Visual!StopsOne
        <5> QED BY <1>3, <5>1
      <4> QED BY <1>2, <1>3, <4>2, <4>3 DEF Visual!Outlived
    <3> QED BY <3>2, <3>3
  <2> QED BY <2>1 DEF Visual!TasksOK
<1>12. Visual!ActsOK' /\ Visual!AnswersOK'
  BY <1>2, <1>3 DEF Visual!ActsOK, Visual!AnswersOK, Visual!Final
<1>13. Visual!CandidateOK'
  BY DEF Visual!CandidateOK, Visual!Loop
<1>14. Visual!Current' => Visual!Screen' /\ Visual!Screen /\ Visual!Current
  <2>1. Visual!Current' => Visual!Screen' /\ Visual!Current
    BY <1>3 DEF Visual!Current
  <2>2. Visual!Current => Visual!Screen
    <3>1. x2 = <<>> => (x4.open <=> Visual!Screen)
      BY DEF Visual!FramesOK, Visual!LastOK
    <3>2. x2 # <<>> => (x2[Len(x2)].open <=> Visual!Screen) /\ Len(x2) \in DOMAIN x2
      BY <1>1, VisualFrameFacts DEF Visual!FramesOK, Visual!LastOK
    <3> QED BY <1>1, <3>1, <3>2, VisualCurrentFacts
  <2> QED BY <2>1, <2>2
<1>15. Visual!NewVideoIsHeld'
  <2> SUFFICES ASSUME x1'.newVideo, Visual!Screen', ~x7
               PROVE  Visual!HoldsVideo' \/ x1'.request = "discardVideo"
    BY DEF Visual!NewVideoIsHeld
  <2>1. Visual!Screen /\ VisualMayFollow(asked) /\ x1.newVideo /\ x1'.ready = x1.ready
    BY <1>2
  <2>2. CASE asked = "discardVideo"
    BY <1>2, <2>2
  <2>3. CASE asked # "discardVideo"
    <3>1. x1.request \in {"", "prepareLoop"}
      BY <2>1, <2>3 DEF VisualMayFollow
    <3>2. Visual!HoldsVideo
      BY <2>1, <3>1 DEF Visual!NewVideoIsHeld
    <3> QED BY <2>1, <3>2 DEF Visual!HoldsVideo
  <2> QED BY <2>2, <2>3
<1>16. Visual!LoopIsKnown'
  <2> SUFFICES ASSUME ~x8', Visual!Current', x4.candidate.accepted # 0
               PROVE  \/ x1'.request \in {"stopPreview", "discardVideo"}
                      \/ x1'.ready /\ x1'.accepted = x4.candidate.accepted
    BY DEF Visual!LoopIsKnown, Visual!Loop
  <2>1. Visual!Screen' /\ Visual!Screen /\ Visual!Current
    BY <1>14
  <2>2. /\ VisualMayFollow(asked) /\ ~x8
        /\ x1'.ready = x1.ready /\ x1'.accepted = x1.accepted
    BY <1>2, <2>1
  <2>3. CASE asked \in {"stopPreview", "discardVideo"}
    BY <1>2, <2>3
  <2>4. CASE asked \notin {"stopPreview", "discardVideo"}
    BY <1>2, <2>1, <2>2, <2>4 DEF VisualMayFollow, Visual!LoopIsKnown, Visual!Loop
  <2> QED BY <2>3, <2>4
<1>17. Visual!SavesOK'
  BY <1>2, <1>14 DEF Visual!SavesOK
<1> QED BY <1>6, <1>7, <1>10, <1>11, <1>12, <1>13, <1>15, <1>16, <1>17

LEMMA VisualUnsavedFacts ==
  ASSUME NEW s \in Visual!TuiState
  PROVE  /\ Visual!Unsaved(s) \in Visual!TuiState /\ ~Visual!Unsaved(s).newVideo
         /\ ~Visual!Unsaved(s).ready
         /\ Visual!Unsaved(s).request = s.request /\ Visual!Unsaved(s).checking = s.checking
         /\ Visual!Unsaved(s).at \in {"form", "trim"} <=> s.at \in {"form", "trim"}
  BY VisualCutFacts DEF Visual!Unsaved, Visual!TuiState

LEMMA VisualKeysPreserve ==
  ASSUME Visual!IInv, NEW changed \in Visual!TuiState, NEW asked \in Visual!Requests,
         Visual!RequestOptions(changed, asked), UNCHANGED <<x4, x5, x6, x7, x8>>,
         Visual!Screen, Visual!Screen', VisualMayFollow(asked), asked # "load",
         changed.checking => asked # "discardVideo" \/ x1.checking,
         changed.newVideo = x1.newVideo, changed.ready = x1.ready,
         changed.accepted = x1.accepted, asked = "choose" => ~x4.picker
  PROVE  Visual!IInv'
<1>1. x6' \in Visual!Server /\ x8' \in BOOLEAN
  BY DEF Visual!IInv, Visual!TypeOK
<1> QED BY <1>1, VisualAskedPreserves

LEMMA VisualUserPreserves ==
  ASSUME Visual!IInv,
         \/ Visual!OpenVisual \/ Visual!LeaveForm \/ Visual!EditLoop \/ Visual!PreviewLoop
         \/ Visual!StopPreview \/ Visual!Done \/ Visual!Cancel
         \/ \E asked \in {"choose", "apply", "remove"} : Visual!Activate(asked)
  PROVE  Visual!IInv'
<1>1. /\ x1 \in Visual!TuiState /\ x6 \in Visual!Server /\ x8 \in BOOLEAN
      /\ (x1.checking => Visual!Screen)
  BY DEF Visual!IInv, Visual!TypeOK, Visual!ScreenOK
<1>2. \A there \in {"menu", "form", "trim"} : \A c : c = [x1 EXCEPT !.at = there]
        => c \in Visual!TuiState /\ c.at = there /\ c.newVideo = x1.newVideo /\ c.ready = x1.ready
           /\ c.accepted = x1.accepted /\ c.checking = x1.checking
  BY <1>1 DEF Visual!TuiState
<1>3. \A changed \in Visual!TuiState,
      asked \in Visual!Requests : Visual!RequestOptions(changed, asked)
        => (Visual!Screen' <=> changed.at \in {"form", "trim"})
  BY VisualRequestFacts DEF Visual!IInv, Visual!Screen
<1>4. CASE Visual!OpenVisual
  <2> DEFINE changed == [Visual!Unsaved(x1) EXCEPT !.at = "form"]
  <2>1. changed \in Visual!TuiState /\ ~changed.newVideo /\ changed.at = "form"
    BY <1>1, VisualUnsavedFacts DEF Visual!TuiState
  <2> HIDE DEF changed
  <2>2. Visual!RequestOptions(changed, "load")
    BY <1>4 DEF Visual!OpenVisual, changed
  <2>3. ~Visual!Screen /\ x8' \in BOOLEAN /\ UNCHANGED <<x4, x5, x6, x7>>
    BY <1>4 DEF Visual!OpenVisual, Visual!Screen
  <2>4. Visual!Screen'
    BY <1>3, <2>1, <2>2 DEF Visual!Requests
  <2> QED BY <1>1, <2>1, <2>2, <2>3, <2>4, VisualAskedPreserves DEF Visual!Requests
<1>5. CASE Visual!LeaveForm
  <2> DEFINE changed == [x1 EXCEPT !.at = "menu"]
  <2>1. changed \in Visual!TuiState /\ changed.at = "menu"
    BY <1>2
  <2> HIDE DEF changed
  <2>2. Visual!RequestOptions(changed, "") /\ UNCHANGED <<x4, x5, x7, x8>>
    BY <1>5 DEF Visual!LeaveForm, changed
  <2>3. x6' \in Visual!Server
    <3>1. x6' = [files |-> Visual!NoFiles, saved |-> x6.saved]
      BY <1>1, <1>5 DEF Visual!LeaveForm, Visual!Closed, Visual!Server
    <3> QED BY <1>1, <3>1 DEF Visual!Server, Visual!NoFiles
  <2>4. ~Visual!Screen'
    BY <1>3, <2>1, <2>2 DEF Visual!Requests
  <2> QED BY <1>1, <2>1, <2>2, <2>3, <2>4, VisualAskedPreserves DEF Visual!Requests
<1>6. ASSUME NEW asked \in {"choose", "apply", "remove"}, Visual!Activate(asked)
      PROVE  Visual!IInv'
  <2>1. /\ Visual!RequestOptions(x1, asked) /\ UNCHANGED <<x4, x5, x6, x7, x8>>
        /\ Visual!Screen /\ x1.request = "" /\ ~x4.picker
    BY <1>6 DEF Visual!Activate, Visual!Keys, Visual!MayAct, Visual!Form, Visual!Screen
  <2>2. Visual!Screen' /\ VisualMayFollow(asked) /\ asked \in Visual!Requests
    BY <1>1, <1>3, <2>1 DEF Visual!Screen, VisualMayFollow, Visual!Requests
  <2> QED BY <1>1, <2>1, <2>2, VisualKeysPreserve
<1>7. CASE Visual!EditLoop
  <2> DEFINE changed == [x1 EXCEPT !.at = "trim"]
  <2>1. /\ changed \in Visual!TuiState /\ changed.at = "trim" /\ changed.newVideo = x1.newVideo
        /\ changed.ready = x1.ready /\ changed.accepted = x1.accepted
    BY <1>2
  <2> HIDE DEF changed
  <2>2. /\ Visual!RequestOptions(changed, "") /\ UNCHANGED <<x4, x5, x6, x7, x8>>
        /\ Visual!Screen /\ x1.request = ""
    BY <1>7 DEF Visual!EditLoop, Visual!Keys, Visual!Form, Visual!Screen, changed
  <2>3. Visual!Screen' /\ VisualMayFollow("")
    BY <1>3, <2>1, <2>2 DEF VisualMayFollow, Visual!Requests
  <2> QED BY <2>1, <2>2, <2>3, VisualKeysPreserve DEF Visual!Requests
<1>8. CASE Visual!Done
  <2> DEFINE changed == [x1 EXCEPT !.at = "form"]
  <2>1. /\ changed \in Visual!TuiState /\ changed.at = "form" /\ changed.newVideo = x1.newVideo
        /\ changed.ready = x1.ready /\ changed.accepted = x1.accepted
    BY <1>2
  <2> HIDE DEF changed
  <2>2. /\ Visual!RequestOptions(changed, "") /\ UNCHANGED <<x4, x5, x6, x7, x8>>
        /\ Visual!Screen /\ x1.request = ""
    BY <1>1, <1>8 DEF Visual!Done, Visual!Keys, Visual!Trimming, Visual!Screen, changed
  <2>3. Visual!Screen' /\ VisualMayFollow("")
    BY <1>3, <2>1, <2>2 DEF VisualMayFollow, Visual!Requests
  <2> QED BY <2>1, <2>2, <2>3, VisualKeysPreserve DEF Visual!Requests
<1>9. CASE Visual!PreviewLoop \/ Visual!StopPreview \/ Visual!Cancel
  <2>1. PICK asked \in {"prepareLoop", "stopPreview", "discardVideo"} :
          /\ Visual!RequestOptions(x1, asked) /\ VisualMayFollow(asked)
          /\ UNCHANGED <<x4, x5, x6, x7, x8>> /\ Visual!Trimming
    BY <1>9
       DEF Visual!PreviewLoop, Visual!StopPreview, Visual!Cancel, Visual!Keys, VisualMayFollow
  <2>2. Visual!Screen /\ asked \in Visual!Requests
    BY <1>1, <2>1 DEF Visual!Trimming, Visual!Screen, Visual!Requests
  <2>3. Visual!Screen'
    BY <1>1, <1>3, <2>1, <2>2 DEF Visual!Screen
  <2> QED BY <1>1, <2>1, <2>2, <2>3, VisualKeysPreserve
<1> QED BY <1>4, <1>5, <1>6, <1>7, <1>8, <1>9

LEMMA VisualQueueStays ==
  ASSUME Visual!QueueOK, UNCHANGED <<x2, x4, x5>>
  PROVE  Visual!QueueOK'
<1>1. x2' = x2 /\ x4' = x4 /\ x5' = x5
  OBVIOUS
<1>2. SUFFICES ASSUME NEW i \in DOMAIN x2
               PROVE Visual!BeginsOne(i)' /\ Visual!StopsOne(i)' /\ Visual!DiscardsOne(i)'
                     /\ Visual!OpensOne(i)'
  BY <1>1 DEF Visual!QueueOK
<1>3. Visual!BeginsOne(i) /\ Visual!StopsOne(i) /\ Visual!DiscardsOne(i) /\ Visual!OpensOne(i)
  BY DEF Visual!QueueOK
<1>4. Visual!BeginsOne(i)'
  BY <1>1, <1>3 DEF Visual!BeginsOne, Visual!Working
<1>5. Visual!StopsOne(i)'
  BY <1>1, <1>3 DEF Visual!StopsOne
<1>6. Visual!DiscardsOne(i)'
  BY <1>1, <1>3 DEF Visual!DiscardsOne
<1>7. Visual!OpensOne(i)'
  BY <1>1, <1>3 DEF Visual!OpensOne, Visual!OpenBefore
<1> QED BY <1>4, <1>5, <1>6, <1>7

\* The screen is as before, but for the cut and for the menu around it.
LEMMA VisualRestPreserves ==
  ASSUME Visual!IInv,
         Visual!OpenMenu \/ Visual!LeaveMenu \/ Visual!MoveCut \/ UNCHANGED Visual!vars
  PROVE  Visual!IInv'
<1>1. UNCHANGED <<x2, x3, x4, x5, x6, x7, x8>>
  BY DEF Visual!OpenMenu, Visual!LeaveMenu, Visual!MoveCut, Visual!Keys, Visual!vars
<1>2. /\ x1' \in Visual!TuiState /\ (Visual!Screen' <=> Visual!Screen)
      /\ (x1'.checking <=> x1.checking)
      /\ Visual!Screen => /\ x1'.request = x1.request /\ x1'.newVideo = x1.newVideo
                          /\ x1'.ready = x1.ready /\ x1'.accepted = x1.accepted
  BY
     DEF Visual!OpenMenu, Visual!LeaveMenu, Visual!MoveCut, Visual!vars, Visual!IInv,
         Visual!TypeOK, Visual!TuiState, Visual!Screen, Visual!Requests
<1>3. Visual!Current' <=> Visual!Current
  BY <1>1 DEF Visual!Current
<1>4. Visual!Current => Visual!Screen
  <2>1. x2 = <<>> => (x4.open <=> Visual!Screen)
    BY DEF Visual!FramesOK, Visual!LastOK, Visual!IInv
  <2>2. x2 # <<>> => (x2[Len(x2)].open <=> Visual!Screen) /\ Len(x2) \in DOMAIN x2
    BY VisualFrameFacts DEF Visual!FramesOK, Visual!LastOK, Visual!IInv
  <2> QED BY <2>1, <2>2 DEF Visual!Current
<1>5. Visual!Working' <=> Visual!Working
  BY <1>1 DEF Visual!Working
<1>6. Visual!TypeOK' /\ Visual!ScreenOK'
  BY <1>1, <1>2 DEF Visual!IInv, Visual!TypeOK, Visual!ScreenOK
<1>7. Visual!FramesOK'
  <2>1. /\ x2 # <<>> =>
             /\ x2[Len(x2)].open <=> Visual!Screen'
             /\ Visual!Screen' => x2[Len(x2)].request = x1'.request
        /\ x2 = <<>> =>
             /\ x4.open <=> Visual!Screen'
             /\ Visual!Screen' /\ x1'.request # "" => (x4.choosing <=> x1'.request = "choose")
        /\ Visual!Screen' /\ x1'.request = "" => ~Visual!Working' /\ \A i \in DOMAIN x2 : Visual!Plain(x2[i])
        /\ Visual!Screen' => Visual!Current' \/ x1'.request = "load"
    BY <1>2, <1>3, <1>5 DEF Visual!IInv, Visual!FramesOK, Visual!LastOK
  <2>2. Visual!QueueOK'
    BY <1>1, VisualQueueStays DEF Visual!IInv, Visual!FramesOK
  <2> QED BY <1>1, <2>1, <2>2 DEF Visual!FramesOK, Visual!LastOK
<1>8. Visual!TasksOK'
  BY <1>1, <1>2 DEF Visual!IInv, Visual!TasksOK, Visual!Outlived
<1>9. Visual!ActsOK' /\ Visual!AnswersOK'
  BY <1>1, <1>2, <1>5
     DEF Visual!IInv, Visual!ActsOK, Visual!AnswersOK, Visual!Final, Visual!KnownLoop,
         Visual!Loop
<1>10. Visual!CandidateOK'
  BY <1>1 DEF Visual!IInv, Visual!CandidateOK, Visual!Loop
<1>11. Visual!NewVideoIsHeld'
  BY <1>1, <1>2 DEF Visual!IInv, Visual!NewVideoIsHeld, Visual!HoldsVideo
<1>12. Visual!LoopIsKnown' /\ Visual!SavesOK'
  BY <1>1, <1>2, <1>3, <1>4 DEF Visual!IInv, Visual!LoopIsKnown, Visual!SavesOK, Visual!Loop
<1> QED BY <1>6, <1>7, <1>8, <1>9, <1>10, <1>11, <1>12 DEF Visual!IInv

-----------------------------------------------------------------------------
(* The x4 receives a state.                                               *)

LEMMA VisualCurrentIsShown ==
  ASSUME Visual!IInv
  PROVE  Visual!Current => Visual!Screen
<1>1. x2 = <<>> => (x4.open <=> Visual!Screen)
  BY DEF Visual!FramesOK, Visual!LastOK, Visual!IInv
<1>2. x2 # <<>> => (x2[Len(x2)].open <=> Visual!Screen) /\ Len(x2) \in DOMAIN x2
  BY VisualFrameFacts DEF Visual!FramesOK, Visual!LastOK, Visual!IInv
<1> QED BY <1>1, <1>2 DEF Visual!Current

\* What the first state on its way says of the page and of those behind it.
LEMMA VisualHeadFacts ==
  ASSUME Visual!IInv, x2 # <<>>, NEW f, f = Head(x2)
  PROVE  /\ f \in Visual!Frame /\ f.open \in BOOLEAN /\ f.request \in Visual!Requests
         /\ f.cut \in Visual!Cut
         /\ Visual!Fresh(f) => ~Visual!Working
         /\ f.request = "choose" => ~x4.picker
         /\ f.request = "stopPreview" =>
              ~(x4.picker /\ x4.choosing) /\ \A t \in x5 : t.cur => t.kind = "prepare"
         /\ f.open => (f.request = "load" <=> ~x4.open)
         /\ ~f.open => f.request = ""
         /\ Visual!Screen /\ x1.request = "" => Visual!Plain(f)
<1>1. /\ 1 \in DOMAIN x2 /\ f = x2[1] /\ f \in Visual!Frame /\ f.open \in BOOLEAN
      /\ f.request \in Visual!Requests /\ f.cut \in Visual!Cut
  BY VisualFrameFacts DEF Visual!IInv, Visual!TypeOK
<1>2. Visual!BeginsOne(1) /\ Visual!StopsOne(1) /\ Visual!OpensOne(1)
  BY <1>1 DEF Visual!IInv, Visual!FramesOK, Visual!QueueOK
<1>3. Visual!Screen /\ x1.request = "" => Visual!Plain(f)
  BY <1>1 DEF Visual!IInv, Visual!FramesOK, Visual!LastOK
<1> QED BY <1>1, <1>2, <1>3
           DEF Visual!BeginsOne, Visual!StopsOne, Visual!OpensOne, Visual!OpenBefore

LEMMA VisualStartedFacts ==
  ASSUME Visual!TypeOK, NEW f \in Visual!Frame
  PROVE  /\ Visual!Started(f) \subseteq Visual!TaskType
         /\ \A s, u \in Visual!Started(f) : s = u
         /\ \A s \in Visual!Started(f) :
              /\ s.cur /\ s.kind \in Visual!Kinds(f.request)
              /\ s.kind \notin {"file", "upload"}
              /\ s.kind = "prepare" => s.step = "render" /\ s.cut # 0
              /\ s.kind = "stop" => s.step = "join"
              /\ s.kind = "save" => s.step \in Visual!Saves
              /\ s.kind = "save" /\ s.step = "video" => f.request = "apply" /\ s.cut = Visual!Loop
         /\ f.request = "" <=> Visual!Started(f) = {}
<1>1. f.cut \in Visual!Cut /\ f.cut # 0 /\ f.request \in Visual!Requests
  BY VisualCutFacts DEF Visual!Frame
<1>2. Visual!Loop \in Visual!Cut \cup {0}
      /\ Visual!SavedBody(x4.candidate) \in {"settings", "image", "video"}
  BY VisualPageFacts DEF Visual!Loop, Visual!SavedBody, Visual!Candidate
<1>3. ASSUME f.request \in {"load", "choose"}
      PROVE  \E m \in Visual!TaskType :
               /\ Visual!Started(f) = {m} /\ m.cur /\ m.kind \in Visual!Kinds(f.request)
               /\ m.kind = f.request /\ m.step = "ready" /\ m.cut = 0
  <2> DEFINE m == [kind |-> f.request, step |-> "ready", cut |-> 0, cur |-> TRUE]
  <2>1. Visual!Started(f) = {m}
    BY <1>3 DEF Visual!Started, Visual!Task
  <2>2. m \in Visual!TaskType /\ f.request \in Visual!Kinds(f.request)
    BY <1>1, <1>2, <1>3 DEF Visual!TaskType, Visual!Kinds
  <2> QED BY <2>1, <2>2
<1>4. ASSUME f.request = "prepareLoop"
      PROVE  \E m \in Visual!TaskType :
               /\ Visual!Started(f) = {m} /\ m.cur /\ m.kind \in Visual!Kinds(f.request)
               /\ m.kind = "prepare" /\ m.step = "render" /\ m.cut = f.cut
  <2> DEFINE m == [kind |-> "prepare", step |-> "render", cut |-> f.cut, cur |-> TRUE]
  <2>1. Visual!Started(f) = {m}
    BY <1>4 DEF Visual!Started, Visual!Task
  <2>2. m \in Visual!TaskType /\ "prepare" \in Visual!Kinds(f.request)
    BY <1>1, <1>2, <1>4 DEF Visual!TaskType, Visual!Kinds
  <2> QED BY <2>1, <2>2
<1>5. ASSUME f.request = "stopPreview"
      PROVE  \E m \in Visual!TaskType :
               /\ Visual!Started(f) = {m} /\ m.cur /\ m.kind \in Visual!Kinds(f.request)
               /\ m.kind = "stop" /\ m.step = "join" /\ m.cut = 0
  <2> DEFINE m == [kind |-> "stop", step |-> "join", cut |-> 0, cur |-> TRUE]
  <2>1. Visual!Started(f) = {m}
    BY <1>5 DEF Visual!Started, Visual!Task
  <2>2. m \in Visual!TaskType /\ "stop" \in Visual!Kinds(f.request)
    BY <1>1, <1>2, <1>5 DEF Visual!TaskType, Visual!Kinds
  <2> QED BY <2>1, <2>2
<1>6. ASSUME f.request = "discardVideo"
      PROVE  \E m \in Visual!TaskType :
               /\ Visual!Started(f) = {m} /\ m.cur /\ m.kind \in Visual!Kinds(f.request)
               /\ m.kind = "discard" /\ m.step = "request" /\ m.cut = 0
  <2> DEFINE m == [kind |-> "discard", step |-> "request", cut |-> 0, cur |-> TRUE]
  <2>1. Visual!Started(f) = {m}
    BY <1>6 DEF Visual!Started, Visual!Task
  <2>2. m \in Visual!TaskType /\ "discard" \in Visual!Kinds(f.request)
    BY <1>1, <1>2, <1>6 DEF Visual!TaskType, Visual!Kinds
  <2> QED BY <2>1, <2>2
<1>7. ASSUME f.request = "remove"
      PROVE  \E m \in Visual!TaskType :
               /\ Visual!Started(f) = {m} /\ m.cur /\ m.kind \in Visual!Kinds(f.request)
               /\ m.kind = "save" /\ m.step = "remove" /\ m.cut = 0
  <2> DEFINE m == [kind |-> "save", step |-> "remove", cut |-> 0, cur |-> TRUE]
  <2>1. Visual!Started(f) = {m}
    BY <1>7 DEF Visual!Started, Visual!Task
  <2>2. m \in Visual!TaskType /\ "save" \in Visual!Kinds(f.request)
    BY <1>1, <1>2, <1>7 DEF Visual!TaskType, Visual!Kinds
  <2> QED BY <2>1, <2>2
<1>8. ASSUME f.request = "apply"
      PROVE  \E m \in Visual!TaskType :
               /\ Visual!Started(f) = {m} /\ m.cur /\ m.kind \in Visual!Kinds(f.request)
               /\ m.kind = "save" /\ m.step = Visual!SavedBody(x4.candidate)
               /\ m.cut = Visual!Loop
  <2> DEFINE m == [kind |-> "save", step |-> Visual!SavedBody(x4.candidate), cut |-> Visual!Loop, cur |-> TRUE]
  <2>1. Visual!Started(f) = {m}
    BY <1>8 DEF Visual!Started, Visual!Task, Visual!Loop
  <2>2. m \in Visual!TaskType /\ "save" \in Visual!Kinds(f.request)
    BY <1>1, <1>2, <1>8 DEF Visual!TaskType, Visual!Kinds
  <2> QED BY <2>1, <2>2
<1>9. f.request = "" => Visual!Started(f) = {}
  BY DEF Visual!Started
<1>10. ASSUME f.request # ""
      PROVE  \E m \in Visual!TaskType :
               /\ Visual!Started(f) = {m} /\ m.cur /\ m.kind \in Visual!Kinds(f.request)
               /\ m.kind \notin {"file", "upload"}
               /\ m.kind = "prepare" => m.step = "render" /\ m.cut # 0
               /\ m.kind = "stop" => m.step = "join"
               /\ m.kind = "save" => m.step \in Visual!Saves
               /\ m.kind = "save" /\ m.step = "video" => f.request = "apply" /\ m.cut = Visual!Loop
  <2>1. CASE f.request \in {"load", "choose"}
    BY <1>1, <1>3, <2>1
  <2>2. CASE f.request = "prepareLoop"
    BY <1>1, <1>4, <2>2
  <2>3. CASE f.request = "stopPreview"
    BY <1>1, <1>5, <2>3
  <2>4. CASE f.request = "discardVideo"
    BY <1>1, <1>6, <2>4
  <2>5. CASE f.request = "remove"
    BY <1>1, <1>7, <2>5 DEF Visual!Saves
  <2>6. CASE f.request = "apply"
    BY <1>1, <1>2, <1>8, <2>6 DEF Visual!Saves
  <2> QED BY <1>1, <1>10, <2>1, <2>2, <2>3, <2>4, <2>5, <2>6 DEF Visual!Requests
<1> QED BY <1>9, <1>10

\* A task of an earlier operation.
VisualOutdated(t) == [t EXCEPT !.cur = FALSE, !.cut = IF t.kind = "save" THEN 0 ELSE @]

LEMMA VisualOutdatedFacts ==
  ASSUME Visual!TypeOK, NEW t \in x5
  PROVE  /\ VisualOutdated(t) \in Visual!TaskType /\ ~VisualOutdated(t).cur
         /\ VisualOutdated(t).kind = t.kind /\ VisualOutdated(t).step = t.step
         /\ t.kind = "prepare" => VisualOutdated(t).cut = t.cut
<1>1. PICK c \in Visual!Cut \cup {0} : c = IF t.kind = "save" THEN 0 ELSE t.cut
  BY VisualTaskFacts
<1>2. VisualOutdated(t) = [kind |-> t.kind, step |-> t.step, cut |-> c, cur |-> FALSE]
  <2>1. t = [kind |-> t.kind, step |-> t.step, cut |-> t.cut, cur |-> t.cur]
    BY VisualTaskFacts
  <2>2. VisualOutdated(t) = [t EXCEPT !.cur = FALSE, !.cut = c]
    BY <1>1, <2>1 DEF VisualOutdated
  <2> QED BY <2>1, <2>2
<1> QED BY <1>1, <1>2, VisualTaskFacts DEF Visual!TaskType

\* Tasks of the trimmer that are still the last are abandoned or, if a loop, waited for.
LEMMA VisualLeftFacts ==
  ASSUME Visual!IInv, x2 # <<>>, NEW f, f = Head(x2), NEW t \in Visual!Left(f, x5)
  PROVE  /\ t \in x5 /\ t.kind \notin {"stop", "discard"}
         /\ t.kind = "upload" => x7
         /\ t.kind = "prepare" => f.request = "stopPreview" /\ f.open
<1>1. t \in x5
  BY DEF Visual!Left, Visual!Abandon, Visual!Interrupted
<1>2. ASSUME t.kind \in Visual!Trimmer
      PROVE  f.open /\ f.request # "discardVideo"
             /\ (t.kind = "prepare" => f.request # "prepareLoop")
  BY <1>2, VisualHeadFacts DEF Visual!Left, Visual!Abandon, Visual!Interrupted, Visual!Trimmer
<1>3. ASSUME t.kind \in Visual!Trimmer, t.kind # "prepare"
      PROVE  ~t.cur
  <2> SUFFICES ASSUME t.cur PROVE FALSE
    OBVIOUS
  <2>1. Visual!Working /\ x4.open
    BY <1>1 DEF Visual!Working, Visual!IInv, Visual!TasksOK
  <2>2. f.request \notin {"load", "stopPreview"} /\ ~Visual!Fresh(f)
    BY <1>1, <1>2, <1>3, <2>1, VisualHeadFacts
  <2> QED BY <1>2, <1>3, <2>2, VisualHeadFacts DEF Visual!Fresh, Visual!Requests
<1>4. t.kind \notin {"stop", "discard"} /\ (t.kind = "upload" => x7)
  BY <1>1, <1>3 DEF Visual!IInv, Visual!TasksOK, Visual!Trimmer
<1>5. ASSUME t.kind = "prepare" PROVE f.request = "stopPreview" /\ f.open
  <2>1. Visual!Working /\ x4.open
    BY <1>1, <1>5 DEF Visual!Working, Visual!IInv, Visual!TasksOK
  <2>2. f.open /\ f.request \notin {"discardVideo", "prepareLoop", "load"} /\ ~Visual!Fresh(f)
    BY <1>2, <1>5, <2>1, VisualHeadFacts DEF Visual!Trimmer
  <2> QED BY <2>2, VisualHeadFacts DEF Visual!Fresh, Visual!Requests
<1> QED BY <1>1, <1>4, <1>5

\* What is asked for last says of an earlier request that is still on its way.
LEMMA VisualEarlierFacts ==
  ASSUME Visual!IInv, x2 # <<>>, NEW f, f = Head(x2), Visual!Screen
  PROVE  /\ x1.request \notin {"load", "discardVideo"} =>
              \/ f.open /\ f.request = x1.request
              \/ Visual!Plain(f)
              \/ x1.request = "stopPreview" /\ f.request = "prepareLoop"
         /\ f.request = "apply" => x1.request # "discardVideo"
         /\ Len(x2) = 1 => f.open /\ f.request = x1.request
<1> DEFINE n == Len(x2)
<1>1. /\ 1 \in DOMAIN x2 /\ f = x2[1] /\ n \in DOMAIN x2
      /\ n \in Nat /\ n > 0 /\ x2[n].open /\ x2[n].request = x1.request
      /\ x1.request \in Visual!Requests
  <2>1. Visual!TypeOK /\ x1.request \in Visual!Requests /\ x2 \in Seq(Visual!Frame)
    BY DEF Visual!IInv, Visual!TypeOK, Visual!TuiState
  <2>2. x2[n].open /\ x2[n].request = x1.request
    BY DEF Visual!IInv, Visual!FramesOK, Visual!LastOK
  <2>3. 1 \in DOMAIN x2 /\ n \in DOMAIN x2 /\ n \in Nat /\ n > 0
    BY <2>1, VisualFrameFacts
  <2> QED BY <2>1, <2>2, <2>3, VisualTailFacts
<1> HIDE DEF n
<1>2. /\ Visual!BeginsOne(n) /\ Visual!StopsOne(n) /\ Visual!DiscardsOne(n)
  BY <1>1 DEF Visual!IInv, Visual!FramesOK, Visual!QueueOK
<1>3. n = 1 \/ 1 < n
  BY <1>1
<1>4. x1.request = "" => Visual!Plain(f)
  BY <1>1 DEF Visual!IInv, Visual!FramesOK, Visual!LastOK
<1>5. n = 1 => f.open /\ f.request = x1.request
  BY <1>1 DEF n
<1>6. ASSUME 1 < n, x1.request \in {"choose", "apply", "remove", "prepareLoop"}
      PROVE  Visual!Plain(f)
  BY <1>1, <1>2, <1>6 DEF Visual!BeginsOne, Visual!Fresh
<1>7. ASSUME 1 < n, x1.request = "stopPreview"
      PROVE  Visual!Plain(f) \/ f.request = "prepareLoop"
  BY <1>1, <1>2, <1>7 DEF Visual!StopsOne
<1>8. f.request = "apply" => x1.request # "discardVideo"
  BY <1>1, <1>2, <1>3 DEF Visual!DiscardsOne
<1> QED BY <1>1, <1>3, <1>4, <1>5, <1>6, <1>7, <1>8 DEF Visual!Requests, n

LEMMA VisualReceivePreserves ==
  ASSUME Visual!IInv, Visual!Receive
  PROVE  Visual!IInv'
<1> DEFINE f == Head(x2)
           n == Len(x2)
<1>1. /\ x2 # <<>> /\ x2' = Tail(x2)
      /\ UNCHANGED <<x1, x3, x6, x7, x8>>
  BY DEF Visual!Receive
<1>2. /\ x2' \in Seq(Visual!Frame) /\ Len(x2') = n - 1 /\ f = x2[1] /\ f \in Visual!Frame
      /\ \A i \in DOMAIN x2' : i + 1 \in DOMAIN x2 /\ x2'[i] = x2[i + 1]
      /\ \A i \in DOMAIN x2 : i # 1 => i - 1 \in DOMAIN x2' /\ x2'[i - 1] = x2[i]
  BY <1>1, VisualTailFacts DEF Visual!IInv, Visual!TypeOK
<1>3. /\ n \in Nat /\ n > 0 /\ 1 \in DOMAIN x2 /\ n \in DOMAIN x2
      /\ \A i \in DOMAIN x2 : i \in Nat
      /\ \A i \in DOMAIN x2' : i \in Nat /\ i > 0
      /\ x2' = <<>> <=> n = 1
  <2>1. /\ x2' = <<>> <=> Len(x2') = 0
        /\ \A i \in DOMAIN x2' : i \in Nat /\ i > 0
    BY <1>2, VisualSeqFacts
  <2> QED BY <1>1, <1>2, <2>1, VisualFrameFacts DEF Visual!IInv
<1>4. /\ f.open \in BOOLEAN /\ f.request \in Visual!Requests
      /\ Visual!Fresh(f) => ~Visual!Working
      /\ f.request = "choose" => ~x4.picker
      /\ f.open => (f.request = "load" <=> ~x4.open)
      /\ ~f.open => f.request = ""
      /\ Visual!Screen /\ x1.request = "" => Visual!Plain(f)
  BY <1>1, VisualHeadFacts
<1>5. Visual!Screen => /\ x1.request \notin {"load", "discardVideo"} =>
                            \/ f.open /\ f.request = x1.request
                            \/ Visual!Plain(f)
                            \/ x1.request = "stopPreview" /\ f.request = "prepareLoop"
                       /\ f.request = "apply" => x1.request # "discardVideo"
                       /\ n = 1 => f.open /\ f.request = x1.request
  BY <1>1, VisualEarlierFacts
<1>6. /\ x4'.open = f.open /\ x4'.picker = x4.picker
      /\ x4'.choosing <=> f.open /\ f.request = "choose"
      /\ x4'.candidate = IF ~f.open THEN Visual!Blank
                           ELSE IF f.request = "discardVideo" THEN Visual!Close(x4.candidate)
                           ELSE x4.candidate
      /\ x4' \in Visual!Page
  <2> DEFINE c == IF ~f.open THEN Visual!Blank
                  ELSE IF f.request = "discardVideo" THEN Visual!Close(x4.candidate)
                  ELSE x4.candidate
             b == f.open /\ f.request = "choose"
  <2>1. c \in Visual!Candidate /\ b \in BOOLEAN
    BY VisualNoCandidate, VisualCloseFacts, VisualPageFacts DEF Visual!IInv
  <2>2. x4' = [x4 EXCEPT !.open = f.open, !.choosing = b, !.candidate = c]
    BY VisualPageFacts DEF Visual!Receive, Visual!IInv
  <2> HIDE DEF c, b
  <2>3. x4' = [open |-> f.open, picker |-> x4.picker, choosing |-> b,
                 saved |-> x4.saved, broken |-> x4.broken, candidate |-> c]
    BY <2>2, VisualPageFacts DEF Visual!IInv
  <2>4. x4' \in Visual!Page
    BY <1>4, <2>1, <2>3, VisualPageFacts DEF Visual!Page, Visual!IInv
  <2> QED BY <2>3, <2>4 DEF c, b
<1>7. \A u \in x5' :
        \/ /\ u \in Visual!TaskType /\ ~u.cur
           /\ \E t \in x5 : /\ u.kind = t.kind /\ u.step = t.step
                            /\ t.kind = "prepare" => u.cut = t.cut
           /\ u.kind \notin {"stop", "discard"}
           /\ u.kind = "upload" => x7
           /\ u.kind = "prepare" => f.request = "stopPreview" /\ f.open
        \/ f.open /\ u \in Visual!Started(f)
  <2> SUFFICES ASSUME NEW u \in x5', ~(f.open /\ u \in Visual!Started(f))
               PROVE  /\ u \in Visual!TaskType /\ ~u.cur
                      /\ \E t \in x5 : /\ u.kind = t.kind /\ u.step = t.step
                                       /\ t.kind = "prepare" => u.cut = t.cut
                      /\ u.kind \notin {"stop", "discard"}
                      /\ u.kind = "upload" => x7
                      /\ u.kind = "prepare" => f.request = "stopPreview" /\ f.open
    OBVIOUS
  <2>1. PICK t \in Visual!Left(f, x5) : u = VisualOutdated(t)
    BY DEF Visual!Receive, VisualOutdated
  <2>2. /\ t \in x5 /\ t.kind \notin {"stop", "discard"}
        /\ t.kind = "upload" => x7
        /\ t.kind = "prepare" => f.request = "stopPreview" /\ f.open
    BY <1>1, VisualLeftFacts
  <2>3. /\ u \in Visual!TaskType /\ ~u.cur /\ u.kind = t.kind /\ u.step = t.step
        /\ t.kind = "prepare" => u.cut = t.cut
    BY <2>1, <2>2, VisualOutdatedFacts DEF Visual!IInv
  <2> QED BY <2>2, <2>3
<1>8. /\ f.open => Visual!Started(f) \subseteq x5'
      /\ Visual!Started(f) \subseteq Visual!TaskType /\ \A s, u \in Visual!Started(f) : s = u
      /\ \A s \in Visual!Started(f) :
           /\ s.cur /\ s.kind \in Visual!Kinds(f.request) /\ s.kind \notin {"file", "upload"}
           /\ s.kind = "prepare" => s.step = "render" /\ s.cut # 0
           /\ s.kind = "stop" => s.step = "join"
           /\ s.kind = "save" => s.step \in Visual!Saves
           /\ s.kind = "save" /\ s.step = "video" => f.request = "apply" /\ s.cut = Visual!Loop
      /\ f.request = "" <=> Visual!Started(f) = {}
  BY <1>2, VisualStartedFacts DEF Visual!IInv, Visual!Receive
<1> HIDE DEF f, n
<1>9. \A u \in x5' : u.cur => f.open /\ u \in Visual!Started(f) /\ f.request # ""
  BY <1>7, <1>8
<1>10. ~(x4'.picker /\ x4'.choosing) /\ (Visual!Working' <=> f.open /\ f.request # "")
  <2>1. ~(x4'.picker /\ x4'.choosing)
    BY <1>4, <1>6
  <2> QED BY <1>8, <1>9, <2>1 DEF Visual!Working
<1>11. Visual!TypeOK'
  <2>1. x5' \subseteq Visual!TaskType
    BY <1>7, <1>8
  <2> QED BY <1>1, <1>2, <1>6, <2>1 DEF Visual!IInv, Visual!TypeOK
<1>12. Visual!ScreenOK' /\ (Visual!Screen' <=> Visual!Screen)
  BY <1>1 DEF Visual!IInv, Visual!ScreenOK, Visual!Screen
<1>13. Visual!FramesOK'
  <2>1. Visual!QueueOK'
    <3> SUFFICES ASSUME NEW i \in DOMAIN x2'
                 PROVE  Visual!BeginsOne(i)' /\ Visual!StopsOne(i)' /\ Visual!DiscardsOne(i)'
                        /\ Visual!OpensOne(i)'
      BY DEF Visual!QueueOK
    <3>1. /\ i + 1 \in DOMAIN x2 /\ x2'[i] = x2[i + 1] /\ i \in Nat /\ i > 0
          /\ 1 < i + 1
          /\ \A j \in DOMAIN x2' :
               j < i => j + 1 \in DOMAIN x2 /\ j + 1 < i + 1 /\ x2'[j] = x2[j + 1]
      BY <1>2, <1>3
    <3>2. Visual!BeginsOne(i + 1) /\ Visual!StopsOne(i + 1) /\ Visual!DiscardsOne(i + 1)
          /\ Visual!OpensOne(i + 1)
      BY <3>1 DEF Visual!IInv, Visual!FramesOK, Visual!QueueOK
    <3>3. Visual!BeginsOne(i)'
      <4>1. Visual!Fresh(x2[i + 1]) => Visual!Plain(f)
        BY <1>2, <1>3, <3>1, <3>2 DEF Visual!BeginsOne
      <4>2. Visual!Plain(f) => ~Visual!Working'
        BY <1>10 DEF Visual!Plain
      <4> QED BY <1>6, <3>1, <3>2, <4>1, <4>2 DEF Visual!BeginsOne
    <3>4. Visual!StopsOne(i)'
      <4> SUFFICES ASSUME x2[i + 1].request = "stopPreview"
                   PROVE  /\ ~(x4'.picker /\ x4'.choosing)
                          /\ \A t \in x5' : t.cur => t.kind = "prepare"
                          /\ \A j \in DOMAIN x2' :
                               j < i => Visual!Plain(x2'[j]) \/ x2'[j].request = "prepareLoop"
        BY <3>1 DEF Visual!StopsOne
      <4>1. Visual!Plain(f) \/ f.request = "prepareLoop"
        BY <1>2, <1>3, <3>1, <3>2 DEF Visual!StopsOne
      <4>2. \A t \in x5' : t.cur => t.kind = "prepare"
        BY <1>8, <1>9, <4>1 DEF Visual!Plain, Visual!Kinds
      <4> QED BY <1>10, <3>1, <3>2, <4>2 DEF Visual!StopsOne
    <3>5. Visual!DiscardsOne(i)'
      BY <3>1, <3>2 DEF Visual!DiscardsOne
    <3>6. Visual!OpensOne(i)'
      <4>1. Visual!OpenBefore(i)' <=> Visual!OpenBefore(i + 1)
        <5>1. CASE i = 1
          <6>1. i + 1 # 1 /\ (i + 1) - 1 = 1
            BY <5>1
          <6>2. Visual!OpenBefore(i + 1) <=> f.open
            BY <1>2, <6>1 DEF Visual!OpenBefore
          <6> QED BY <1>6, <5>1, <6>2 DEF Visual!OpenBefore
        <5>2. CASE i # 1
          <6>1. (i + 1) - 1 = i /\ i + 1 # 1 /\ x2'[i - 1] = x2[i]
            <7>1. i - 1 \in DOMAIN x2'
              BY <1>2, <3>1, <5>2, VisualSeqFacts
            <7>2. (i - 1) + 1 = i /\ (i + 1) - 1 = i /\ i + 1 # 1
              BY <3>1
            <7> QED BY <1>2, <7>1, <7>2
          <6> QED BY <5>2, <6>1 DEF Visual!OpenBefore
        <5> QED BY <5>1, <5>2
      <4> QED BY <3>1, <3>2, <4>1 DEF Visual!OpensOne
    <3> QED BY <3>3, <3>4, <3>5, <3>6
  <2>2. Visual!LastOK'
    <3>1. ASSUME x2' # <<>>
          PROVE  /\ x2'[Len(x2')].open <=> Visual!Screen'
                 /\ Visual!Screen' => x2'[Len(x2')].request = x1'.request
      <4>1. x2'[Len(x2')] = x2[n]
        BY <1>2, <1>3, <3>1
      <4> QED BY <1>1, <1>12, <4>1 DEF Visual!IInv, Visual!FramesOK, Visual!LastOK, n
    <3>2. ASSUME x2' = <<>>
          PROVE  /\ x4'.open <=> Visual!Screen'
                 /\ Visual!Screen' /\ x1'.request # "" => (x4'.choosing <=> x1'.request = "choose")
      <4>1. f = x2[n] /\ (f.open <=> Visual!Screen)
        BY <1>1, <1>2, <1>3, <3>2 DEF Visual!IInv, Visual!FramesOK, Visual!LastOK, n
      <4> QED BY <1>1, <1>3, <1>5, <1>6, <1>12, <3>2, <4>1
    <3>3. ASSUME Visual!Screen', x1'.request = ""
          PROVE  ~Visual!Working' /\ \A i \in DOMAIN x2' : Visual!Plain(x2'[i])
      <4>1. \A i \in DOMAIN x2 : Visual!Plain(x2[i])
        BY <1>1, <1>12, <3>3 DEF Visual!IInv, Visual!FramesOK, Visual!LastOK
      <4>2. \A i \in DOMAIN x2' : Visual!Plain(x2'[i])
        BY <1>2, <4>1
      <4>3. f.request = ""
        BY <1>2, <1>3, <4>1 DEF Visual!Plain
      <4> QED BY <1>10, <4>2, <4>3
    <3>4. Visual!Current => Visual!Current'
      BY <1>2, <1>3, <1>6 DEF Visual!Current
    <3>5. Visual!Screen' => Visual!Current' \/ x1'.request = "load"
      BY <1>1, <1>12, <3>4 DEF Visual!IInv, Visual!FramesOK, Visual!LastOK
    <3> QED BY <3>1, <3>2, <3>3, <3>5 DEF Visual!LastOK
  <2> QED BY <2>1, <2>2 DEF Visual!FramesOK
<1>14. Visual!TasksOK'
  <2>1. \A t, u \in x5' : t.cur /\ u.cur => t = u
    BY <1>8, <1>9
  <2>2. ~x4'.open => ~x4'.choosing /\ \A t \in x5' : ~t.cur
    BY <1>6, <1>9
  <2>3. ASSUME Visual!Screen', NEW t \in x5', t.cur
        PROVE  t.kind \in Visual!Kinds(x1'.request) \/ Visual!Outlived(t)'
    <3>1. t.kind \in Visual!Kinds(f.request) /\ f.open /\ f.request # ""
      BY <1>8, <1>9, <2>3
    <3>2. CASE f.request = x1.request
      BY <1>1, <3>1, <3>2
    <3>3. CASE f.request # x1.request
      <4>1. x2' # <<>>
        BY <1>3, <1>5, <1>12, <2>3, <3>3
      <4>2. \/ x1.request \in {"load", "discardVideo"}
            \/ x1.request = "stopPreview" /\ f.request = "prepareLoop"
        BY <1>5, <1>12, <2>3, <3>1, <3>3 DEF Visual!Plain
      <4> QED BY <1>1, <3>1, <4>1, <4>2 DEF Visual!Outlived, Visual!Kinds
    <3> QED BY <3>2, <3>3
  <2>4. ASSUME NEW t \in x5'
        PROVE  /\ t.kind \in {"stop", "discard"} => t.cur
               /\ t.kind = "upload" => t.cur \/ x7'
               /\ t.kind = "save" => t.step \in Visual!Saves
               /\ t.kind = "prepare" =>
                    /\ t.cut # 0
                    /\ t.cur \/ \E u \in x5' : u.cur /\ u.kind = "stop" /\ u.step = "join"
    <3>1. CASE f.open /\ t \in Visual!Started(f)
      BY <1>8, <3>1
    <3>2. CASE ~(f.open /\ t \in Visual!Started(f))
      <4>1. ASSUME t.kind = "prepare"
            PROVE  /\ t.cut # 0
                   /\ \E u \in x5' : u.cur /\ u.kind = "stop" /\ u.step = "join"
        <5>1. PICK u \in x5 : u.kind = "prepare" /\ u.cut = t.cut
          BY <1>7, <3>2, <4>1
        <5>2. u.cut # 0
          BY <5>1 DEF Visual!IInv, Visual!TasksOK
        <5>3. f.request = "stopPreview" /\ f.open
          BY <1>7, <3>2, <4>1
        <5> QED BY <1>8, <5>1, <5>2, <5>3 DEF Visual!Kinds
      <4>2. t.kind = "save" => t.step \in Visual!Saves
        BY <1>7, <3>2 DEF Visual!IInv, Visual!TasksOK
      <4> QED BY <1>1, <1>7, <3>2, <4>1, <4>2
    <3> QED BY <3>1, <3>2
  <2> QED BY <1>10, <2>1, <2>2, <2>3, <2>4 DEF Visual!TasksOK
\* No answer is on its way to the operation that is awaited.
<1>15. Visual!Screen /\ x1.request # "" => \A i \in DOMAIN x3 : ~x3[i].live
  BY <1>1 DEF Visual!IInv, Visual!ActsOK
<1>16. Visual!ActsOK'
  <2>1. Visual!Screen /\ x1.request # "" => x2' # <<>> \/ Visual!Working'
    BY <1>3, <1>5, <1>10
  <2> QED BY <1>1, <1>12, <1>15, <2>1 DEF Visual!ActsOK, Visual!Final
<1>17. Visual!AnswersOK'
  BY <1>1, <1>12, <1>15 DEF Visual!AnswersOK
<1>18. Visual!CandidateOK'
  <2>1. /\ Visual!Loop' # 0 => x4'.candidate.local
        /\ x4'.candidate.source => x4'.candidate.local
    BY <1>6, VisualNoCandidate, VisualCloseFacts, VisualPageFacts
       DEF Visual!IInv, Visual!CandidateOK, Visual!Loop
  <2>2. ~x4'.open => Visual!Loop' = 0
    BY <1>6, VisualNoCandidate DEF Visual!Loop
  <2>3. ASSUME NEW t \in x5'
        PROVE  /\ t.kind = "prepare" /\ t.step # "render" => x4'.candidate.local
               /\ ~(t.cur /\ t.kind \in {"file", "upload"})
    <3>1. CASE f.open /\ t \in Visual!Started(f)
      BY <1>8, <3>1
    <3>2. CASE ~(f.open /\ t \in Visual!Started(f))
      <4>1. t.kind = "prepare" => x4'.candidate = x4.candidate
        BY <1>6, <1>7, <3>2
      <4> QED BY <1>7, <3>2, <4>1 DEF Visual!IInv, Visual!CandidateOK
    <3> QED BY <3>1, <3>2
  <2> QED BY <2>1, <2>2, <2>3 DEF Visual!CandidateOK
<1>19. Visual!Screen /\ x1.request # "load" => Visual!Current /\ f.open
  BY <1>2, <1>3 DEF Visual!IInv, Visual!FramesOK, Visual!LastOK, Visual!Current
<1>20. Visual!NewVideoIsHeld'
  <2> SUFFICES ASSUME x1.newVideo, Visual!Screen, ~x7, x1.request # "discardVideo"
               PROVE  Visual!HoldsVideo'
    BY <1>1, <1>12 DEF Visual!NewVideoIsHeld
  <2>1. x1.request # "load" /\ f.open
    BY <1>19 DEF Visual!IInv, Visual!ScreenOK
  <2>2. f.request # "discardVideo"
    BY <1>5, <2>1 DEF Visual!Plain
  <2>3. x1.request = "choose" => ~Visual!Working
    <3>1. x1.request = "choose" => Visual!Fresh(x2[n]) /\ Visual!BeginsOne(n)
      BY <1>1, <1>3
         DEF Visual!IInv, Visual!FramesOK, Visual!QueueOK, Visual!LastOK, Visual!Fresh, n
    <3> QED BY <3>1 DEF Visual!BeginsOne
  <2>4. Visual!HoldsVideo
    BY <1>15, <2>3 DEF Visual!IInv, Visual!NewVideoIsHeld, Visual!Working
  <2>5. x4'.candidate = x4.candidate /\ x1' = x1
    BY <1>1, <1>6, <2>1, <2>2
  <2> QED BY <2>4, <2>5 DEF Visual!HoldsVideo
<1>21. Visual!Loop' # 0 /\ Visual!Current' => Visual!Loop' = Visual!Loop /\ Visual!Current
  <2> SUFFICES ASSUME Visual!Loop' # 0, Visual!Current'
               PROVE  Visual!Loop' = Visual!Loop /\ Visual!Current
    OBVIOUS
  <2>1. Visual!Loop' = Visual!Loop /\ f.open
    BY <1>6, VisualNoCandidate, VisualCloseFacts, VisualPageFacts DEF Visual!IInv, Visual!Loop
  <2>2. x4.open
    BY <2>1 DEF Visual!IInv, Visual!CandidateOK
  <2>3. \A i \in DOMAIN x2 : x2[i].open
    BY <1>2, <2>1 DEF Visual!Current
  <2> QED BY <2>1, <2>2, <2>3 DEF Visual!Current
<1>22. Visual!LoopIsKnown'
  <2> SUFFICES ASSUME ~x8, Visual!Current, Visual!Loop # 0
               PROVE  x1.request \in {"stopPreview", "discardVideo"}
                        \/ (x1.ready /\ x1.accepted = Visual!Loop)
    BY <1>1, <1>21 DEF Visual!LoopIsKnown
  <2>1. Visual!Screen
    BY VisualCurrentIsShown
  <2> QED BY <1>15, <2>1 DEF Visual!IInv, Visual!LoopIsKnown
<1>23. Visual!SavesOK'
  <2> SUFFICES ASSUME NEW t \in x5', t.kind = "save", t.step = "video", t.cur, t.cut # 0,
                      Visual!Current', ~x8
               PROVE  x1.ready /\ x1.accepted = t.cut
    BY <1>1 DEF Visual!SavesOK
  <2>1. f.open /\ f.request = "apply" /\ t.cut = Visual!Loop
    BY <1>8, <1>9
  <2>2. x4.open /\ Visual!Loop # 0
    BY <2>1 DEF Visual!IInv, Visual!CandidateOK
  <2>3. Visual!Current /\ Visual!Screen
    <3>1. \A i \in DOMAIN x2 : x2[i].open
      BY <1>2, <2>1 DEF Visual!Current
    <3> QED BY <2>2, <3>1, VisualCurrentIsShown DEF Visual!Current
  <2>4. x1.request \notin {"stopPreview", "discardVideo"}
    BY <1>5, <2>1, <2>3 DEF Visual!Plain
  <2> QED BY <1>15, <2>1, <2>2, <2>3, <2>4 DEF Visual!IInv, Visual!LoopIsKnown
<1> QED BY <1>11, <1>12, <1>13, <1>14, <1>16, <1>17, <1>18, <1>20, <1>22, <1>23 DEF Visual!IInv

-----------------------------------------------------------------------------
(* The x5 of the x4.                                                   *)

\* What the page works on belongs to the operation that is awaited, unless what ends it is
\* on its way; then no answer to that operation is.
LEMMA VisualCurFacts ==
  ASSUME Visual!IInv, NEW t \in x5, t.cur
  PROVE  /\ Visual!Working /\ x4.open /\ ~(x4.picker /\ x4.choosing)
         /\ \A u \in x5 : u.cur => u = t
         /\ x2 = <<>> => Visual!Screen
         /\ Visual!Screen =>
              /\ x1.request # ""
              /\ x2 = <<>> => t.kind \in Visual!Kinds(x1.request)
              /\ x2 # <<>> => \/ x1.request \in {"load", "discardVideo"}
                              \/ x1.request = "stopPreview" /\ t.kind = "prepare"
              /\ \A i \in DOMAIN x3 : x3[i].live => x3[i].act \in {"checking", "cancelled"}
              /\ \A i \in DOMAIN x3 : ~Visual!Final(i)
<1>1. Visual!Working
  BY DEF Visual!Working
<1>2. x4.open /\ ~(x4.picker /\ x4.choosing) /\ \A u \in x5 : u.cur => u = t
  BY DEF Visual!IInv, Visual!TasksOK
<1>3. Visual!Screen => x1.request # ""
  BY <1>1 DEF Visual!IInv, Visual!FramesOK, Visual!LastOK
<1>4. x2 = <<>> => Visual!Screen
  BY <1>2 DEF Visual!IInv, Visual!FramesOK, Visual!LastOK
<1>5. Visual!Screen /\ x2 = <<>> => t.kind \in Visual!Kinds(x1.request)
  BY DEF Visual!IInv, Visual!TasksOK, Visual!Outlived
<1>6. ASSUME Visual!Screen, x2 # <<>>
      PROVE  \/ x1.request \in {"load", "discardVideo"}
             \/ x1.request = "stopPreview" /\ t.kind = "prepare"
  <2> DEFINE n == Len(x2)
  <2>1. /\ n \in DOMAIN x2 /\ x2[n].open /\ x2[n].request = x1.request
        /\ x1.request \in Visual!Requests
    BY <1>6, VisualFrameFacts
       DEF Visual!IInv, Visual!TypeOK, Visual!TuiState, Visual!FramesOK, Visual!LastOK
  <2> HIDE DEF n
  <2>2. Visual!BeginsOne(n) /\ Visual!StopsOne(n)
    BY <2>1 DEF Visual!IInv, Visual!FramesOK, Visual!QueueOK
  <2>3. ~Visual!Fresh(x2[n])
    BY <1>1, <2>2 DEF Visual!BeginsOne
  <2>4. x1.request = "stopPreview" => t.kind = "prepare"
    BY <2>1, <2>2 DEF Visual!StopsOne
  <2> QED BY <2>1, <2>3, <2>4 DEF Visual!Fresh, Visual!Requests
<1>7. Visual!Screen => \A i \in DOMAIN x3 : ~Visual!Final(i)
  BY <1>1, <1>3 DEF Visual!IInv, Visual!ActsOK
<1>8. Visual!Screen => \A i \in DOMAIN x3 : x3[i].live => x3[i].act \in {"checking", "cancelled"}
  BY <1>3, <1>7 DEF Visual!IInv, Visual!ActsOK, Visual!Final
<1> QED BY <1>1, <1>2, <1>3, <1>4, <1>5, <1>6, <1>7, <1>8

\* An opening that is on its way starts from a closed page.
LEMMA VisualCurrentIsNotLoading ==
  ASSUME Visual!IInv, Visual!Current, x2 # <<>>
  PROVE  Visual!Screen /\ x1.request # "load"
<1> DEFINE n == Len(x2)
<1>1. Visual!Screen
  BY VisualCurrentIsShown
<1>2. n \in DOMAIN x2 /\ x2[n].open /\ x2[n].request = x1.request /\ n \in Nat
  BY <1>1, VisualFrameFacts DEF Visual!IInv, Visual!FramesOK, Visual!LastOK
<1>3. n # 1 => n - 1 \in DOMAIN x2
  BY <1>2, VisualFrameFacts DEF Visual!IInv
<1> HIDE DEF n
<1>4. Visual!OpenBefore(n)
  BY <1>3 DEF Visual!OpenBefore, Visual!Current
<1> QED BY <1>1, <1>2, <1>4 DEF Visual!IInv, Visual!FramesOK, Visual!QueueOK, Visual!OpensOne

\* The task t goes on as m, or it ends: then m is t, and is not there.
VisualFollows(t, m) ==
  /\ m \in Visual!TaskType /\ (m.cur <=> t.cur)
  /\ m.kind = t.kind \/ (t.kind = "file" /\ m.kind = "upload" /\ (t.cur \/ x7'))
  /\ m.kind = "prepare" => m.cut = t.cut
  /\ m.kind = "save" => m = t \/ m.step = "stored"

VisualStepOf(t, m) ==
  /\ UNCHANGED <<x1, x2>>
  /\ x4'.open = x4.open /\ x4'.choosing = x4.choosing
  /\ x5' \subseteq (x5 \ {t}) \cup {m} /\ VisualFollows(t, m)
  /\ x7 => x7'
  /\ x8 => x8'
  /\ x4'.picker => x4.picker \/ (t.cur /\ t.kind = "choose" /\ x5' \subseteq x5 \ {t})
  /\ x4.picker => x4'.picker
  /\ \/ \A u \in x5' : u.kind # "prepare"
     \/ \A u \in x5 : u.kind = "stop" /\ u.step = "join" => u \in x5'

\* What holds after such a step, whatever it does to the candidate and answers.
LEMMA VisualStepKeeps ==
  ASSUME Visual!IInv, NEW t \in x5, NEW m, VisualStepOf(t, m)
  PROVE  /\ Visual!FramesOK' /\ Visual!ScreenOK' /\ Visual!TasksOK' /\ Visual!SavesOK'
         /\ Visual!Screen' <=> Visual!Screen
         /\ Visual!Current' <=> Visual!Current
         /\ Visual!Working' => Visual!Working
<1>1. /\ x1' = x1 /\ x2' = x2 /\ x4'.open = x4.open /\ x4'.choosing = x4.choosing
      /\ \A u \in x5' : (u \in x5 /\ u # t) \/ u = m
      /\ m \in Visual!TaskType /\ (m.cur <=> t.cur)
      /\ m.kind = t.kind \/ (t.kind = "file" /\ m.kind = "upload" /\ (t.cur \/ x7'))
      /\ m.kind = "prepare" => m.cut = t.cut
      /\ m.kind = "save" => m = t \/ m.step = "stored"
      /\ x7 => x7'
      /\ x8 => x8'
  BY DEF VisualStepOf, VisualFollows
<1>2. x4'.picker => x4.picker \/ (t.cur /\ t.kind = "choose" /\ x5' \subseteq x5 \ {t})
  BY DEF VisualStepOf
<1>3. Visual!ScreenOK' /\ (Visual!Screen' <=> Visual!Screen)
      /\ (Visual!Current' <=> Visual!Current)
  BY <1>1 DEF Visual!IInv, Visual!ScreenOK, Visual!Screen, Visual!Current
<1>4. Visual!Working' => Visual!Working
  BY <1>1, <1>2 DEF Visual!Working
<1>5. Visual!FramesOK'
  <2>1. ASSUME NEW i \in DOMAIN x2
        PROVE  Visual!BeginsOne(i)' /\ Visual!StopsOne(i)' /\ Visual!DiscardsOne(i)'
               /\ Visual!OpensOne(i)'
    <3>1. Visual!BeginsOne(i) /\ Visual!StopsOne(i) /\ Visual!DiscardsOne(i) /\ Visual!OpensOne(i)
      BY DEF Visual!IInv, Visual!FramesOK, Visual!QueueOK
    <3>2. Visual!BeginsOne(i)'
      <4>1. x2[i].request = "choose" => Visual!Fresh(x2[i])
        BY <3>1, VisualFrameFacts DEF Visual!Fresh, Visual!OpensOne, Visual!IInv
      <4>2. Visual!Fresh(x2[i]) => ~Visual!Working /\ ~t.cur
        BY <3>1 DEF Visual!BeginsOne, Visual!Working
      <4> QED BY <1>1, <1>2, <1>4, <3>1, <4>1, <4>2 DEF Visual!BeginsOne
    <3>3. Visual!StopsOne(i)'
      <4> SUFFICES ASSUME x2[i].request = "stopPreview"
                   PROVE  /\ ~(x4'.picker /\ x4'.choosing)
                          /\ \A u \in x5' : u.cur => u.kind = "prepare"
                          /\ \A j \in DOMAIN x2 :
                               j < i => Visual!Plain(x2[j]) \/ x2[j].request = "prepareLoop"
        BY <1>1 DEF Visual!StopsOne
      <4>1. /\ ~(x4.picker /\ x4.choosing) /\ \A u \in x5 : u.cur => u.kind = "prepare"
            /\ \A j \in DOMAIN x2 :
                 j < i => Visual!Plain(x2[j]) \/ x2[j].request = "prepareLoop"
        BY <3>1 DEF Visual!StopsOne
      <4>2. \A u \in x5' : u.cur => u.kind = "prepare"
        BY <1>1, <4>1
      <4>3. ~(t.cur /\ t.kind = "choose")
        BY <4>1
      <4> QED BY <1>1, <1>2, <4>1, <4>2, <4>3
    <3>4. Visual!DiscardsOne(i)'
      BY <1>1, <3>1 DEF Visual!DiscardsOne
    <3>5. Visual!OpensOne(i)'
      BY <1>1, <3>1 DEF Visual!OpensOne, Visual!OpenBefore
    <3> QED BY <3>2, <3>3, <3>4, <3>5
  <2>2. Visual!LastOK'
    BY <1>1, <1>3, <1>4 DEF Visual!IInv, Visual!FramesOK, Visual!LastOK
  <2> QED BY <1>1, <2>1, <2>2 DEF Visual!FramesOK, Visual!QueueOK
<1>6. Visual!TasksOK'
  <2>1. \A u, v \in x5' : u.cur /\ v.cur => u = v
    BY <1>1 DEF Visual!IInv, Visual!TasksOK
  <2>2. x4'.picker /\ x4'.choosing => \A u \in x5' : ~u.cur
    BY <1>1, <1>2 DEF Visual!IInv, Visual!TasksOK
  <2>3. ~x4'.open => ~x4'.choosing /\ \A u \in x5' : ~u.cur
    BY <1>1 DEF Visual!IInv, Visual!TasksOK
  <2>4. Visual!Screen' => \A u \in x5' : u.cur => u.kind \in Visual!Kinds(x1'.request) \/ Visual!Outlived(u)'
    <3> SUFFICES ASSUME Visual!Screen, NEW u \in x5', u.cur, ~Visual!Outlived(u)'
                 PROVE  u.kind \in Visual!Kinds(x1.request)
      BY <1>1, <1>3
    <3>1. ASSUME u \in x5 PROVE u.kind \in Visual!Kinds(x1.request)
      BY <1>1, <3>1 DEF Visual!IInv, Visual!TasksOK, Visual!Outlived
    <3>2. ASSUME u = m, m.kind = t.kind PROVE u.kind \in Visual!Kinds(x1.request)
      BY <1>1, <3>2 DEF Visual!IInv, Visual!TasksOK, Visual!Outlived
    <3>3. ASSUME u = m, t.kind = "file",
                 m.kind = "upload" PROVE u.kind \in Visual!Kinds(x1.request)
      <4>1. t.kind \in Visual!Kinds(x1.request) \/ Visual!Outlived(t)
        BY <1>1, <3>3 DEF Visual!IInv, Visual!TasksOK
      <4>2. t.kind \in Visual!Kinds(x1.request)
        BY <1>1, <3>3, <4>1 DEF Visual!Outlived
      <4>3. x1.request = "choose"
        BY <3>3, <4>2 DEF Visual!Kinds
      <4> QED BY <3>3, <4>3 DEF Visual!Kinds
    <3> QED BY <1>1, <3>1, <3>2, <3>3
  <2>5. ASSUME NEW u \in x5'
        PROVE  /\ u.kind \in {"stop", "discard"} => u.cur
               /\ u.kind = "upload" => u.cur \/ x7'
               /\ u.kind = "save" => u.step \in Visual!Saves
    BY <1>1 DEF Visual!IInv, Visual!TasksOK, Visual!Saves
  <2>6. ASSUME NEW u \in x5', u.kind = "prepare"
        PROVE  /\ u.cut # 0
               /\ u.cur \/ \E v \in x5' : v.cur /\ v.kind = "stop" /\ v.step = "join"
    <3>1. PICK w \in x5 : w.kind = "prepare" /\ w.cut = u.cut /\ (w.cur <=> u.cur)
      BY <1>1, <2>6
    <3>2. /\ w.cut # 0
          /\ w.cur \/ \E v \in x5 : v.cur /\ v.kind = "stop" /\ v.step = "join"
      BY <3>1 DEF Visual!IInv, Visual!TasksOK
    <3>3. \A v \in x5 : v.kind = "stop" /\ v.step = "join" => v \in x5'
      BY <2>6 DEF VisualStepOf
    <3> QED BY <3>1, <3>2, <3>3
  <2> QED BY <2>1, <2>2, <2>3, <2>4, <2>5, <2>6 DEF Visual!TasksOK
<1>7. Visual!SavesOK'
  BY <1>1, <1>3 DEF Visual!IInv, Visual!SavesOK
<1> QED BY <1>3, <1>4, <1>5, <1>6, <1>7

\* What holds of the candidate after a step that answers nothing.
VisualCandidateGoesOn(t) ==
  \/ x4'.candidate = x4.candidate
  \/ x7' /\ Visual!Loop' \in {0, Visual!Loop}
  \/ t.cur /\ t.kind = "file" /\ Visual!Loop' \in {0, Visual!Loop}
  \/ /\ ~t.cur /\ t.kind = "prepare" /\ Visual!Loop' # 0
     /\ x4'.candidate.source = x4.candidate.source
     /\ x4'.candidate.kind = x4.candidate.kind

LEMMA VisualQuietStep ==
  ASSUME Visual!IInv, Visual!TypeOK', Visual!CandidateOK', NEW t \in x5, NEW m,
         VisualStepOf(t, m), x3' = x3,
         VisualCandidateGoesOn(t),
         x7' \/ \A u \in x5 : u.cur /\ u # t => u \in x5',
         t.cur => x2 # <<>> \/ m \in x5' \/ (x4'.picker /\ x4'.choosing),
         t.cur /\ t.kind \in {"file", "upload"} => m \in x5'
  PROVE  Visual!IInv'
<1>1. /\ Visual!FramesOK' /\ Visual!ScreenOK' /\ Visual!TasksOK' /\ Visual!SavesOK'
      /\ (Visual!Screen' <=> Visual!Screen)
      /\ Visual!Current' <=> Visual!Current
      /\ Visual!Working' => Visual!Working
  BY VisualStepKeeps
<1>2. /\ x1' = x1 /\ x2' = x2 /\ x3' = x3 /\ x4'.choosing = x4.choosing
      /\ x7 => x7'
      /\ x8 => x8'
      /\ x4.picker => x4'.picker
      /\ (m.cur <=> t.cur) /\ (t.kind \in {"file", "upload"} => m.kind \in {"file", "upload"})
  BY DEF VisualStepOf, VisualFollows
<1>3. ASSUME NEW u \in x5, u.cur, ~x7', x2 = <<>>
      PROVE  Visual!Working'
  <2>1. CASE u # t
    BY <1>3, <2>1 DEF Visual!Working
  <2>2. CASE u = t
    BY <1>2, <1>3, <2>2 DEF Visual!Working
  <2> QED BY <2>1, <2>2
<1>4. Visual!ActsOK'
  <2> SUFFICES ASSUME Visual!Screen, x1.request # ""
               PROVE  /\ \A i \in DOMAIN x3 : Visual!Final(i) => ~Visual!Working'
                      /\ ~x7' =>
                           x2 # <<>> \/ Visual!Working' \/ \E i \in DOMAIN x3 : Visual!Final(i)
    BY <1>1, <1>2 DEF Visual!IInv, Visual!ActsOK, Visual!Final
  <2>1. \A i \in DOMAIN x3 : Visual!Final(i) => ~Visual!Working'
    BY <1>1 DEF Visual!IInv, Visual!ActsOK
  <2>2. ASSUME ~x7', x2 = <<>>, Visual!Working PROVE Visual!Working'
    BY <1>2, <1>3, <2>2 DEF Visual!Working
  <2> QED BY <1>2, <2>1, <2>2 DEF Visual!IInv, Visual!ActsOK
\* A loop that is accepted while its task is not the last is waited for by Stop.
<1>5. ASSUME ~t.cur, t.kind = "prepare"
      PROVE  \E u \in x5 : u.cur /\ u.kind = "stop"
  BY <1>5 DEF Visual!IInv, Visual!TasksOK
<1>6. Visual!AnswersOK'
  <2> SUFFICES ASSUME Visual!Screen, x1.request # "", NEW i \in DOMAIN x3, x3[i].live,
                      x3[i].act \notin {"checking", "cancelled"}
               PROVE  /\ x3[i].act \in {"sourceSelected", "selected", "warning", "discarded"}
                           => Visual!Loop' = 0
                      /\ x3[i].act = "failed" /\ x1.request = "choose" => Visual!Loop' = 0 \/ x8'
                      /\ x3[i].act = "failed" /\ x1.request = "stopPreview" => x8'
                      /\ x3[i].act = "loopReady" => x3[i].cut # 0 /\ Visual!KnownLoop(x3[i])'
                      /\ x3[i].act = "previewStopped" => Visual!KnownLoop(x3[i])'
                      /\ x3[i].act = "sourceSelected" /\ ~x7' =>
                           x4'.candidate.source /\ x4'.candidate.kind = "video"
    BY <1>1, <1>2 DEF Visual!AnswersOK
  <2>1. /\ x3[i].act \in {"sourceSelected", "selected", "warning", "discarded"} => Visual!Loop = 0
        /\ x3[i].act = "failed" /\ x1.request = "choose" => Visual!Loop = 0 \/ x8
        /\ x3[i].act = "failed" /\ x1.request = "stopPreview" => x8
        /\ x3[i].act = "loopReady" => x3[i].cut # 0 /\ Visual!KnownLoop(x3[i])
        /\ x3[i].act = "previewStopped" => Visual!KnownLoop(x3[i])
        /\ x3[i].act = "sourceSelected" /\ ~x7 =>
             x4.candidate.source /\ x4.candidate.kind = "video"
    BY DEF Visual!IInv, Visual!AnswersOK
  <2>2. \A u \in x5 : ~u.cur
    BY VisualCurFacts
  <2>3. x4'.candidate = x4.candidate \/ (x7' /\ Visual!Loop' \in {0, Visual!Loop})
    BY <1>5, <2>2 DEF VisualCandidateGoesOn
  <2>4. CASE x4'.candidate = x4.candidate
    BY <1>2, <2>1, <2>4 DEF Visual!KnownLoop, Visual!Loop
  <2>5. CASE x7' /\ Visual!Loop' \in {0, Visual!Loop}
    <3>1. Visual!Loop' = 0 \/ Visual!Loop' = Visual!Loop
      BY <2>5
    <3>2. Visual!KnownLoop(x3[i]) => Visual!KnownLoop(x3[i])'
      BY <1>2, <2>5, <3>1 DEF Visual!KnownLoop
    <3> QED BY <1>2, <2>1, <2>5, <3>1, <3>2
  <2> QED BY <2>3, <2>4, <2>5
<1>7. Visual!NewVideoIsHeld'
  <2> SUFFICES ASSUME x1.newVideo, Visual!Screen, ~x7', x1.request # "discardVideo"
               PROVE  \/ Visual!HoldsVideo'
                      \/ /\ x1.request \in {"apply", "remove"}
                         /\ \E i \in DOMAIN x3 : x3[i].live /\ x3[i].act = "warning"
                      \/ /\ x1.request = "choose"
                         /\ \/ \E u \in x5' : u.cur /\ u.kind \in {"file", "upload"}
                            \/ \E i \in DOMAIN x3 :
                                 x3[i].live
                                   /\ x3[i].act \in {"selected", "sourceSelected", "failed"}
    BY <1>1, <1>2 DEF Visual!NewVideoIsHeld
  <2>1. x1.request # "load" /\ ~x7
    BY <1>2 DEF Visual!IInv, Visual!ScreenOK
  <2>2. ASSUME NEW u \in x5, u.cur, u.kind \in {"file", "upload"}, x1.request = "choose"
        PROVE  \E v \in x5' : v.cur /\ v.kind \in {"file", "upload"}
    BY <1>2, <2>2
  <2>3. ASSUME Visual!HoldsVideo, x4'.candidate # x4.candidate, t.cur, t.kind = "file"
        PROVE  x1.request = "choose" /\ m \in x5' /\ m.cur /\ m.kind \in {"file", "upload"}
    <3>1. x1.request = "choose"
      BY <2>1, <2>3, VisualCurFacts DEF Visual!Kinds
    <3> QED BY <1>2, <2>3, <3>1
  <2>4. Visual!HoldsVideo /\ x4'.candidate = x4.candidate => Visual!HoldsVideo'
    BY <1>2 DEF Visual!HoldsVideo
  <2>5. ASSUME Visual!HoldsVideo, Visual!Loop' # 0, x4'.candidate.source = x4.candidate.source,
               x4'.candidate.kind = x4.candidate.kind
        PROVE  Visual!HoldsVideo'
    BY <1>2, <2>5 DEF Visual!HoldsVideo, Visual!Loop
  <2> QED BY <2>1, <2>2, <2>3, <2>4, <2>5
             DEF Visual!IInv, Visual!NewVideoIsHeld, VisualCandidateGoesOn
<1>8. Visual!LoopIsKnown'
  <2> SUFFICES ASSUME ~x8', Visual!Current, Visual!Loop' # 0
               PROVE  \/ x1.request \in {"stopPreview", "discardVideo"}
                      \/ x1.ready /\ x1.accepted = Visual!Loop'
                      \/ /\ x1.request = "prepareLoop"
                         /\ \E i \in DOMAIN x3 :
                              x3[i].live /\ x3[i].act = "loopReady" /\ x3[i].cut = Visual!Loop'
    BY <1>1, <1>2 DEF Visual!LoopIsKnown
  <2>1. CASE Visual!Loop' = Visual!Loop
    BY <1>2, <2>1 DEF Visual!IInv, Visual!LoopIsKnown
  <2>2. CASE ~t.cur /\ t.kind = "prepare"
    <3>1. PICK u \in x5 : u.cur /\ u.kind = "stop"
      BY <1>5, <2>2
    <3>2. Visual!Screen
      BY VisualCurrentIsShown
    <3>3. x2 # <<>> => x1.request # "load"
      BY VisualCurrentIsNotLoading
    <3> QED BY <3>1, <3>2, <3>3, VisualCurFacts DEF Visual!Kinds
  <2>3. Visual!Loop' = Visual!Loop \/ (~t.cur /\ t.kind = "prepare")
    BY DEF VisualCandidateGoesOn, Visual!Loop
  <2> QED BY <2>1, <2>2, <2>3
<1> QED BY <1>1, <1>4, <1>6, <1>7, <1>8 DEF Visual!IInv

\* What a task may say.
VisualSays(t, action) ==
  \/ action = "checking" /\ t.kind = "file"
  \/ action = "selected" /\ t.kind = "file"
  \/ action = "sourceSelected" /\ t.kind = "upload"
  \/ action = "loopReady" /\ t.kind = "prepare"
  \/ action = "previewStopped" /\ t.kind = "stop"
  \/ action = "discarded" /\ t.kind = "discard"
  \/ action = "loaded" /\ t.kind = "load"
  \/ action \in {"saved", "warning", "unconfirmed"} /\ t.kind = "save"
  \/ action = "failed" /\ t.kind # "discard"

\* What it says of the candidate.
VisualSaysWell(t, action, cut) ==
  /\ action \in {"sourceSelected", "selected", "warning", "discarded"} => Visual!Loop' = 0
  /\ action = "failed" /\ t.kind \in {"choose", "file", "upload"} => Visual!Loop' = 0 \/ x8'
  /\ action = "failed" /\ t.kind = "stop" => x8'
  /\ action = "loopReady" => cut # 0 /\ cut = Visual!Loop'
  /\ action = "previewStopped" => cut = Visual!Loop'
  /\ action = "sourceSelected" => x4'.candidate.source /\ x4'.candidate.kind = "video"

LEMMA VisualSaysFacts ==
  ASSUME NEW t \in Visual!TaskType, NEW action, VisualSays(t, action),
             x1.request \in Visual!Requests,
         t.kind \in Visual!Kinds(x1.request)
  PROVE  /\ action # "checking" => action \in Visual!Finals(x1.request)
         /\ action = "checking" => x1.request = "choose" /\ action \notin Visual!Finals(x1.request)
         /\ x1.request = "choose" => t.kind \in {"choose", "file", "upload"}
         /\ x1.request = "stopPreview" => t.kind = "stop"
         /\ x1.request = "prepareLoop" => t.kind = "prepare"
         /\ x1.request \in {"apply", "remove"} <=> t.kind = "save"
         /\ t.kind \in {"file", "upload"} => x1.request = "choose"
         /\ t.kind = "discard" => x1.request = "discardVideo"
         /\ t.kind = "prepare" => x1.request = "prepareLoop"
  BY DEF VisualSays, Visual!Kinds, Visual!Finals, Visual!Requests

LEMMA VisualReplyStep ==
  ASSUME Visual!IInv, Visual!TypeOK', Visual!CandidateOK', NEW t \in x5, t.cur, NEW m,
         VisualStepOf(t, m),
         NEW a \in Visual!Act, x3' = Append(x3, a), a.live <=> x2 = <<>>,
         x4'.picker => x4.picker, VisualSays(t, a.act), VisualSaysWell(t, a.act, a.cut),
         IF a.act = "checking" THEN m \in x5' ELSE x5' \subseteq x5 \ {t},
         \/ x4'.candidate = x4.candidate
         \/ t.kind \in {"file", "upload", "discard"} /\ Visual!Loop' = 0
         \/ t.kind = "save" /\ a.act = "warning" /\ Visual!Loop' = 0
         \/ /\ t.kind = "prepare" /\ a.act = "loopReady"
            /\ x4'.candidate.source = x4.candidate.source
            /\ x4'.candidate.kind = x4.candidate.kind
  PROVE  Visual!IInv'
<1>n. PICK n : n = Len(x3) + 1
  OBVIOUS
<1>1. /\ Visual!FramesOK' /\ Visual!ScreenOK' /\ Visual!TasksOK' /\ Visual!SavesOK'
      /\ (Visual!Screen' <=> Visual!Screen)
      /\ Visual!Current' <=> Visual!Current
      /\ Visual!Working' => Visual!Working
  BY VisualStepKeeps
<1>2. /\ x1' = x1 /\ x2' = x2 /\ x4'.choosing = x4.choosing
      /\ x7 => x7'
      /\ x8 => x8'
      /\ (m.cur <=> t.cur) /\ (t.kind \in {"file", "upload"} => m.kind \in {"file", "upload"})
      /\ x5' \subseteq (x5 \ {t}) \cup {m}
  BY DEF VisualStepOf, VisualFollows
<1>3. /\ n \in DOMAIN x3' /\ x3'[n] = a /\ DOMAIN x3' = DOMAIN x3 \cup {n}
      /\ n \notin DOMAIN x3 /\ \A i \in DOMAIN x3 : x3'[i] = x3[i]
  <2>1. x3 \in Seq(Visual!Act)
    BY DEF Visual!IInv, Visual!TypeOK
  <2> QED BY <1>n, <2>1, VisualAppendFacts
<1>4. /\ Visual!Working /\ x4.open /\ ~(x4.picker /\ x4.choosing)
      /\ \A u \in x5 : u.cur => u = t
      /\ x2 = <<>> => Visual!Screen
      /\ Visual!Screen =>
           /\ x1.request # ""
           /\ x2 = <<>> => t.kind \in Visual!Kinds(x1.request)
           /\ x2 # <<>> => \/ x1.request \in {"load", "discardVideo"}
                           \/ x1.request = "stopPreview" /\ t.kind = "prepare"
           /\ \A i \in DOMAIN x3 : x3[i].live => x3[i].act \in {"checking", "cancelled"}
           /\ \A i \in DOMAIN x3 : ~Visual!Final(i)
  BY VisualCurFacts
<1>5. t \in Visual!TaskType /\ x1.request \in Visual!Requests
  BY DEF Visual!IInv, Visual!TypeOK, Visual!TuiState
<1>6. x2 = <<>> =>
        /\ a.act # "checking" => a.act \in Visual!Finals(x1.request)
        /\ a.act = "checking" => x1.request = "choose" /\ a.act \notin Visual!Finals(x1.request)
        /\ x1.request = "choose" => t.kind \in {"choose", "file", "upload"}
        /\ x1.request = "stopPreview" => t.kind = "stop"
        /\ x1.request = "prepareLoop" => t.kind = "prepare"
        /\ x1.request \in {"apply", "remove"} <=> t.kind = "save"
        /\ t.kind \in {"file", "upload"} => x1.request = "choose"
        /\ t.kind = "discard" => x1.request = "discardVideo"
        /\ t.kind = "prepare" => x1.request = "prepareLoop"
  BY <1>4, <1>5, VisualSaysFacts
<1>7. a.act # "checking" => ~Visual!Working'
  BY <1>2, <1>4 DEF Visual!Working
<1>8. a.act = "checking" => m \in x5' /\ Visual!Working'
  BY <1>2 DEF Visual!Working
<1>9. Visual!Screen => \A i \in DOMAIN x3' : Visual!Final(i)' => i = n /\ a.act # "checking" /\ a.live
  <2> SUFFICES ASSUME Visual!Screen, NEW i \in DOMAIN x3', Visual!Final(i)'
               PROVE  i = n /\ a.act # "checking" /\ a.live
    OBVIOUS
  <2>1. i = n
    BY <1>2, <1>3, <1>4 DEF Visual!Final
  <2>2. a.live /\ a.act \in Visual!Finals(x1.request)
    BY <1>2, <1>3, <2>1 DEF Visual!Final
  <2> QED BY <1>6, <2>1, <2>2
<1>10. Visual!Screen /\ x2 = <<>> /\ a.act # "checking" => Visual!Final(n)'
  BY <1>2, <1>3, <1>6 DEF Visual!Final
<1>11. Visual!ActsOK'
  <2> SUFFICES ASSUME Visual!Screen, x1.request # ""
               PROVE  /\ \A i \in DOMAIN x3' : x3'[i].live =>
                           /\ x2 = <<>>
                           /\ \/ x3'[i].act \in Visual!Finals(x1.request)
                              \/ x3'[i].act = "checking" /\ x1.request = "choose"
                              \/ x3'[i].act = "cancelled" /\ x1.request # "choose"
                      /\ \A i, j \in DOMAIN x3' : Visual!Final(i)' /\ Visual!Final(j)' => i = j
                      /\ \A i \in DOMAIN x3' : Visual!Final(i)' => ~Visual!Working'
                      /\ x2 # <<>> \/ Visual!Working' \/ \E i \in DOMAIN x3' : Visual!Final(i)'
    BY <1>1, <1>2 DEF Visual!ActsOK
  <2>1. ASSUME NEW i \in DOMAIN x3', x3'[i].live
        PROVE  /\ x2 = <<>>
               /\ \/ x3'[i].act \in Visual!Finals(x1.request)
                  \/ x3'[i].act = "checking" /\ x1.request = "choose"
                  \/ x3'[i].act = "cancelled" /\ x1.request # "choose"
    <3>1. CASE i \in DOMAIN x3
      BY <1>3, <2>1, <3>1 DEF Visual!IInv, Visual!ActsOK
    <3>2. CASE i = n
      BY <1>3, <1>6, <2>1, <3>2
    <3> QED BY <1>3, <3>1, <3>2
  <2>2. \A i, j \in DOMAIN x3' : Visual!Final(i)' /\ Visual!Final(j)' => i = j
    BY <1>9
  <2>3. \A i \in DOMAIN x3' : Visual!Final(i)' => ~Visual!Working'
    BY <1>7, <1>9
  <2>4. x2 # <<>> \/ Visual!Working' \/ \E i \in DOMAIN x3' : Visual!Final(i)'
    BY <1>3, <1>8, <1>10
  <2> QED BY <2>1, <2>2, <2>3, <2>4
<1>12. Visual!AnswersOK'
  <2> SUFFICES ASSUME Visual!Screen, x1.request # "", NEW i \in DOMAIN x3', x3'[i].live,
                      x3'[i].act \notin {"checking", "cancelled"}
               PROVE  /\ x3'[i].act \in {"sourceSelected", "selected", "warning", "discarded"}
                           => Visual!Loop' = 0
                      /\ x3'[i].act = "failed" /\ x1.request = "choose" => Visual!Loop' = 0 \/ x8'
                      /\ x3'[i].act = "failed" /\ x1.request = "stopPreview" => x8'
                      /\ x3'[i].act = "loopReady" => x3'[i].cut # 0 /\ Visual!KnownLoop(x3[i])'
                      /\ x3'[i].act = "previewStopped" => Visual!KnownLoop(x3[i])'
                      /\ x3'[i].act = "sourceSelected" /\ ~x7' =>
                           x4'.candidate.source /\ x4'.candidate.kind = "video"
    BY <1>1, <1>2 DEF Visual!AnswersOK
  <2>1. x3'[i] = a /\ a.live
    BY <1>3, <1>4
  <2>2. a.cut = Visual!Loop' => Visual!KnownLoop(x3[i])'
    BY <2>1 DEF Visual!KnownLoop
  <2> QED BY <1>6, <2>1, <2>2 DEF VisualSaysWell
<1>13. Visual!NewVideoIsHeld'
  <2> SUFFICES ASSUME x1.newVideo, Visual!Screen, ~x7', x1.request # "discardVideo"
               PROVE  \/ Visual!HoldsVideo'
                      \/ /\ x1.request \in {"apply", "remove"}
                         /\ \E i \in DOMAIN x3' : x3'[i].live /\ x3'[i].act = "warning"
                      \/ /\ x1.request = "choose"
                         /\ \/ \E u \in x5' : u.cur /\ u.kind \in {"file", "upload"}
                            \/ \E i \in DOMAIN x3' :
                                 /\ x3'[i].live
                                 /\ x3'[i].act \in {"selected", "sourceSelected", "failed"}
    BY <1>1, <1>2 DEF Visual!NewVideoIsHeld
  <2>1. x1.request # "load" /\ ~x7
    BY <1>2 DEF Visual!IInv, Visual!ScreenOK
  <2>2. ASSUME t.kind \in {"file", "upload"}
        PROVE  /\ x1.request = "choose"
               /\ \/ \E u \in x5' : u.cur /\ u.kind \in {"file", "upload"}
                  \/ \E i \in DOMAIN x3' :
                       x3'[i].live /\ x3'[i].act \in {"selected", "sourceSelected", "failed"}
    <3>1. x2 = <<>> /\ x1.request = "choose"
      BY <1>4, <1>6, <2>1, <2>2
    <3>2. CASE a.act = "checking"
      BY <1>2, <1>8, <2>2, <3>1, <3>2
    <3>3. CASE a.act # "checking"
      <4>1. a.act \in {"selected", "sourceSelected", "failed"} /\ a.live
        BY <2>2, <3>1, <3>3 DEF VisualSays
      <4> QED BY <1>3, <3>1, <4>1
    <3> QED BY <3>2, <3>3
  <2>3. ASSUME t.kind = "save", a.act = "warning"
        PROVE  /\ x1.request \in {"apply", "remove"}
               /\ \E i \in DOMAIN x3' : x3'[i].live /\ x3'[i].act = "warning"
    BY <1>3, <1>4, <1>6, <2>1, <2>3
  <2>4. t.kind # "discard"
    BY <1>4, <1>6, <2>1
  <2>5. ASSUME t.kind \notin {"file", "upload"}
        PROVE  Visual!HoldsVideo
    <3>1. \A u \in x5 : ~(u.cur /\ u.kind \in {"file", "upload"})
      BY <1>4, <2>5
    <3>2. \A i \in DOMAIN x3 : x3[i].live =>
            x3[i].act \notin {"selected", "sourceSelected", "failed", "warning"}
      BY <1>4
    <3> QED BY <2>1, <3>1, <3>2 DEF Visual!IInv, Visual!NewVideoIsHeld
  <2>6. Visual!HoldsVideo /\ x4'.candidate = x4.candidate => Visual!HoldsVideo'
    BY <1>2 DEF Visual!HoldsVideo
  <2>7. ASSUME Visual!HoldsVideo, a.act = "loopReady", x4'.candidate.source = x4.candidate.source,
               x4'.candidate.kind = x4.candidate.kind
        PROVE  Visual!HoldsVideo'
    BY <1>2, <2>7 DEF Visual!HoldsVideo, Visual!Loop, VisualSaysWell
  <2> QED BY <2>2, <2>3, <2>4, <2>5, <2>6, <2>7
<1>14. Visual!LoopIsKnown'
  <2> SUFFICES ASSUME ~x8', Visual!Current, Visual!Loop' # 0
               PROVE  \/ x1.request \in {"stopPreview", "discardVideo"}
                      \/ x1.ready /\ x1.accepted = Visual!Loop'
                      \/ /\ x1.request = "prepareLoop"
                         /\ \E i \in DOMAIN x3' :
                              x3'[i].live /\ x3'[i].act = "loopReady" /\ x3'[i].cut = Visual!Loop'
    BY <1>1, <1>2 DEF Visual!LoopIsKnown
  <2>1. CASE Visual!Loop' = Visual!Loop
    <3>1. Visual!Screen
      BY VisualCurrentIsShown
    <3>2. \A i \in DOMAIN x3 : x3[i].live => x3[i].act # "loopReady"
      BY <1>4, <3>1
    <3> QED BY <1>2, <2>1, <3>2 DEF Visual!IInv, Visual!LoopIsKnown
  <2>2. CASE t.kind = "prepare" /\ a.act = "loopReady"
    <3>1. Visual!Screen
      BY VisualCurrentIsShown
    <3>2. CASE x2 = <<>>
      <4>1. x1.request = "prepareLoop" /\ a.live /\ a.cut = Visual!Loop'
        BY <1>6, <2>2, <3>2 DEF VisualSaysWell
      <4> QED BY <1>3, <2>2, <4>1
    <3>3. CASE x2 # <<>>
      BY <1>4, <3>1, <3>3, VisualCurrentIsNotLoading
    <3> QED BY <3>2, <3>3
  <2>3. Visual!Loop' = Visual!Loop \/ (t.kind = "prepare" /\ a.act = "loopReady")
    BY DEF Visual!Loop
  <2> QED BY <2>1, <2>2, <2>3
<1> QED BY <1>1, <1>11, <1>12, <1>13, <1>14 DEF Visual!IInv

LEMMA VisualReplyFacts ==
  ASSUME Visual!TypeOK, NEW t \in x5, NEW cut \in Visual!Cut \cup {0}, NEW p \in Visual!Page,
         NEW action \in {"checking", "cancelled", "selected", "sourceSelected", "loopReady",
                         "previewStopped", "discarded", "loaded", "saved", "warning", "failed",
                         "unconfirmed"},
         Visual!Reply(t, action, cut, p)
  PROVE  /\ x3' \in Seq(Visual!Act)
         /\ ~t.cur => x3' = x3
         /\ t.cur => \E a \in Visual!Act : /\ x3' = Append(x3, a) /\ a.act = action /\ a.cut = cut
                                           /\ a.live <=> x2 = <<>>
<1>1. PICK video \in BOOLEAN, live \in BOOLEAN :
        /\ live <=> x2 = <<>>
        /\ x3' = IF t.cur
                   THEN Append(x3, [act |-> action, cut |-> cut, video |-> video, live |-> live])
                   ELSE x3
  <2> DEFINE v == IF p.candidate.kind = "none" THEN p.saved = "video"
                  ELSE p.candidate.kind = "video"
             l == x2 = <<>>
  <2>1. v \in BOOLEAN /\ l \in BOOLEAN
    OBVIOUS
  <2>2. x3' = IF t.cur THEN Append(x3, [act |-> action, cut |-> cut, video |-> v, live |-> l])
                ELSE x3
    BY DEF Visual!Reply
  <2> HIDE DEF v, l
  <2>3. l <=> x2 = <<>>
    BY DEF l
  <2> QED BY <2>1, <2>2, <2>3
<1> DEFINE a == [act |-> action, cut |-> cut, video |-> video, live |-> live]
<1>2. a \in Visual!Act /\ a.act = action /\ a.cut = cut /\ (a.live <=> x2 = <<>>)
  BY <1>1 DEF Visual!Act
<1>3. x3 \in Seq(Visual!Act)
  BY DEF Visual!TypeOK
<1> HIDE DEF a
<1>4. Append(x3, a) \in Seq(Visual!Act)
  BY <1>2, <1>3, VisualAppendFacts
<1> QED BY <1>1, <1>2, <1>3, <1>4 DEF a

\* What a task needs of the candidate.
VisualFits(t) ==
  /\ t.kind = "prepare" /\ t.step # "render" => x4.candidate.local
  /\ t.cur /\ t.kind = "upload" => Visual!Loop = 0 /\ x4.candidate.local
  /\ t.cur /\ t.kind = "file" /\ t.step \in {"request", "done", "decode"} => Visual!Loop = 0

LEMMA VisualSameCandidate ==
  ASSUME Visual!IInv, x4'.open = x4.open,
         x4'.candidate.local <=> x4.candidate.local,
         x4'.candidate.source <=> x4.candidate.source,
         x4'.candidate.accepted = x4.candidate.accepted,
         \A u \in x5' : u \in x5 \/ VisualFits(u)
  PROVE  Visual!CandidateOK'
<1>1. \A u \in x5 : VisualFits(u)
  BY DEF Visual!IInv, Visual!CandidateOK, VisualFits
<1>2. \A u \in x5' : VisualFits(u)
  BY <1>1
<1>3. Visual!Loop' = Visual!Loop
  BY DEF Visual!Loop
<1> QED BY <1>2, <1>3 DEF Visual!IInv, Visual!CandidateOK, VisualFits

\* A task ends with what it says, and the candidate is as before.
LEMMA VisualEndStep ==
  ASSUME Visual!IInv, NEW t \in x5, x5' = x5 \ {t}, UNCHANGED <<x1, x2, x6, x7>>,
         x4' \in Visual!Page, x4'.open = x4.open, x4'.choosing = x4.choosing,
         x4'.picker = x4.picker, x4'.candidate = x4.candidate,
         x8' \in BOOLEAN, x8 => x8',
         NEW cut \in Visual!Cut \cup {0},
         NEW action \in {"selected", "previewStopped", "loaded", "saved", "failed", "unconfirmed"},
         Visual!Reply(t, action, cut, x4'),
         t.kind = "stop" => t.step # "join",
         VisualSays(t, action), t.cur => VisualSaysWell(t, action, cut)
  PROVE  Visual!IInv'
<1>1. Visual!TypeOK /\ t \in Visual!TaskType
  BY DEF Visual!IInv, Visual!TypeOK
<1>2. /\ x3' \in Seq(Visual!Act)
      /\ ~t.cur => x3' = x3
      /\ t.cur => \E a \in Visual!Act : /\ x3' = Append(x3, a) /\ a.act = action /\ a.cut = cut
                                        /\ a.live <=> x2 = <<>>
  BY <1>1, VisualReplyFacts
<1>3. Visual!TypeOK'
  BY <1>1, <1>2 DEF Visual!TypeOK
<1>4. Visual!CandidateOK'
  BY VisualSameCandidate
<1>5. VisualStepOf(t, t)
  <2>1. VisualFollows(t, t)
    BY <1>1 DEF VisualFollows
  <2>2. \A u \in x5 : u.kind = "stop" /\ u.step = "join" => u \in x5'
    OBVIOUS
  <2> QED BY <2>1, <2>2 DEF VisualStepOf
<1>6. CASE t.cur
  <2>1. PICK a \in Visual!Act : /\ x3' = Append(x3, a) /\ a.act = action /\ a.cut = cut
                                /\ a.live <=> x2 = <<>>
    BY <1>2, <1>6
  <2>2. VisualSays(t, a.act) /\ VisualSaysWell(t, a.act, a.cut) /\ a.act # "checking"
    BY <1>6, <2>1
  <2> QED BY <1>3, <1>4, <1>5, <1>6, <2>1, <2>2, VisualReplyStep
<1>7. CASE ~t.cur
  <2>1. VisualCandidateGoesOn(t)
    BY DEF VisualCandidateGoesOn
  <2>2. \A u \in x5 : u.cur /\ u # t => u \in x5'
    OBVIOUS
  <2> QED BY <1>2, <1>3, <1>4, <1>5, <1>7, <2>1, <2>2, VisualQuietStep
<1> QED BY <1>6, <1>7

\* A task goes on, and says nothing.
LEMMA VisualGoesOnStep ==
  ASSUME Visual!IInv, NEW t \in x5,
         NEW step \in {"rendered", "request", "done", "stored"},
         NEW m, m = [t EXCEPT !.step = step], x5' = (x5 \ {t}) \cup {m},
         UNCHANGED <<x1, x2, x3, x4, x7, x8>>, x6' \in Visual!Server,
         VisualFits(m),
         t.kind = "stop" /\ t.step = "join" => \A u \in x5 : u.kind # "prepare",
         t.kind = "save" => step = "stored"
  PROVE  Visual!IInv'
<1>1. Visual!TypeOK /\ t \in Visual!TaskType
  BY DEF Visual!IInv, Visual!TypeOK
<1>2. m \in Visual!TaskType /\ m.kind = t.kind /\ m.step = step /\ m.cut = t.cut
      /\ (m.cur <=> t.cur)
  BY <1>1, VisualTaskAt
<1>3. Visual!TypeOK'
  BY <1>1, <1>2 DEF Visual!TypeOK
<1>4. Visual!CandidateOK'
  BY VisualSameCandidate
<1>5. VisualStepOf(t, m)
  <2>1. VisualFollows(t, m)
    BY <1>2 DEF VisualFollows
  <2>2. \/ \A u \in x5' : u.kind # "prepare"
        \/ \A u \in x5 : u.kind = "stop" /\ u.step = "join" => u \in x5'
    BY <1>2
  <2> QED BY <2>1, <2>2 DEF VisualStepOf
<1>6. VisualCandidateGoesOn(t)
  BY DEF VisualCandidateGoesOn
<1>7. \A u \in x5 : u.cur /\ u # t => u \in x5'
  OBVIOUS
<1> QED BY <1>3, <1>4, <1>5, <1>6, <1>7, VisualQuietStep

LEMMA VisualResavedFacts ==
  ASSUME Visual!TypeOK, NEW b \in BOOLEAN, NEW saved \in {"still", "video"},
         NEW p, p = [x4 EXCEPT !.broken = b, !.saved = saved]
  PROVE  /\ p \in Visual!Page /\ p.open = x4.open /\ p.choosing = x4.choosing
         /\ p.picker = x4.picker /\ p.candidate = x4.candidate
<1>1. p = [open |-> x4.open, picker |-> x4.picker, choosing |-> x4.choosing,
           saved |-> saved, broken |-> b, candidate |-> x4.candidate]
  BY VisualPageFacts
<1> QED BY <1>1, VisualPageFacts DEF Visual!Page

LEMMA VisualRestoredFacts ==
  ASSUME Visual!TypeOK, NEW p \in Visual!Restored(x4)
  PROVE  /\ p \in Visual!Page /\ p.open = x4.open /\ p.choosing = x4.choosing
         /\ p.picker = x4.picker /\ p.candidate = x4.candidate
<1>1. CASE x4.broken
  <2>1. PICK b \in BOOLEAN, s \in {"still", "video"} : p = [x4 EXCEPT !.broken = b, !.saved = s]
    <3>1. PICK b \in BOOLEAN :
            p = [x4 EXCEPT !.broken = b, !.saved = IF b THEN x4.saved ELSE x6.saved]
      BY <1>1, VisualPageFacts DEF Visual!Restored, Visual!Activated
    <3> QED BY <3>1, VisualPageFacts DEF Visual!TypeOK, Visual!Server
  <2> QED BY <2>1, VisualResavedFacts
<1>2. CASE ~x4.broken
  <2>1. p = x4
    BY <1>2 DEF Visual!Restored
  <2> QED BY <2>1 DEF Visual!TypeOK
<1> QED BY <1>1, <1>2

LEMMA VisualLoadedPreserves ==
  ASSUME Visual!IInv, NEW t \in x5, Visual!Loaded(t)
  PROVE  Visual!IInv'
<1>1. /\ t.kind = "load" /\ x5' = x5 \ {t} /\ x4' \in Visual!Restored(x4)
      /\ UNCHANGED <<x1, x2, x6, x7, x8>>
  BY DEF Visual!Loaded, Visual!Replace, Visual!Unserved
<1>2. /\ x4' \in Visual!Page /\ x4'.open = x4.open /\ x4'.choosing = x4.choosing
      /\ x4'.picker = x4.picker /\ x4'.candidate = x4.candidate
      /\ x8' \in BOOLEAN
  BY <1>1, VisualRestoredFacts DEF Visual!IInv, Visual!TypeOK
<1>3. PICK action \in {"failed", "loaded"} : Visual!Reply(t, action, 0, x4')
  BY DEF Visual!Loaded
<1>4. VisualSays(t, action) /\ VisualSaysWell(t, action, 0)
  BY <1>1, <1>3 DEF VisualSays, VisualSaysWell
<1> QED BY <1>1, <1>2, <1>3, <1>4, VisualEndStep

LEMMA VisualShowPickerPreserves ==
  ASSUME Visual!IInv, NEW t \in x5, Visual!ShowPicker(t)
  PROVE  Visual!IInv'
<1>1. Visual!TypeOK /\ t \in Visual!TaskType
  BY DEF Visual!IInv, Visual!TypeOK
<1>2. /\ t.kind = "choose" /\ x5' = x5 \ {t}
      /\ UNCHANGED <<x1, x2, x6, x7>>
  BY DEF Visual!ShowPicker, Visual!Replace
<1>3. PICK p \in Visual!Restored(x4) :
        /\ x4' = [p EXCEPT !.picker = @ \/ (t.cur /\ ~p.broken)]
        /\ IF p.broken THEN Visual!Reply(t, "failed", 0, p) ELSE x3' = x3
        /\ x8' = (x8 \/ (t.cur /\ p.broken /\ p.candidate.accepted # 0))
  BY DEF Visual!ShowPicker
<1>4. /\ p \in Visual!Page /\ p.open = x4.open /\ p.choosing = x4.choosing
      /\ p.picker = x4.picker /\ p.candidate = x4.candidate
      /\ p.picker \in BOOLEAN /\ p.broken \in BOOLEAN /\ t.cur \in BOOLEAN
  BY <1>1, VisualRestoredFacts, VisualTaskFacts DEF Visual!Page
<1>5. PICK shown \in BOOLEAN : shown <=> x4.picker \/ (t.cur /\ ~p.broken)
  BY <1>4
<1>6. x4' = [open |-> x4.open, picker |-> shown, choosing |-> x4.choosing,
               saved |-> p.saved, broken |-> p.broken, candidate |-> x4.candidate]
  BY <1>3, <1>4, <1>5 DEF Visual!Page
<1>7. x4' \in Visual!Page
  BY <1>4, <1>5, <1>6 DEF Visual!Page
<1>8. x8' \in BOOLEAN /\ (x8 => x8')
  BY <1>1, <1>3, <1>4 DEF Visual!TypeOK
<1>9. CASE p.broken
  <2>1. x4' = p
    BY <1>3, <1>4, <1>5, <1>6, <1>9 DEF Visual!Page
  <2>2. Visual!Reply(t, "failed", 0, x4')
    BY <1>3, <1>9, <2>1
  <2>3. VisualSays(t, "failed") /\ (t.cur => VisualSaysWell(t, "failed", 0))
    BY <1>2, <1>3, <1>4, <1>9, <2>1 DEF VisualSays, VisualSaysWell, Visual!Loop
  <2> QED BY <1>2, <1>4, <1>8, <2>1, <2>2, <2>3, VisualEndStep
<1>10. CASE ~p.broken
  <2>1. x3' = x3 /\ x4'.candidate = x4.candidate /\ x4'.open = x4.open
        /\ x4'.choosing = x4.choosing /\ (x4'.picker <=> x4.picker \/ t.cur)
    BY <1>3, <1>5, <1>6, <1>10
  <2>2. Visual!TypeOK'
    BY <1>1, <1>2, <1>7, <1>8, <2>1 DEF Visual!TypeOK
  <2>3. VisualStepOf(t, t)
    <3>1. VisualFollows(t, t)
      BY <1>1 DEF VisualFollows
    <3>2. \A u \in x5 : u.kind = "stop" /\ u.step = "join" => u \in x5'
      BY <1>2
    <3> QED BY <1>2, <1>8, <2>1, <3>1, <3>2 DEF VisualStepOf
  <2>4. Visual!CandidateOK'
    BY <1>2, <2>1, VisualSameCandidate
  <2>5. t.cur => x2 # <<>> \/ (x4'.picker /\ x4'.choosing)
    <3> SUFFICES ASSUME t.cur, x2 = <<>>
                 PROVE  x4.choosing
      BY <2>1
    <3>1. Visual!Screen /\ x1.request # "" /\ t.kind \in Visual!Kinds(x1.request)
      BY VisualCurFacts
    <3>2. x1.request = "choose"
      BY <1>2, <3>1 DEF Visual!Kinds
    <3> QED BY <3>1, <3>2 DEF Visual!IInv, Visual!FramesOK, Visual!LastOK
  <2>6. VisualCandidateGoesOn(t)
    BY <2>1 DEF VisualCandidateGoesOn
  <2>7. \A u \in x5 : u.cur /\ u # t => u \in x5'
    BY <1>2
  <2> QED BY <1>2, <2>1, <2>2, <2>3, <2>4, <2>5, <2>6, <2>7, VisualQuietStep
<1> QED BY <1>4, <1>9, <1>10

LEMMA VisualAnswersPreserve ==
  ASSUME Visual!IInv, NEW t \in x5,
         \/ Visual!ShowImage(t) \/ Visual!Stopped(t) \/ Visual!StopFails(t)
         \/ Visual!SaveRefused(t)
         \/ Visual!Saved(t) \/ Visual!SaveUnconfirmed(t)
         \/ Visual!Selected(t) /\ ~t.cur
         \/ Visual!Failed(t) /\ (t.kind = "prepare" \/ (t.kind = "file" /\ ~t.cur))
  PROVE  Visual!IInv'
<1>1. Visual!TypeOK /\ t \in Visual!TaskType /\ x4 \in Visual!Page /\ x6 \in Visual!Server
      /\ x8 \in BOOLEAN
  BY DEF Visual!IInv, Visual!TypeOK
<1>2. x4.candidate.accepted \in Visual!Cut \cup {0} /\ 0 \in Visual!Cut \cup {0}
      /\ t.cur \in BOOLEAN
  BY <1>1, VisualPageFacts, VisualTaskFacts DEF Visual!Candidate
<1>3. CASE Visual!ShowImage(t) \/ Visual!Stopped(t) \/ Visual!SaveRefused(t)
           \/ Visual!StopFails(t)
  <2>1. /\ x5' = x5 \ {t} /\ x4' = x4
        /\ UNCHANGED <<x1, x2, x6, x7>>
        /\ x8' \in BOOLEAN /\ (x8 => x8')
    BY <1>1, <1>2, <1>3
       DEF Visual!ShowImage, Visual!Stopped, Visual!SaveRefused, Visual!StopFails, Visual!Replace,
           Visual!Unserved
  <2>2. CASE Visual!ShowImage(t)
    <3>1. t.kind = "file" /\ t.step = "decode" /\ Visual!Reply(t, "selected", 0, x4')
      BY <2>1, <2>2 DEF Visual!ShowImage
    <3>2. t.cur => Visual!Loop' = 0
      BY <2>1, <3>1 DEF Visual!IInv, Visual!CandidateOK, Visual!Loop
    <3>3. VisualSays(t, "selected") /\ (t.cur => VisualSaysWell(t, "selected", 0))
      BY <3>1, <3>2 DEF VisualSays, VisualSaysWell
    <3> QED BY <1>1, <1>2, <2>1, <3>1, <3>3, VisualEndStep
  <2>3. CASE Visual!Stopped(t)
    <3>1. t.kind = "stop" /\ t.step = "done"
          /\ Visual!Reply(t, "previewStopped", Visual!Loop, x4')
      BY <2>1, <2>3 DEF Visual!Stopped, Visual!Loop
    <3>2. VisualSays(t, "previewStopped") /\ VisualSaysWell(t, "previewStopped", Visual!Loop)
      BY <2>1, <3>1 DEF VisualSays, VisualSaysWell, Visual!Loop
    <3>3. Visual!Loop \in Visual!Cut \cup {0}
      BY <1>2 DEF Visual!Loop
    <3> QED BY <1>1, <2>1, <3>1, <3>2, <3>3, VisualEndStep
  <2>4. CASE Visual!StopFails(t)
    <3>1. /\ t.kind = "stop" /\ t.step \in {"request", "done"}
          /\ Visual!Reply(t, "failed", 0, x4')
          /\ x8' = (x8 \/ t.cur)
      BY <2>1, <2>4 DEF Visual!StopFails
    <3>2. VisualSays(t, "failed") /\ (t.cur => VisualSaysWell(t, "failed", 0))
      BY <3>1 DEF VisualSays, VisualSaysWell
    <3> QED BY <1>1, <1>2, <2>1, <3>1, <3>2, VisualEndStep
  <2>5. CASE Visual!SaveRefused(t)
    <3>1. t.kind = "save" /\ Visual!Reply(t, "failed", 0, x4')
      BY <2>1, <2>5 DEF Visual!SaveRefused
    <3>2. VisualSays(t, "failed") /\ VisualSaysWell(t, "failed", 0)
      BY <3>1 DEF VisualSays, VisualSaysWell
    <3> QED BY <1>1, <1>2, <2>1, <3>1, <3>2, VisualEndStep
  <2> QED BY <1>3, <2>2, <2>3, <2>4, <2>5
<1>4. CASE Visual!Saved(t) \/ Visual!SaveUnconfirmed(t)
  <2>1. PICK b \in BOOLEAN, s \in {"still", "video"} :
          x4' = [x4 EXCEPT !.broken = b, !.saved = s]
    <3>1. CASE Visual!Saved(t)
      <4>1. x4' = [x4 EXCEPT !.broken = x4.broken, !.saved = x6.saved]
        BY <1>1, <3>1, VisualPageFacts DEF Visual!Saved
      <4> QED BY <1>1, <4>1, VisualPageFacts DEF Visual!Server
    <3>2. CASE Visual!SaveUnconfirmed(t)
      <4>1. PICK b \in BOOLEAN :
              x4' = [x4 EXCEPT !.broken = b, !.saved = IF b THEN x4.saved ELSE x6.saved]
        BY <1>1, <3>2, VisualPageFacts DEF Visual!SaveUnconfirmed, Visual!Activated
      <4> QED BY <1>1, <4>1, VisualPageFacts DEF Visual!Server
    <3> QED BY <1>4, <3>1, <3>2
  <2>2. /\ x4' \in Visual!Page /\ x4'.open = x4.open /\ x4'.choosing = x4.choosing
        /\ x4'.picker = x4.picker /\ x4'.candidate = x4.candidate
    BY <1>1, <2>1, VisualResavedFacts
  <2>3. PICK action \in {"saved", "unconfirmed"} : Visual!Reply(t, action, 0, x4')
    BY <1>4 DEF Visual!Saved, Visual!SaveUnconfirmed
  <2>4. /\ x5' = x5 \ {t} /\ t.kind = "save"
        /\ UNCHANGED <<x1, x2, x6, x7, x8>>
    BY <1>4 DEF Visual!Saved, Visual!SaveUnconfirmed, Visual!Replace, Visual!Unserved
  <2>5. VisualSays(t, action) /\ VisualSaysWell(t, action, 0)
    BY <2>3, <2>4 DEF VisualSays, VisualSaysWell
  <2> QED BY <1>1, <1>2, <2>2, <2>3, <2>4, <2>5, VisualEndStep
<1>5. CASE Visual!Selected(t) /\ ~t.cur
  <2>1. /\ t.kind = "upload" /\ x5' = x5 \ {t} /\ x4' = x4
        /\ UNCHANGED <<x1, x2, x6, x7, x8>>
        /\ Visual!Reply(t, "sourceSelected", 0, x4')
    BY <1>5 DEF Visual!Selected, Visual!Replace, Visual!Unserved
  <2>2. x3' = x3
    BY <1>5, <2>1 DEF Visual!Reply
  <2>3. Visual!Reply(t, "failed", 0, x4')
    BY <1>5, <2>2 DEF Visual!Reply
  <2>4. VisualSays(t, "failed")
    BY <2>1 DEF VisualSays
  <2> QED BY <1>1, <1>2, <1>5, <2>1, <2>3, <2>4, VisualEndStep
<1>6. CASE Visual!Failed(t) /\ (t.kind = "prepare" \/ (t.kind = "file" /\ ~t.cur))
  <2>1. /\ x5' = x5 \ {t} /\ UNCHANGED <<x1, x2, x6, x7, x8>>
        /\ Visual!Reply(t, "failed", 0, x4') /\ x4' = [x4 EXCEPT !.candidate = x4.candidate]
    BY <1>6 DEF Visual!Failed, Visual!Unserved
  <2>2. x4' = x4
    BY <1>1, <2>1, VisualPageFacts
  <2>3. VisualSays(t, "failed") /\ (t.cur => VisualSaysWell(t, "failed", 0))
    BY <1>6 DEF VisualSays, VisualSaysWell
  <2> QED BY <1>1, <1>2, <1>6, <2>1, <2>2, <2>3, VisualEndStep
<1> QED BY <1>3, <1>4, <1>5, <1>6

LEMMA VisualRequestsPreserve ==
  ASSUME Visual!IInv, NEW t \in x5,
         \/ Visual!Stage(t) \/ Visual!Render(t) \/ Visual!Acknowledge(t) \/ Visual!Join(t)
         \/ Visual!ServeStop(t) \/ Visual!ServeDiscard(t)
         \/ Visual!DiscardFails(t) \/ Visual!Store(t)
  PROVE  Visual!IInv'
<1>1. Visual!TypeOK /\ t \in Visual!TaskType /\ x6 \in Visual!Server
  BY DEF Visual!IInv, Visual!TypeOK
<1>2. Visual!Join(t) => t.cur
  BY DEF Visual!Join, Visual!IInv, Visual!TasksOK
<1>3. PICK step \in {"rendered", "request", "done", "stored"} :
        /\ x5' = (x5 \ {t}) \cup {[t EXCEPT !.step = step]}
        /\ UNCHANGED <<x1, x2, x3, x4, x7, x8>>
        /\ step = "rendered" => Visual!Render(t)
        /\ step = "stored" => t.kind = "save"
        /\ step = "request" => t.kind = "stop"
        /\ step = "done" => Visual!Stage(t) \/ Visual!Acknowledge(t) \/ Visual!ServeStop(t) \/ Visual!ServeDiscard(t)
                              \/ t.kind = "discard"
  <2>1. CASE Visual!Stage(t)
    BY <2>1 DEF Visual!Stage, Visual!Serve, Visual!Replace
  <2>2. CASE Visual!Render(t)
    BY <2>2 DEF Visual!Render, Visual!Serve, Visual!Replace
  <2>3. CASE Visual!Acknowledge(t)
    BY <2>3 DEF Visual!Acknowledge, Visual!Serve, Visual!Replace
  <2>4. CASE Visual!Join(t)
    BY <1>2, <2>4 DEF Visual!Join, Visual!Replace, Visual!Unserved
  <2>5. CASE Visual!ServeStop(t)
    BY <2>5 DEF Visual!ServeStop, Visual!Serve, Visual!Replace
  <2>6. CASE Visual!ServeDiscard(t)
    BY <2>6 DEF Visual!ServeDiscard, Visual!Serve, Visual!Replace
  <2>7. CASE Visual!DiscardFails(t)
    BY <2>7 DEF Visual!DiscardFails, Visual!Replace, Visual!Unserved
  <2>8. CASE Visual!Store(t)
    BY <2>8 DEF Visual!Store, Visual!Replace
  <2> QED BY <2>1, <2>2, <2>3, <2>4, <2>5, <2>6, <2>7, <2>8
<1>4. x6' \in Visual!Server
  <2>1. /\ x6.files.source \in BOOLEAN /\ x6.files.pending \in Visual!Cut \cup {0}
        /\ x6.files.accepted \in Visual!Cut \cup {0} /\ x6.saved \in {"still", "video"}
        /\ x6.files = [source |-> x6.files.source, pending |-> x6.files.pending,
                           accepted |-> x6.files.accepted]
        /\ x6 = [files |-> x6.files, saved |-> x6.saved]
        /\ t.cut \in Visual!Cut \cup {0}
    BY <1>1, VisualTaskFacts DEF Visual!Server
  <2>2. \A source \in BOOLEAN, pending, accepted \in Visual!Cut \cup {0},
        saved \in {"still", "video"} :
          [files |-> [source |-> source, pending |-> pending, accepted |-> accepted],
           saved |-> saved] \in Visual!Server
    BY DEF Visual!Server
  <2>3. Visual!NoFiles = [source |-> FALSE, pending |-> 0, accepted |-> 0]
    BY DEF Visual!NoFiles
  <2>w. \A saved \in {"still", "video"} :
          /\ [files |-> Visual!NoFiles, saved |-> saved] \in Visual!Server
          /\ [files |-> x6.files, saved |-> saved] \in Visual!Server
    BY <2>1, <2>2, <2>3
  <2>4. CASE Visual!Stage(t)
    <3>1. x6' = [files |-> [source |-> TRUE, pending |-> 0, accepted |-> 0],
                     saved |-> x6.saved]
      BY <2>1, <2>3, <2>4 DEF Visual!Stage, Visual!Serve
    <3> QED BY <2>1, <2>2, <3>1
  <2>5. CASE Visual!Render(t)
    <3>1. x6' = [files |-> [source |-> x6.files.source, pending |-> t.cut,
                                accepted |-> x6.files.accepted], saved |-> x6.saved]
      BY <2>1, <2>5 DEF Visual!Render, Visual!Serve
    <3> QED BY <2>1, <2>2, <3>1
  <2>6. CASE Visual!Acknowledge(t)
    <3>1. x6' = [files |-> [source |-> x6.files.source, pending |-> 0,
                                accepted |-> t.cut], saved |-> x6.saved]
      BY <2>1, <2>6 DEF Visual!Acknowledge, Visual!Serve
    <3> QED BY <2>1, <2>2, <3>1
  <2>7. CASE Visual!ServeStop(t)
    <3>1. x6' = [files |-> [source |-> x6.files.source, pending |-> 0,
                                accepted |-> x6.files.accepted], saved |-> x6.saved]
      BY <2>1, <2>7 DEF Visual!ServeStop, Visual!Serve
    <3> QED BY <2>1, <2>2, <3>1
  <2>8. CASE Visual!ServeDiscard(t)
    <3>1. \/ x6' = [files |-> Visual!NoFiles, saved |-> x6.saved]
          \/ x6' = [files |-> x6.files, saved |-> x6.saved]
      BY <2>1, <2>8 DEF Visual!ServeDiscard, Visual!Serve
    <3> QED BY <2>1, <2>w, <3>1
  <2>9. CASE Visual!Join(t) \/ Visual!DiscardFails(t)
    BY <1>1, <2>9 DEF Visual!Join, Visual!DiscardFails, Visual!Unserved
  <2>10. CASE Visual!Store(t)
    <3>1. \/ x6' = [files |-> Visual!NoFiles, saved |-> "video"]
          \/ x6' = [files |-> x6.files, saved |-> "still"]
          \/ x6' = x6
      <4>1. t.step \in {"video", "image", "remove", "settings"}
        BY <2>10 DEF Visual!Store, Visual!IInv, Visual!TasksOK, Visual!Saves
      <4>2. CASE t.step = "video"
        BY <2>10, <4>2 DEF Visual!Store
      <4>3. CASE t.step \in {"image", "remove"}
        BY <2>1, <2>10, <4>3 DEF Visual!Store
      <4>4. CASE t.step = "settings"
        BY <2>10, <4>4 DEF Visual!Store
      <4> QED BY <4>1, <4>2, <4>3, <4>4
    <3> QED BY <1>1, <2>1, <2>w, <3>1
  <2> QED BY <2>4, <2>5, <2>6, <2>7, <2>8, <2>9, <2>10
<1>5. PICK m : m = [t EXCEPT !.step = step]
  OBVIOUS
<1>6. m \in Visual!TaskType /\ m.kind = t.kind /\ m.step = step /\ m.cut = t.cut
      /\ (m.cur <=> t.cur)
  BY <1>1, <1>5, VisualTaskAt
<1>7. VisualFits(t)
  BY DEF Visual!IInv, Visual!CandidateOK, VisualFits
<1>8. VisualFits(m)
  <2>1. m.kind = "prepare" => x4.candidate.local
    <3> SUFFICES ASSUME t.kind = "prepare"
                 PROVE  x4.candidate.local
      BY <1>6
    <3>1. step = "rendered" \/ Visual!Acknowledge(t)
      BY <1>3 DEF Visual!Stage, Visual!ServeStop, Visual!ServeDiscard
    <3>2. CASE step = "rendered"
      BY <1>3, <3>2 DEF Visual!Render, Visual!IInv, Visual!CandidateOK
    <3>3. CASE Visual!Acknowledge(t)
      BY <1>7, <3>3 DEF Visual!Acknowledge, VisualFits
    <3> QED BY <3>1, <3>2, <3>3
  <2>2. m.kind = "upload" /\ m.cur => Visual!Loop = 0 /\ x4.candidate.local
    BY <1>6, <1>7 DEF VisualFits
  <2>3. m.kind = "file" /\ m.cur => Visual!Loop = 0
    <3> SUFFICES ASSUME t.kind = "file", t.cur
                 PROVE  Visual!Loop = 0
      BY <1>6
    <3>1. t.step = "request"
      BY <1>3
         DEF Visual!Render, Visual!Stage, Visual!Acknowledge, Visual!ServeStop,
             Visual!ServeDiscard
    <3> QED BY <1>7, <3>1 DEF VisualFits
  <2> QED BY <2>1, <2>2, <2>3 DEF VisualFits
<1>9. t.kind = "stop" /\ t.step = "join" => \A u \in x5 : u.kind # "prepare"
  <2>1. t.kind = "stop" /\ t.step = "join" => Visual!Join(t)
    BY
       DEF Visual!Stage, Visual!Render, Visual!Acknowledge, Visual!ServeStop, Visual!ServeDiscard,
           Visual!DiscardFails, Visual!Store
  <2> QED BY <2>1 DEF Visual!Join, Visual!Joined
<1>10. t.kind = "save" => step = "stored"
  BY <1>3
     DEF Visual!Render, Visual!Stage, Visual!Acknowledge, Visual!ServeStop, Visual!ServeDiscard
<1> QED BY <1>3, <1>4, <1>5, <1>8, <1>9, <1>10, VisualGoesOnStep

LEMMA VisualNoLoopCandidate ==
  ASSUME Visual!IInv, x4'.open = x4.open, Visual!Loop' = 0,
         x4'.candidate.source => x4'.candidate.local,
         x4'.candidate.local \/ \A u \in x5' : u.kind # "prepare" /\ ~(u.cur /\ u.kind = "upload")
  PROVE  Visual!CandidateOK'
  BY DEF Visual!CandidateOK

LEMMA VisualCheckingFacts ==
  ASSUME Visual!TypeOK, NEW t \in x5, NEW p \in Visual!Page, 0 \in Visual!Cut \cup {0},
         Visual!Reply(t, "checking", 0, p)
  PROVE  /\ x3' \in Seq(Visual!Act)
         /\ ~t.cur => x3' = x3
         /\ t.cur => \E a \in Visual!Act : /\ x3' = Append(x3, a) /\ a.act = "checking" /\ a.cut = 0
                                           /\ a.live <=> x2 = <<>>
<1>1. "checking" \in {"checking", "cancelled", "selected", "sourceSelected", "loopReady",
                     "previewStopped", "discarded", "loaded", "saved", "warning", "failed",
                     "unconfirmed"}
  OBVIOUS
<1> QED BY <1>1, VisualReplyFacts, SMTT(60)

\* The task replaces the candidate, whether or not it is the last one.
LEMMA VisualReplacedStep ==
  ASSUME Visual!IInv, NEW t \in x5, NEW m \in Visual!TaskType, NEW c \in Visual!Candidate,
         x4' = [x4 EXCEPT !.candidate = c], x5' = Visual!Abandon(x5 \ {t}) \cup {m},
         UNCHANGED <<x1, x2, x6, x8>>, x7' = (x7 \/ ~t.cur),
         c.accepted = 0, c.source = FALSE, c.local \/ m.kind # "upload",
         t.kind = "file", m.kind \in {"file", "upload"}, m.cur <=> t.cur,
         \/ x3' = x3
         \/ Visual!Reply(t, "checking", 0, x4)
  PROVE  Visual!IInv'
<1>1. Visual!TypeOK /\ t \in Visual!TaskType /\ x4 \in Visual!Page /\ t.cur \in BOOLEAN
      /\ 0 \in Visual!Cut \cup {0}
  BY VisualTaskFacts DEF Visual!IInv, Visual!TypeOK
<1>2. /\ x4' \in Visual!Page /\ x4'.candidate = c /\ x4'.open = x4.open
      /\ x4'.picker = x4.picker /\ x4'.choosing = x4.choosing
  BY <1>1, VisualPageWith
<1>3. \A u \in x5' : (u \in x5 /\ u # t /\ u.kind \notin Visual!Trimmer) \/ u = m
  BY DEF Visual!Abandon
<1>4. m \in x5' /\ Visual!Loop' = 0
  BY <1>2 DEF Visual!Loop
<1>5. /\ x3' \in Seq(Visual!Act)
      /\ ~t.cur => x3' = x3
      /\ t.cur => \/ x3' = x3
                  \/ \E a \in Visual!Act : /\ x3' = Append(x3, a) /\ a.act = "checking" /\ a.cut = 0
                                           /\ a.live <=> x2 = <<>>
  <2>1. CASE x3' = x3
    BY <1>1, <2>1 DEF Visual!TypeOK
  <2>2. CASE Visual!Reply(t, "checking", 0, x4)
    <3>1. /\ x3' \in Seq(Visual!Act)
          /\ ~t.cur => x3' = x3
          /\ t.cur => \E a \in Visual!Act : /\ x3' = Append(x3, a) /\ a.act = "checking" /\ a.cut = 0
                                            /\ a.live <=> x2 = <<>>
      BY <1>1, <2>2, VisualCheckingFacts
    <3> QED BY <3>1
  <2> QED BY <2>1, <2>2
<1>6. Visual!TypeOK'
  BY <1>1, <1>2, <1>3, <1>5 DEF Visual!TypeOK
<1>7. Visual!CandidateOK'
  BY <1>2, <1>3, <1>4, VisualNoLoopCandidate DEF Visual!Trimmer
<1>8. VisualStepOf(t, m)
  <2>1. VisualFollows(t, m)
    BY <1>1 DEF VisualFollows
  <2>2. \A u \in x5' : u.kind # "prepare"
    BY <1>3 DEF Visual!Trimmer
  <2> QED BY <1>2, <1>3, <2>1, <2>2 DEF VisualStepOf
<1>9. CASE x3' = x3
  <2>1. VisualCandidateGoesOn(t)
    BY <1>1, <1>4 DEF VisualCandidateGoesOn
  <2>2. x7' \/ \A u \in x5 : u.cur /\ u # t => u \in x5'
    BY <1>1, VisualCurFacts
  <2> QED BY <1>4, <1>6, <1>7, <1>8, <1>9, <2>1, <2>2, VisualQuietStep
<1>10. CASE x3' # x3
  <2>1. t.cur
    BY <1>1, <1>5, <1>10
  <2>2. PICK a \in Visual!Act : /\ x3' = Append(x3, a) /\ a.act = "checking" /\ a.cut = 0
                                /\ a.live <=> x2 = <<>>
    BY <1>5, <1>10, <2>1
  <2>3. VisualSays(t, a.act) /\ VisualSaysWell(t, a.act, a.cut)
    BY <2>2 DEF VisualSays, VisualSaysWell
  <2> QED BY <1>2, <1>4, <1>6, <1>7, <1>8, <2>1, <2>2, <2>3, VisualReplyStep
<1> QED BY <1>9, <1>10

LEMMA VisualSourcesPreserve ==
  ASSUME Visual!IInv, NEW t \in x5, Visual!SelectSource(t) \/ Visual!ReplaceSource(t)
  PROVE  Visual!IInv'
<1>1. Visual!TypeOK /\ t \in Visual!TaskType /\ x4.candidate \in Visual!Candidate
  BY VisualPageFacts DEF Visual!IInv, Visual!TypeOK
<1>2. /\ Visual!Close(x4.candidate) \in Visual!Candidate
      /\ Visual!Close(x4.candidate).accepted = 0
      /\ Visual!Close(x4.candidate).source = FALSE
  BY <1>1, VisualCloseFacts
<1>3. CASE Visual!SelectSource(t)
  <2>1. PICK c : c = [Visual!Close(x4.candidate) EXCEPT !.local = TRUE]
    OBVIOUS
  <2>2. c \in Visual!Candidate /\ c.accepted = 0 /\ c.source = FALSE /\ c.local
    BY <1>2, <2>1 DEF Visual!Candidate
  <2>3. PICK m : m = [t EXCEPT !.kind = "upload", !.step = "request"]
    OBVIOUS
  <2>4. m \in Visual!TaskType /\ m.kind = "upload" /\ (m.cur <=> t.cur)
    BY <1>1, <2>3 DEF Visual!TaskType
  <2>5. /\ x4' = [x4 EXCEPT !.candidate = c] /\ x5' = Visual!Abandon(x5 \ {t}) \cup {m}
        /\ UNCHANGED <<x1, x2, x6, x8>> /\ x7' = (x7 \/ ~t.cur)
        /\ t.kind = "file" /\ Visual!Reply(t, "checking", 0, x4)
    BY <1>1, <1>3, <2>1, <2>3, VisualPageFacts
       DEF Visual!SelectSource, Visual!Unserved, Visual!Stray
  <2> QED BY <2>2, <2>4, <2>5, VisualReplacedStep
<1>4. CASE Visual!ReplaceSource(t)
  <2>1. PICK m : m = [t EXCEPT !.step = "request"]
    OBVIOUS
  <2>2. m \in Visual!TaskType /\ m.kind = t.kind /\ (m.cur <=> t.cur)
    BY <1>1, <2>1, VisualTaskAt
  <2>3. /\ x4' = [x4 EXCEPT !.candidate = Visual!Close(x4.candidate)]
        /\ x5' = Visual!Abandon(x5 \ {t}) \cup {m}
        /\ UNCHANGED <<x1, x2, x6, x8, x3>> /\ x7' = (x7 \/ ~t.cur)
        /\ t.kind = "file"
    BY <1>1, <1>4, <2>1, VisualPageFacts DEF Visual!ReplaceSource, Visual!Unserved, Visual!Stray
  <2> QED BY <1>2, <2>2, <2>3, VisualReplacedStep
<1> QED BY <1>3, <1>4

LEMMA VisualSelectImagePreserves ==
  ASSUME Visual!IInv, NEW t \in x5, Visual!SelectImage(t)
  PROVE  Visual!IInv'
<1>1. Visual!TypeOK /\ t \in Visual!TaskType /\ x4.candidate \in Visual!Candidate
      /\ t.cur \in BOOLEAN
  BY VisualPageFacts, VisualTaskFacts DEF Visual!IInv, Visual!TypeOK
<1>2. PICK m : m = [t EXCEPT !.step = "decode"]
  OBVIOUS
<1>3. m \in Visual!TaskType /\ m.kind = t.kind /\ m.step = "decode" /\ m.cut = t.cut
      /\ (m.cur <=> t.cur)
  BY <1>1, <1>2, VisualTaskAt
<1>4. PICK c : c = [x4.candidate EXCEPT !.kind = "image"]
  OBVIOUS
<1>5. /\ c \in Visual!Candidate /\ c.accepted = x4.candidate.accepted
      /\ c.local = x4.candidate.local /\ c.source = x4.candidate.source
  BY <1>1, <1>4 DEF Visual!Candidate
<1>6. /\ x4' = [x4 EXCEPT !.candidate = c] /\ x5' = (x5 \ {t}) \cup {m}
      /\ UNCHANGED <<x1, x2, x6, x8, x3>> /\ x7' = (x7 \/ ~t.cur)
      /\ t.kind = "file" /\ (t.step = "done" \/ ~x4.candidate.local)
  BY <1>1, <1>2, <1>4, VisualPageFacts
     DEF Visual!SelectImage, Visual!Unserved, Visual!Stray, Visual!Replace
<1>7. /\ x4' \in Visual!Page /\ x4'.candidate = c /\ x4'.open = x4.open
      /\ x4'.picker = x4.picker /\ x4'.choosing = x4.choosing
  BY <1>1, <1>5, <1>6, VisualPageWith
<1>8. Visual!TypeOK'
  BY <1>1, <1>3, <1>6, <1>7 DEF Visual!TypeOK
<1>9. VisualFits(m)
  <2>1. t.cur => Visual!Loop = 0
    BY <1>6 DEF Visual!IInv, Visual!CandidateOK, Visual!Loop
  <2> QED BY <1>3, <1>6, <2>1 DEF VisualFits
<1>10. Visual!CandidateOK'
  BY <1>5, <1>6, <1>7, <1>9, VisualSameCandidate
<1>11. VisualStepOf(t, m)
  <2>1. VisualFollows(t, m)
    BY <1>3, <1>6 DEF VisualFollows
  <2>2. \A u \in x5 : u.kind = "stop" /\ u.step = "join" => u \in x5'
    BY <1>6
  <2> QED BY <1>6, <1>7, <2>1, <2>2 DEF VisualStepOf
<1>12. VisualCandidateGoesOn(t)
  <2>1. Visual!Loop' = Visual!Loop
    BY <1>5, <1>7 DEF Visual!Loop
  <2> QED BY <1>6, <2>1 DEF VisualCandidateGoesOn
<1>13. \A u \in x5 : u.cur /\ u # t => u \in x5'
  BY <1>6
<1> QED BY <1>6, <1>8, <1>10, <1>11, <1>12, <1>13, VisualQuietStep

\* A task ends with what it says, and with another candidate.
LEMMA VisualChangedStep ==
  ASSUME Visual!IInv, NEW t \in x5, x4' \in Visual!Page, x4'.open = x4.open,
         x4'.choosing = x4.choosing, x4'.picker = x4.picker,
         x5' \subseteq x5 \ {t}, UNCHANGED <<x1, x2, x6, x8>>,
         x7' \in BOOLEAN, x7 => x7',
         \/ \A u \in x5' : u.kind # "prepare"
         \/ \A u \in x5 : u.kind = "stop" /\ u.step = "join" => u \in x5',
         NEW cut \in Visual!Cut \cup {0},
         NEW action \in {"sourceSelected", "loopReady", "discarded", "warning", "failed"},
         Visual!Reply(t, action, cut, x4'), VisualSays(t, action), Visual!CandidateOK',
         t.cur =>
           /\ VisualSaysWell(t, action, cut)
           /\ \/ t.kind \in {"file", "upload", "discard"} /\ Visual!Loop' = 0
              \/ t.kind = "save" /\ action = "warning" /\ Visual!Loop' = 0
              \/ /\ t.kind = "prepare" /\ action = "loopReady"
                 /\ x4'.candidate.source = x4.candidate.source
                 /\ x4'.candidate.kind = x4.candidate.kind,
         ~t.cur =>
           \/ x7' /\ Visual!Loop' = 0
           \/ /\ t.kind = "prepare" /\ Visual!Loop' # 0 /\ x5' = x5 \ {t}
              /\ x4'.candidate.source = x4.candidate.source
              /\ x4'.candidate.kind = x4.candidate.kind
  PROVE  Visual!IInv'
<1>1. Visual!TypeOK /\ t \in Visual!TaskType
  BY DEF Visual!IInv, Visual!TypeOK
<1>2. /\ x3' \in Seq(Visual!Act)
      /\ ~t.cur => x3' = x3
      /\ t.cur => \E a \in Visual!Act : /\ x3' = Append(x3, a) /\ a.act = action /\ a.cut = cut
                                        /\ a.live <=> x2 = <<>>
  BY <1>1, VisualReplyFacts
<1>3. Visual!TypeOK'
  BY <1>1, <1>2 DEF Visual!TypeOK
<1>4. VisualStepOf(t, t)
  <2>1. VisualFollows(t, t)
    BY <1>1 DEF VisualFollows
  <2> QED BY <2>1 DEF VisualStepOf
<1>5. CASE t.cur
  <2>1. PICK a \in Visual!Act : /\ x3' = Append(x3, a) /\ a.act = action /\ a.cut = cut
                                /\ a.live <=> x2 = <<>>
    BY <1>2, <1>5
  <2>2. VisualSays(t, a.act) /\ VisualSaysWell(t, a.act, a.cut) /\ a.act # "checking"
    BY <1>5, <2>1
  <2> QED BY <1>3, <1>4, <1>5, <2>1, <2>2, VisualReplyStep
<1>6. CASE ~t.cur
  <2>1. VisualCandidateGoesOn(t)
    BY <1>6 DEF VisualCandidateGoesOn
  <2>2. x7' \/ \A u \in x5 : u.cur /\ u # t => u \in x5'
    BY <1>6
  <2> QED BY <1>2, <1>3, <1>4, <1>6, <2>1, <2>2, VisualQuietStep
<1> QED BY <1>5, <1>6

LEMMA VisualSelectedPreserves ==
  ASSUME Visual!IInv, NEW t \in x5, Visual!Selected(t), t.cur
  PROVE  Visual!IInv'
<1>1. Visual!TypeOK /\ t \in Visual!TaskType /\ x4.candidate \in Visual!Candidate
      /\ 0 \in Visual!Cut \cup {0}
  BY VisualPageFacts DEF Visual!IInv, Visual!TypeOK
<1>2. PICK c : c = [x4.candidate EXCEPT !.source = TRUE, !.kind = "video"]
  OBVIOUS
<1>3. /\ c \in Visual!Candidate /\ c.accepted = x4.candidate.accepted /\ c.source
      /\ c.local = x4.candidate.local /\ c.kind = "video"
  BY <1>1, <1>2 DEF Visual!Candidate
<1>4. /\ x4' = [x4 EXCEPT !.candidate = c] /\ x5' = x5 \ {t} /\ t.kind = "upload"
      /\ UNCHANGED <<x1, x2, x6, x8, x7>>
      /\ Visual!Reply(t, "sourceSelected", 0, x4')
  BY <1>1, <1>2, VisualPageFacts DEF Visual!Selected, Visual!Unserved, Visual!Replace
<1>5. /\ x4' \in Visual!Page /\ x4'.candidate = c /\ x4'.open = x4.open
      /\ x4'.picker = x4.picker /\ x4'.choosing = x4.choosing
  BY <1>1, <1>3, <1>4, VisualPageWith
<1>6. Visual!Loop' = 0 /\ c.local
  BY <1>3, <1>4, <1>5 DEF Visual!IInv, Visual!CandidateOK, Visual!Loop
<1>7. Visual!CandidateOK'
  BY <1>5, <1>6, VisualNoLoopCandidate
<1>8. VisualSays(t, "sourceSelected") /\ VisualSaysWell(t, "sourceSelected", 0)
  BY <1>3, <1>4, <1>5, <1>6 DEF VisualSays, VisualSaysWell
<1>9. \A u \in x5 : u.kind = "stop" /\ u.step = "join" => u \in x5'
  BY <1>4
<1>10. x7' \in BOOLEAN
  BY <1>1, <1>4 DEF Visual!TypeOK
<1> QED BY <1>1, <1>4, <1>5, <1>6, <1>7, <1>8, <1>9, <1>10, VisualChangedStep

LEMMA VisualAcceptedPreserves ==
  ASSUME Visual!IInv, NEW t \in x5, Visual!Accepted(t)
  PROVE  Visual!IInv'
<1>1. Visual!TypeOK /\ t \in Visual!TaskType /\ x4.candidate \in Visual!Candidate
      /\ t.cut \in Visual!Cut \cup {0}
  BY VisualPageFacts, VisualTaskFacts DEF Visual!IInv, Visual!TypeOK
<1>2. PICK c : c = [x4.candidate EXCEPT !.accepted = t.cut]
  OBVIOUS
<1>3. /\ c \in Visual!Candidate /\ c.accepted = t.cut /\ c.source = x4.candidate.source
      /\ c.local = x4.candidate.local /\ c.kind = x4.candidate.kind
  BY <1>1, <1>2 DEF Visual!Candidate
<1>4. /\ x4' = [x4 EXCEPT !.candidate = c] /\ x5' = x5 \ {t}
      /\ t.kind = "prepare" /\ t.step = "done"
      /\ UNCHANGED <<x1, x2, x6, x8, x7>>
      /\ Visual!Reply(t, "loopReady", t.cut, x4')
  BY <1>1, <1>2, VisualPageFacts DEF Visual!Accepted, Visual!Unserved, Visual!Replace
<1>5. /\ x4' \in Visual!Page /\ x4'.candidate = c /\ x4'.open = x4.open
      /\ x4'.picker = x4.picker /\ x4'.choosing = x4.choosing
  BY <1>1, <1>3, <1>4, VisualPageWith
<1>6. t.cut # 0 /\ Visual!Loop' = t.cut /\ x4.candidate.local
  BY <1>3, <1>4, <1>5 DEF Visual!IInv, Visual!TasksOK, Visual!CandidateOK, Visual!Loop
<1>7. \E u \in x5 : u.cur /\ u.kind \in {"prepare", "stop"}
  BY <1>4 DEF Visual!IInv, Visual!TasksOK
<1>8. Visual!CandidateOK'
  <2>1. x4.open /\ \A u \in x5 : u.cur => u.kind \in {"prepare", "stop"}
    BY <1>7, VisualCurFacts
  <2> QED BY <1>3, <1>4, <1>5, <1>6, <2>1 DEF Visual!IInv, Visual!CandidateOK
<1>9. VisualSays(t, "loopReady") /\ VisualSaysWell(t, "loopReady", t.cut)
  BY <1>4, <1>6 DEF VisualSays, VisualSaysWell
<1>10. \A u \in x5 : u.kind = "stop" /\ u.step = "join" => u \in x5'
  BY <1>4
<1>11. x7' \in BOOLEAN
  BY <1>1, <1>4 DEF Visual!TypeOK
<1> QED BY <1>1, <1>3, <1>4, <1>5, <1>6, <1>8, <1>9, <1>10, <1>11, VisualChangedStep

LEMMA VisualDiscardedPreserves ==
  ASSUME Visual!IInv, NEW t \in x5, Visual!Discarded(t)
  PROVE  Visual!IInv'
<1>1. Visual!TypeOK /\ t \in Visual!TaskType /\ x4.candidate \in Visual!Candidate
      /\ 0 \in Visual!Cut \cup {0}
  BY VisualPageFacts DEF Visual!IInv, Visual!TypeOK
<1>2. t.cur /\ t.kind = "discard"
  BY DEF Visual!Discarded, Visual!IInv, Visual!TasksOK
<1>3. /\ x4' = [x4 EXCEPT !.candidate = Visual!Blank] /\ x5' = x5 \ {t}
      /\ UNCHANGED <<x1, x2, x6, x8, x7>>
      /\ Visual!Reply(t, "discarded", 0, x4')
  BY <1>2 DEF Visual!Discarded, Visual!Unserved, Visual!Replace
<1>4. /\ x4' \in Visual!Page /\ x4'.candidate = Visual!Blank /\ x4'.open = x4.open
      /\ x4'.picker = x4.picker /\ x4'.choosing = x4.choosing
  BY <1>1, <1>3, VisualPageWith, VisualNoCandidate
<1>5. Visual!Loop' = 0 /\ ~x4'.candidate.source
  BY <1>4, VisualNoCandidate DEF Visual!Loop
\* A loop goes on past its operation only while Stop waits for it.
<1>6. \A u \in x5' : u.kind # "prepare" /\ ~(u.cur /\ u.kind = "upload")
  <2>1. \A u \in x5 : u.cur => u = t
    BY <1>2, VisualCurFacts
  <2> QED BY <1>2, <1>3, <2>1 DEF Visual!IInv, Visual!TasksOK
<1>7. Visual!CandidateOK'
  BY <1>4, <1>5, <1>6, VisualNoLoopCandidate
<1>8. VisualSays(t, "discarded") /\ VisualSaysWell(t, "discarded", 0)
  BY <1>2, <1>5 DEF VisualSays, VisualSaysWell
<1>9. x7' \in BOOLEAN
  BY <1>1, <1>3 DEF Visual!TypeOK
<1> QED BY <1>1, <1>2, <1>3, <1>4, <1>5, <1>6, <1>7, <1>8, <1>9, VisualChangedStep

LEMMA VisualFailedPreserves ==
  ASSUME Visual!IInv, NEW t \in x5, Visual!Failed(t),
         t.kind = "upload" \/ (t.kind = "file" /\ t.cur)
  PROVE  Visual!IInv'
<1>1. Visual!TypeOK /\ t \in Visual!TaskType /\ x4.candidate \in Visual!Candidate
      /\ 0 \in Visual!Cut \cup {0}
  BY VisualPageFacts DEF Visual!IInv, Visual!TypeOK
<1>2. PICK c : c = IF t.cur THEN Visual!Blank ELSE Visual!Close(x4.candidate)
  OBVIOUS
<1>3. c \in Visual!Candidate /\ c.accepted = 0 /\ ~c.source
  BY <1>1, <1>2, VisualNoCandidate, VisualCloseFacts
<1>4. /\ x4' = [x4 EXCEPT !.candidate = c] /\ x5' = Visual!Abandon(x5 \ {t})
      /\ UNCHANGED <<x1, x2, x6, x8, x7>>
      /\ Visual!Reply(t, "failed", 0, x4')
  <2>1. x4' = [x4 EXCEPT !.candidate =
                   IF t.kind \in {"upload", "file"} /\ t.cur THEN Visual!Blank
                   ELSE IF t.kind = "upload" THEN Visual!Close(x4.candidate) ELSE x4.candidate]
    BY <1>1, VisualPageFacts DEF Visual!Failed
  <2> QED BY <1>2, <2>1 DEF Visual!Failed, Visual!Unserved
<1>5. /\ x4' \in Visual!Page /\ x4'.candidate = c /\ x4'.open = x4.open
      /\ x4'.picker = x4.picker /\ x4'.choosing = x4.choosing
  BY <1>1, <1>3, <1>4, VisualPageWith
<1>6. Visual!Loop' = 0 /\ ~x4'.candidate.source
  BY <1>3, <1>5 DEF Visual!Loop
<1>7. x5' \subseteq x5 \ {t} /\ \A u \in x5' : u.kind \notin Visual!Trimmer
  BY <1>4 DEF Visual!Abandon
<1>8. Visual!CandidateOK'
  BY <1>5, <1>6, <1>7, VisualNoLoopCandidate DEF Visual!Trimmer
<1>9. VisualSays(t, "failed") /\ VisualSaysWell(t, "failed", 0)
  BY <1>6 DEF VisualSays, VisualSaysWell
<1>10. x7' \in BOOLEAN /\ (~t.cur => x7')
  BY <1>1, <1>4 DEF Visual!TypeOK, Visual!IInv, Visual!TasksOK
<1> QED BY <1>1, <1>4, <1>5, <1>6, <1>7, <1>8, <1>9, <1>10, VisualChangedStep DEF Visual!Trimmer

LEMMA VisualSavedWithWarningPreserves ==
  ASSUME Visual!IInv, NEW t \in x5, Visual!SavedWithWarning(t)
  PROVE  Visual!IInv'
<1>1. Visual!TypeOK /\ t \in Visual!TaskType /\ x4 \in Visual!Page /\ x6 \in Visual!Server
      /\ 0 \in Visual!Cut \cup {0}
      /\ t.cur \in BOOLEAN
  BY VisualTaskFacts DEF Visual!IInv, Visual!TypeOK
<1>2. /\ t.kind = "save" /\ x5' = Visual!Abandon(x5 \ {t})
      /\ UNCHANGED <<x1, x2, x6, x8>> /\ x7' = (x7 \/ ~t.cur)
      /\ Visual!Reply(t, "warning", 0, x4')
  BY DEF Visual!SavedWithWarning, Visual!Stray, Visual!Unserved
<1>3. PICK broken \in BOOLEAN : x4' = [x4 EXCEPT !.saved = x6.saved,
                                           !.candidate = Visual!Blank, !.broken = @ \/ broken]
  BY DEF Visual!SavedWithWarning
<1>4. PICK b \in BOOLEAN : b = (x4.broken \/ broken)
  OBVIOUS
<1>5. x4' = [open |-> x4.open, picker |-> x4.picker, choosing |-> x4.choosing,
               saved |-> x6.saved, broken |-> b, candidate |-> Visual!Blank]
  BY <1>1, <1>3, <1>4, VisualPageFacts
<1>6. /\ x4' \in Visual!Page /\ x4'.candidate = Visual!Blank /\ x4'.open = x4.open
      /\ x4'.picker = x4.picker /\ x4'.choosing = x4.choosing
  BY <1>1, <1>5, VisualPageFacts, VisualNoCandidate DEF Visual!Page, Visual!Server
<1>7. Visual!Loop' = 0 /\ ~x4'.candidate.source
  BY <1>6, VisualNoCandidate DEF Visual!Loop
<1>8. x5' \subseteq x5 \ {t} /\ \A u \in x5' : u.kind \notin Visual!Trimmer
  BY <1>2 DEF Visual!Abandon
<1>9. Visual!CandidateOK'
  BY <1>6, <1>7, <1>8, VisualNoLoopCandidate DEF Visual!Trimmer
<1>10. VisualSays(t, "warning") /\ VisualSaysWell(t, "warning", 0)
  BY <1>2, <1>7 DEF VisualSays, VisualSaysWell
<1>11. x7' \in BOOLEAN /\ (x7 => x7') /\ (~t.cur => x7')
  BY <1>1, <1>2 DEF Visual!TypeOK
<1> QED BY <1>1, <1>2, <1>6, <1>7, <1>8, <1>9, <1>10, <1>11, VisualChangedStep DEF Visual!Trimmer

-----------------------------------------------------------------------------
(* The file picker.                                                         *)

LEMMA VisualChoosingFacts ==
  ASSUME Visual!IInv, x4.picker, x4.choosing
  PROVE  /\ Visual!Working /\ x4.open /\ \A u \in x5 : ~u.cur
         /\ x2 = <<>> => Visual!Screen
         /\ Visual!Screen =>
              /\ x1.request # ""
              /\ x2 = <<>> => x1.request = "choose"
              /\ x2 # <<>> => x1.request \in {"load", "discardVideo"}
              /\ \A i \in DOMAIN x3 : ~Visual!Final(i)
<1>1. Visual!Working
  BY DEF Visual!Working
<1>2. x4.open /\ \A u \in x5 : ~u.cur
  BY DEF Visual!IInv, Visual!TasksOK
<1>3. Visual!Screen => x1.request # ""
  BY <1>1 DEF Visual!IInv, Visual!FramesOK, Visual!LastOK
<1>4. x2 = <<>> => Visual!Screen /\ x1.request = "choose"
  BY <1>2, <1>3 DEF Visual!IInv, Visual!FramesOK, Visual!LastOK
<1>5. ASSUME Visual!Screen, x2 # <<>>
      PROVE  x1.request \in {"load", "discardVideo"}
  <2> DEFINE n == Len(x2)
  <2>1. /\ n \in DOMAIN x2 /\ x2[n].open /\ x2[n].request = x1.request
        /\ x1.request \in Visual!Requests
    BY <1>5, VisualFrameFacts
       DEF Visual!IInv, Visual!TypeOK, Visual!TuiState, Visual!FramesOK, Visual!LastOK
  <2> HIDE DEF n
  <2>2. Visual!BeginsOne(n) /\ Visual!StopsOne(n)
    BY <2>1 DEF Visual!IInv, Visual!FramesOK, Visual!QueueOK
  <2>3. ~Visual!Fresh(x2[n]) /\ x1.request # "stopPreview"
    BY <1>1, <2>1, <2>2 DEF Visual!BeginsOne, Visual!StopsOne
  <2> QED BY <2>1, <2>3 DEF Visual!Fresh, Visual!Requests
<1>6. Visual!Screen => \A i \in DOMAIN x3 : ~Visual!Final(i)
  BY <1>1, <1>3 DEF Visual!IInv, Visual!ActsOK
<1> QED BY <1>1, <1>2, <1>3, <1>4, <1>5, <1>6

\* Of the candidate only its file changes.
VisualSameVideo ==
  /\ x4'.candidate.local <=> x4.candidate.local
  /\ x4'.candidate.source <=> x4.candidate.source
  /\ x4'.candidate.accepted = x4.candidate.accepted
  /\ x4'.candidate.kind = x4.candidate.kind

\* The picker is closed: with a file, without one, or with none chosen.
VisualPickerEnds(m, a) ==
  \/ x5' = x5 \cup {m} /\ x4.choosing /\ x3' = x3
  \/ x5' = x5 /\ ~x4.choosing /\ x3' = x3
  \/ x5' = x5 /\ ~x4.open /\ x3' = x3
  \/ x5' = x5 /\ x4.open /\ x3' = Append(x3, a)

LEMMA VisualPickerStep ==
  ASSUME Visual!IInv, x4.picker, x4' \in Visual!Page, ~x4'.picker, x4'.open = x4.open,
         x4'.choosing = x4.choosing, VisualSameVideo,
         UNCHANGED <<x1, x2, x6>>, x7' <=> x7, x8' <=> x8,
         NEW m \in Visual!TaskType, m.cur, m.kind = "file", m.step \in Visual!FileType,
         NEW a \in Visual!Act, a.act = "cancelled", a.live <=> x2 = <<>>,
         VisualPickerEnds(m, a)
  PROVE  Visual!IInv'
<1>1. Visual!TypeOK /\ x3 \in Seq(Visual!Act)
  BY DEF Visual!IInv, Visual!TypeOK
<1>2. PICK n : n = Len(x3) + 1
  OBVIOUS
<1>d. \/ x5' = x5 \cup {m} /\ x4.choosing /\ x3' = x3
      \/ x5' = x5 /\ ~x4.choosing /\ x3' = x3
      \/ x5' = x5 /\ ~x4.open /\ x3' = x3
      \/ x5' = x5 /\ x4.open /\ x3' = Append(x3, a)
  BY DEF VisualPickerEnds
<1>3. /\ x3' \in Seq(Visual!Act)
      /\ \A i \in DOMAIN x3 : i \in DOMAIN x3' /\ x3'[i] = x3[i]
      /\ \A i \in DOMAIN x3' : \/ i \in DOMAIN x3
                               \/ i = n /\ x3'[i] = a /\ x4.open /\ x5' = x5
      /\ x3' # x3 => n \in DOMAIN x3' /\ x3'[n] = a
  <2>1. CASE x3' = x3
    BY <1>1, <2>1
  <2>2. CASE x3' # x3
    <3>1. x3' = Append(x3, a) /\ x4.open /\ x5' = x5
      BY <1>d, <2>2
    <3>2. /\ x3' \in Seq(Visual!Act) /\ DOMAIN x3' = DOMAIN x3 \cup {n} /\ x3'[n] = a
          /\ \A i \in DOMAIN x3 : x3'[i] = x3[i]
      BY <1>1, <1>2, <3>1, VisualAppendFacts
    <3> QED BY <3>1, <3>2
  <2> QED BY <2>1, <2>2
<1>4. /\ x1' = x1 /\ x2' = x2
      /\ x5 \subseteq x5'
      /\ \A u \in x5' : u \in x5 \/ (u = m /\ x4.choosing /\ x3' = x3)
      /\ x4.choosing /\ x4.open => m \in x5' \/ x3' = Append(x3, a)
  BY <1>d
<1>e. x1' = x1 /\ x2' = x2
  OBVIOUS
<1>5. /\ Visual!Loop' = Visual!Loop /\ (Visual!Screen' <=> Visual!Screen)
      /\ (Visual!Current' <=> Visual!Current)
      /\ (Visual!HoldsVideo' <=> Visual!HoldsVideo)
  BY <1>4 DEF Visual!Loop, Visual!Screen, Visual!Current, Visual!HoldsVideo, VisualSameVideo
<1>f. x3' = Append(x3, a) => n \in DOMAIN x3' /\ x3'[n] = a
  BY <1>1, <1>2, VisualAppendFacts
<1>6. Visual!Working' => Visual!Working
  BY <1>4 DEF Visual!Working
<1>7. Visual!TypeOK'
  BY <1>1, <1>3, <1>4 DEF Visual!TypeOK, Visual!IInv
<1>8. Visual!ScreenOK'
  BY <1>4, <1>5 DEF Visual!IInv, Visual!ScreenOK
<1>9. Visual!FramesOK'
  <2>1. ASSUME NEW i \in DOMAIN x2
        PROVE  Visual!BeginsOne(i)' /\ Visual!StopsOne(i)' /\ Visual!DiscardsOne(i)'
               /\ Visual!OpensOne(i)'
    <3>1. Visual!BeginsOne(i) /\ Visual!StopsOne(i) /\ Visual!DiscardsOne(i) /\ Visual!OpensOne(i)
      BY DEF Visual!IInv, Visual!FramesOK, Visual!QueueOK
    <3>2. Visual!BeginsOne(i)'
      BY <1>4, <1>6, <3>1 DEF Visual!BeginsOne
    <3>3. Visual!StopsOne(i)'
      BY <1>4, <3>1 DEF Visual!StopsOne
    <3>4. Visual!DiscardsOne(i)' /\ Visual!OpensOne(i)'
      BY <1>4, <3>1 DEF Visual!DiscardsOne, Visual!OpensOne, Visual!OpenBefore
    <3> QED BY <3>2, <3>3, <3>4
  <2>2. Visual!LastOK'
    BY <1>4, <1>5, <1>6 DEF Visual!IInv, Visual!FramesOK, Visual!LastOK
  <2> QED BY <1>4, <2>1, <2>2 DEF Visual!FramesOK, Visual!QueueOK
<1>10. Visual!TasksOK'
  <2>1. x4.choosing => x4.open /\ \A u \in x5 : ~u.cur
    BY DEF Visual!IInv, Visual!TasksOK
  <2>2. \A u, v \in x5' : u.cur /\ v.cur => u = v
    BY <1>4, <2>1 DEF Visual!IInv, Visual!TasksOK
  <2>3. ~x4'.open => ~x4'.choosing /\ \A u \in x5' : ~u.cur
    BY <1>4, <2>1 DEF Visual!IInv, Visual!TasksOK
  <2>4. ASSUME Visual!Screen, NEW u \in x5', u.cur
        PROVE  u.kind \in Visual!Kinds(x1'.request) \/ Visual!Outlived(u)'
    <3>1. CASE u \in x5
      BY <1>4, <2>4, <3>1 DEF Visual!IInv, Visual!TasksOK, Visual!Outlived
    <3>2. CASE u = m /\ x4.choosing
      <4>1. x2 = <<>> => x1.request = "choose"
        BY <2>4, <3>2, VisualChoosingFacts
      <4>2. x2 # <<>> => x1.request \in {"load", "discardVideo"}
        BY <2>4, <3>2, VisualChoosingFacts
      <4> QED BY <1>4, <3>2, <4>1, <4>2 DEF Visual!Kinds, Visual!Outlived
    <3> QED BY <1>4, <3>1, <3>2
  <2>5. ASSUME NEW u \in x5'
        PROVE  /\ u.kind \in {"stop", "discard"} => u.cur
               /\ u.kind = "upload" => u.cur \/ x7'
               /\ u.kind = "save" => u.step \in Visual!Saves
               /\ u.kind = "prepare" =>
                    /\ u.cut # 0
                    /\ u.cur \/ \E v \in x5' : v.cur /\ v.kind = "stop" /\ v.step = "join"
    BY <1>4 DEF Visual!IInv, Visual!TasksOK
  <2> QED BY <1>5, <2>2, <2>3, <2>4, <2>5 DEF Visual!TasksOK
<1>11. Visual!ActsOK'
  <2> SUFFICES ASSUME Visual!Screen, x1.request # ""
               PROVE  /\ \A i \in DOMAIN x3' : x3'[i].live =>
                           /\ x2 = <<>>
                           /\ \/ x3'[i].act \in Visual!Finals(x1.request)
                              \/ x3'[i].act = "checking" /\ x1.request = "choose"
                              \/ x3'[i].act = "cancelled" /\ x1.request # "choose"
                      /\ \A i, j \in DOMAIN x3' : Visual!Final(i)' /\ Visual!Final(j)' => i = j
                      /\ \A i \in DOMAIN x3' : Visual!Final(i)' => ~Visual!Working'
                      /\ ~x7 =>
                           x2 # <<>> \/ Visual!Working' \/ \E i \in DOMAIN x3' : Visual!Final(i)'
    BY <1>e, <1>5 DEF Visual!ActsOK
  <2>1. a.act \in Visual!Finals(x1.request) <=> x1.request = "choose"
    <3>1. x1.request \in Visual!Requests
      BY <1>1 DEF Visual!TypeOK, Visual!TuiState
    <3> QED BY <3>1 DEF Visual!Finals, Visual!Requests
  <2>2. x2 = <<>> => x4.open /\ (x4.choosing <=> x1.request = "choose")
    BY DEF Visual!IInv, Visual!FramesOK, Visual!LastOK
  <2>3. ASSUME NEW i \in DOMAIN x3', x3'[i].live
        PROVE  /\ x2 = <<>>
               /\ \/ x3'[i].act \in Visual!Finals(x1.request)
                  \/ x3'[i].act = "checking" /\ x1.request = "choose"
                  \/ x3'[i].act = "cancelled" /\ x1.request # "choose"
    <3>1. CASE i \in DOMAIN x3
      BY <1>3, <2>3, <3>1 DEF Visual!IInv, Visual!ActsOK
    <3>2. CASE x3'[i] = a
      BY <2>1, <2>3, <3>2
    <3> QED BY <1>3, <3>1, <3>2
  <2>4. \A i \in DOMAIN x3 : Visual!Final(i)' <=> Visual!Final(i)
    BY <1>3, <1>4 DEF Visual!Final
  <2>5. ASSUME NEW i \in DOMAIN x3', i \notin DOMAIN x3, Visual!Final(i)'
        PROVE  /\ i = n /\ ~Visual!Working' /\ \A j \in DOMAIN x3 : ~Visual!Final(j)
    <3>1. i = n /\ x3'[i] = a /\ a.live /\ a.act \in Visual!Finals(x1.request) /\ x5' = x5
      BY <1>3, <1>4, <2>5 DEF Visual!Final
    <3>2. x4.choosing
      BY <2>1, <2>2, <3>1
    <3>3. (\A j \in DOMAIN x3 : ~Visual!Final(j)) /\ \A u \in x5 : ~u.cur
      BY <3>2, VisualChoosingFacts
    <3> QED BY <3>1, <3>3 DEF Visual!Working
  <2>6. \A i, j \in DOMAIN x3' : Visual!Final(i)' /\ Visual!Final(j)' => i = j
    BY <2>4, <2>5 DEF Visual!IInv, Visual!ActsOK
  <2>7. \A i \in DOMAIN x3' : Visual!Final(i)' => ~Visual!Working'
    BY <1>6, <2>4, <2>5 DEF Visual!IInv, Visual!ActsOK
  <2>8. ASSUME ~x7, x2 = <<>>
        PROVE  Visual!Working' \/ \E i \in DOMAIN x3' : Visual!Final(i)'
    <3>1. CASE \E i \in DOMAIN x3 : Visual!Final(i)
      BY <1>3, <2>4, <3>1
    <3>2. CASE ~x4.choosing
      <4>1. CASE Visual!Working
        BY <1>4, <3>2, <4>1 DEF Visual!Working
      <4> QED BY <2>8, <3>1, <4>1 DEF Visual!IInv, Visual!ActsOK
    <3>3. CASE x4.choosing
      <4>1. CASE m \in x5'
        BY <4>1 DEF Visual!Working
      <4>2. CASE m \notin x5'
        <5>1. x3' = Append(x3, a)
          BY <1>4, <2>2, <2>8, <3>3, <4>2
        <5>3. a.live /\ a.act \in Visual!Finals(x1.request)
          BY <2>1, <2>2, <2>8, <3>3
        <5>4. n \in DOMAIN x3' /\ x3'[n] = a
          BY <1>f, <5>1
        <5>5. Visual!Final(n)'
          BY <1>4, <5>3, <5>4 DEF Visual!Final
        <5> QED BY <5>4, <5>5
      <4> QED BY <4>1, <4>2
    <3> QED BY <3>2, <3>3
  <2> QED BY <2>3, <2>6, <2>7, <2>8
<1>12. Visual!CandidateOK'
  <2>1. VisualFits(m)
    BY DEF VisualFits, Visual!FileType
  <2>2. \A u \in x5' : u \in x5 \/ VisualFits(u)
    BY <1>4, <2>1
  <2> QED BY <2>2, VisualSameCandidate DEF VisualSameVideo
<1>13. Visual!AnswersOK'
  <2> SUFFICES ASSUME Visual!Screen, x1.request # "", NEW i \in DOMAIN x3', x3'[i].live,
                      x3'[i].act # "cancelled"
               PROVE  /\ x3'[i].act \in {"sourceSelected", "selected", "warning", "discarded"}
                           => Visual!Loop' = 0
                      /\ x3'[i].act = "failed" /\ x1.request = "choose" => Visual!Loop' = 0 \/ x8'
                      /\ x3'[i].act = "failed" /\ x1.request = "stopPreview" => x8'
                      /\ x3'[i].act = "loopReady" => x3'[i].cut # 0 /\ Visual!KnownLoop(x3[i])'
                      /\ x3'[i].act = "previewStopped" => Visual!KnownLoop(x3[i])'
                      /\ x3'[i].act = "sourceSelected" /\ ~x7' =>
                           x4'.candidate.source /\ x4'.candidate.kind = "video"
    BY <1>4, <1>5 DEF Visual!AnswersOK
  <2>1. i \in DOMAIN x3 /\ x3'[i] = x3[i]
    BY <1>3
  <2>2. Visual!KnownLoop(x3[i]) => Visual!KnownLoop(x3[i])'
    <3>1. Visual!KnownLoop(x3[i]) => x3'[i].cut = Visual!Loop' \/ (x7' /\ Visual!Loop' = 0)
      BY <1>5, <2>1 DEF Visual!KnownLoop
    <3> QED BY <3>1 DEF Visual!KnownLoop
  <2>3. x4.candidate.source /\ x4.candidate.kind = "video" =>
          x4'.candidate.source /\ x4'.candidate.kind = "video"
    BY DEF VisualSameVideo
  <2> QED BY <1>e, <1>5, <2>1, <2>2, <2>3 DEF Visual!IInv, Visual!AnswersOK
<1>14. Visual!NewVideoIsHeld'
  <2>1. ASSUME NEW action, \E i \in DOMAIN x3 : x3[i].live /\ x3[i].act = action
        PROVE  \E i \in DOMAIN x3' : x3'[i].live /\ x3'[i].act = action
    BY <1>3, <2>1
  <2> QED BY <1>3, <1>4, <1>5, <2>1 DEF Visual!IInv, Visual!NewVideoIsHeld
<1>15. Visual!LoopIsKnown'
  BY <1>3, <1>4, <1>5 DEF Visual!IInv, Visual!LoopIsKnown
<1>16. Visual!SavesOK'
  BY <1>4, <1>5 DEF Visual!IInv, Visual!SavesOK
<1> QED BY <1>7, <1>8, <1>9, <1>10, <1>11, <1>12, <1>13, <1>14, <1>15, <1>16 DEF Visual!IInv

LEMMA VisualPickerClosed ==
  ASSUME Visual!TypeOK, NEW c \in Visual!Candidate, NEW p,
         p = [open |-> x4.open, picker |-> FALSE, choosing |-> x4.choosing,
              saved |-> x4.saved, broken |-> x4.broken, candidate |-> c]
  PROVE  /\ p \in Visual!Page /\ ~p.picker /\ p.open = x4.open
         /\ p.choosing = x4.choosing /\ p.candidate = c
  BY VisualPageFacts DEF Visual!Page

LEMMA VisualPickedFacts ==
  ASSUME Visual!TypeOK, NEW file \in {"none", "image", "video"},
         x4' = [x4 EXCEPT !.picker = FALSE, !.candidate.file = file]
  PROVE  /\ x4' \in Visual!Page /\ ~x4'.picker /\ x4'.open = x4.open
         /\ x4'.choosing = x4.choosing /\ VisualSameVideo
<1> DEFINE c == [x4.candidate EXCEPT !.file = file]
<1>1. x4' = [open |-> x4.open, picker |-> FALSE, choosing |-> x4.choosing,
               saved |-> x4.saved, broken |-> x4.broken, candidate |-> c]
  BY VisualPageFacts
<1>2. /\ c \in Visual!Candidate /\ (c.local <=> x4.candidate.local)
      /\ (c.source <=> x4.candidate.source) /\ c.accepted = x4.candidate.accepted
      /\ c.kind = x4.candidate.kind
  BY VisualPageFacts DEF Visual!Candidate
<1> HIDE DEF c
<1>3. /\ x4' \in Visual!Page /\ ~x4'.picker /\ x4'.open = x4.open
      /\ x4'.choosing = x4.choosing /\ x4'.candidate = c
  BY <1>1, <1>2, VisualPickerClosed
<1>5. VisualSameVideo
  BY <1>2, <1>3 DEF VisualSameVideo
<1> QED BY <1>3, <1>5

LEMMA VisualPickPreserves ==
  ASSUME Visual!IInv, Visual!Pick
  PROVE  Visual!IInv'
<1>1. /\ Visual!TypeOK /\ x4.picker /\ UNCHANGED <<x1, x2, x6>>
      /\ x7' <=> x7
      /\ x8' <=> x8
      /\ x3' = x3
  BY DEF Visual!Pick, Visual!Unserved, Visual!IInv
<1>2. PICK a \in Visual!Act : a.act = "cancelled" /\ (a.live <=> x2 = <<>>)
  <2> DEFINE b == [act |-> "cancelled", cut |-> 0, video |-> FALSE, live |-> x2 = <<>>]
  <2>1. b \in Visual!Act /\ b.act = "cancelled" /\ (b.live <=> x2 = <<>>)
    BY DEF Visual!Act
  <2> QED BY <2>1
<1>3. CASE x4.choosing
  <2>1. PICK type \in Visual!FileType :
          /\ x4' = [x4 EXCEPT !.picker = FALSE, !.candidate.file = type]
          /\ x5' = x5 \cup {Visual!Task("file", type, 0)}
    BY <1>3 DEF Visual!Pick
  <2>2. PICK m : m = Visual!Task("file", type, 0)
    OBVIOUS
  <2>3. m \in Visual!TaskType /\ m.cur /\ m.kind = "file" /\ m.step \in Visual!FileType
    BY <2>2 DEF Visual!Task, Visual!TaskType, Visual!FileType
  <2>4. VisualPickerEnds(m, a)
    BY <1>1, <1>3, <2>1, <2>2 DEF VisualPickerEnds
  <2>5. /\ x4' \in Visual!Page /\ ~x4'.picker /\ x4'.open = x4.open
        /\ x4'.choosing = x4.choosing /\ VisualSameVideo
    BY <1>1, <2>1, VisualPickedFacts DEF Visual!FileType
  <2> QED BY <1>1, <1>2, <2>3, <2>4, <2>5, VisualPickerStep
<1>4. CASE ~x4.choosing
  <2>1. x4' = [x4 EXCEPT !.picker = FALSE, !.candidate.file = "none"] /\ x5' = x5
    BY <1>4 DEF Visual!Pick
  <2>2. PICK m : m = Visual!Task("file", "image", 0)
    OBVIOUS
  <2>3. m \in Visual!TaskType /\ m.cur /\ m.kind = "file" /\ m.step \in Visual!FileType
    BY <2>2 DEF Visual!Task, Visual!TaskType, Visual!FileType
  <2>4. VisualPickerEnds(m, a)
    BY <1>1, <1>4, <2>1 DEF VisualPickerEnds
  <2>5. /\ x4' \in Visual!Page /\ ~x4'.picker /\ x4'.open = x4.open
        /\ x4'.choosing = x4.choosing /\ VisualSameVideo
    BY <1>1, <2>1, VisualPickedFacts
  <2> QED BY <1>1, <1>2, <2>3, <2>4, <2>5, VisualPickerStep
<1> QED BY <1>3, <1>4

LEMMA VisualCancelPickPreserves ==
  ASSUME Visual!IInv, Visual!CancelPick
  PROVE  Visual!IInv'
<1>1. /\ Visual!TypeOK /\ x4.picker /\ UNCHANGED <<x1, x2, x6>>
      /\ x7' <=> x7
      /\ x8' <=> x8
      /\ x5' = x5
      /\ x4' = [x4 EXCEPT !.picker = FALSE]
  BY DEF Visual!CancelPick, Visual!Unserved, Visual!IInv
<1>2. PICK live \in BOOLEAN, video \in BOOLEAN :
        /\ live <=> x2 = <<>>
        /\ x3' = IF x4.open
                   THEN Append(x3, [act |-> "cancelled", cut |-> 0, video |-> video, live |-> live])
                   ELSE x3
  <2> DEFINE v == IF x4.candidate.kind = "none" THEN x4.saved = "video"
                  ELSE x4.candidate.kind = "video"
             l == x2 = <<>>
  <2>1. v \in BOOLEAN /\ l \in BOOLEAN
    OBVIOUS
  <2>2. x3' = IF x4.open
                THEN Append(x3, [act |-> "cancelled", cut |-> 0, video |-> v, live |-> l])
                ELSE x3
    <3> DEFINE u == [Visual!Task("file", "image", 0) EXCEPT !.cur = x4.open]
    <3>1. u.cur = x4.open
      BY DEF Visual!Task
    <3>2. x3' = IF u.cur
                  THEN Append(x3, [act |-> "cancelled", cut |-> 0, video |-> v, live |-> l])
                  ELSE x3
      BY DEF Visual!CancelPick, Visual!Reply
    <3> HIDE DEF u, v, l
    <3> QED BY <3>1, <3>2
  <2> HIDE DEF v, l
  <2>3. l <=> x2 = <<>>
    BY DEF l
  <2> QED BY <2>1, <2>2, <2>3
<1> DEFINE a == [act |-> "cancelled", cut |-> 0, video |-> video, live |-> live]
<1>3. a \in Visual!Act /\ a.act = "cancelled" /\ (a.live <=> x2 = <<>>)
  BY <1>2 DEF Visual!Act
<1>4. x3' = IF x4.open THEN Append(x3, a) ELSE x3
  BY <1>2
<1> HIDE DEF a
<1>5. PICK m : m = Visual!Task("file", "image", 0)
  OBVIOUS
<1>6. m \in Visual!TaskType /\ m.cur /\ m.kind = "file" /\ m.step \in Visual!FileType
  BY <1>5 DEF Visual!Task, Visual!TaskType, Visual!FileType
<1>7. VisualPickerEnds(m, a)
  BY <1>1, <1>4 DEF VisualPickerEnds
<1>8. /\ x4' \in Visual!Page /\ ~x4'.picker /\ x4'.open = x4.open
      /\ x4'.choosing = x4.choosing /\ VisualSameVideo
  <2>1. x4' = [open |-> x4.open, picker |-> FALSE, choosing |-> x4.choosing,
                 saved |-> x4.saved, broken |-> x4.broken, candidate |-> x4.candidate]
    BY <1>1, VisualPageFacts
  <2> QED BY <1>1, <2>1, VisualPageFacts DEF Visual!Page, VisualSameVideo
<1> QED BY <1>1, <1>3, <1>6, <1>7, <1>8, VisualPickerStep

-----------------------------------------------------------------------------
(* The program takes the first answer, or drops it.                         *)

LEMMA VisualAnsweredFacts ==
  ASSUME Visual!TypeOK
  PROVE  /\ Visual!Answered \in Visual!TuiState /\ Visual!Answered.at = x1.at
         /\ Visual!Answered.request = ""
         /\ ~Visual!Answered.checking
         /\ Visual!Answered.newVideo <=> x1.newVideo
         /\ Visual!Answered.ready <=> x1.ready
         /\ Visual!Answered.accepted = x1.accepted
  BY DEF Visual!TypeOK, Visual!TuiState, Visual!Answered, Visual!Requests

\* The controls without a new video.
VisualWithout(s, video) == [Visual!Unsaved(s) EXCEPT !.video = video]

LEMMA VisualUnsavedAnswer ==
  ASSUME NEW s \in Visual!TuiState, NEW video \in BOOLEAN, NEW r,
         r = VisualWithout(s, video)
  PROVE  /\ r \in Visual!TuiState /\ r.request = s.request /\ (r.checking <=> s.checking)
         /\ ~r.newVideo
         /\ s.at \in {"form", "trim"} => r.at = "form"
<1> DEFINE there == IF s.at = "trim" THEN "form" ELSE s.at
<1>1. r = [at |-> there, request |-> s.request, checking |-> s.checking, video |-> video,
           newVideo |-> FALSE, ready |-> FALSE, cut |-> 1, accepted |-> 1]
  BY DEF Visual!Unsaved, VisualWithout, Visual!TuiState
<1>2. there \in {"away", "menu", "form", "trim"}
  BY DEF Visual!TuiState
<1>3. s.at \in {"form", "trim"} => there = "form"
  OBVIOUS
<1>4. 1 \in Visual!Cut /\ s.request \in Visual!Requests /\ s.checking \in BOOLEAN
  BY VisualCutFacts DEF Visual!TuiState
<1> HIDE DEF there
<1>5. r \in Visual!TuiState
  BY <1>1, <1>2, <1>4 DEF Visual!TuiState
<1>6. /\ r.request = s.request /\ r.checking = s.checking /\ r.newVideo = FALSE
      /\ r.at = there
  BY <1>1
<1> QED BY <1>3, <1>5, <1>6

\* What becomes of the controls.
VisualBecomes(s, a) ==
  /\ s \in Visual!TuiState /\ s.request = "" /\ ~s.checking
  /\ IF a.act = "saved" THEN s.at = "away" ELSE s.at \in {"form", "trim"}
  /\ a.act \in {"selected", "discarded", "warning", "saved"} => ~s.newVideo
  /\ a.act = "failed" /\ x1.request = "choose" => ~s.newVideo
  /\ a.act = "sourceSelected" => ~s.ready
  /\ a.act = "loopReady" => s.ready /\ s.accepted = a.cut
  /\ a.act = "previewStopped" /\ a.cut # 0 => s.ready /\ s.accepted = a.cut
  /\ a.act = "previewStopped" /\ a.cut = 0 => (s.ready <=> x1.ready) /\ s.accepted = x1.accepted
  /\ a.act \in {"loopReady", "previewStopped"} => (s.newVideo <=> x1.newVideo)
  /\ \/ a.act \in {"loaded", "cancelled", "unconfirmed"}
     \/ a.act = "failed" /\ x1.request # "choose"
     => /\ s.newVideo <=> x1.newVideo
        /\ s.ready <=> x1.ready
        /\ s.accepted = x1.accepted

LEMMA VisualShownAnswer ==
  ASSUME NEW s \in Visual!TuiState, NEW cut \in Visual!Cut, NEW r, r = Visual!Shown(s, cut)
  PROVE  /\ r \in Visual!TuiState /\ r.request = s.request /\ (r.checking <=> s.checking)
         /\ r.at = s.at
         /\ r.newVideo <=> s.newVideo
         /\ r.ready /\ r.accepted = cut
  BY DEF Visual!Shown, Visual!TuiState

LEMMA VisualVideoAnswer ==
  ASSUME NEW s \in Visual!TuiState, NEW video \in BOOLEAN, NEW r, r = [s EXCEPT !.video = video]
  PROVE  /\ r \in Visual!TuiState /\ r.request = s.request /\ (r.checking <=> s.checking)
         /\ r.at = s.at
         /\ r.newVideo <=> s.newVideo
         /\ r.ready <=> s.ready
         /\ r.accepted = s.accepted
  BY DEF Visual!TuiState

LEMMA VisualAfterFacts ==
  ASSUME Visual!TypeOK, Visual!Screen, NEW a \in Visual!Act, a.act # "checking",
         a.act = "loopReady" => a.cut # 0
  PROVE  VisualBecomes(Visual!After(a), a)
<1>3. PICK s : s = Visual!Answered
  OBVIOUS
<1>1. /\ s \in Visual!TuiState /\ s.at \in {"form", "trim"} /\ s.request = ""
      /\ ~s.checking
      /\ s.newVideo <=> x1.newVideo
      /\ s.ready <=> x1.ready
      /\ s.accepted = x1.accepted
  BY <1>3, VisualAnsweredFacts DEF Visual!Screen
<1>2. a.video \in BOOLEAN /\ a.cut \in Visual!Cut \cup {0}
      /\ a.act \in {"cancelled", "selected", "sourceSelected", "loopReady", "previewStopped",
                    "discarded", "loaded", "saved", "warning", "failed", "unconfirmed"}
  BY DEF Visual!Act
<1>4. PICK u : u = VisualWithout(s, a.video)
  OBVIOUS
<1>5. /\ u \in Visual!TuiState /\ u.request = "" /\ ~u.checking /\ ~u.newVideo /\ u.at = "form"
  BY <1>1, <1>2, <1>4, VisualUnsavedAnswer
<1>6. CASE a.act = "sourceSelected"
  <2>1. Visual!After(a) = [s EXCEPT !.at = "trim", !.video = TRUE, !.newVideo = TRUE, !.ready = FALSE,
                             !.cut = 1, !.accepted = 1]
    BY <1>3, <1>6 DEF Visual!After
  <2>2. PICK r : r = Visual!After(a)
    OBVIOUS
  <2>3. /\ r \in Visual!TuiState /\ r.request = "" /\ ~r.checking /\ r.at = "trim" /\ ~r.ready
    BY <1>1, <1>3, <2>1, <2>2, VisualCutFacts DEF Visual!TuiState
  <2> QED BY <1>6, <2>2, <2>3 DEF VisualBecomes
<1>7. CASE a.act = "selected"
  <2>1. Visual!After(a) = [s EXCEPT !.newVideo = FALSE, !.video = a.video, !.cut = 1, !.accepted = 1]
    BY <1>3, <1>7 DEF Visual!After
  <2>2. PICK r : r = Visual!After(a)
    OBVIOUS
  <2>3. /\ r \in Visual!TuiState /\ r.request = "" /\ ~r.checking /\ r.at = s.at /\ ~r.newVideo
    BY <1>1, <1>2, <1>3, <2>1, <2>2, VisualCutFacts DEF Visual!TuiState
  <2> QED BY <1>1, <1>3, <1>7, <2>2, <2>3 DEF VisualBecomes
<1>8. CASE a.act = "loopReady"
  <2>1. Visual!After(a) = Visual!Shown(s, a.cut)
    BY <1>3, <1>8 DEF Visual!After
  <2>2. a.cut \in Visual!Cut
    BY <1>2, <1>8
  <2>3. PICK r : r = Visual!After(a)
    OBVIOUS
  <2>4. /\ r \in Visual!TuiState /\ r.request = s.request /\ (r.checking <=> s.checking)
        /\ r.at = s.at
        /\ r.newVideo <=> s.newVideo
        /\ r.ready /\ r.accepted = a.cut
    <3>1. s \in Visual!TuiState /\ r = Visual!Shown(s, a.cut)
      BY <1>1, <2>1, <2>3
    <3> QED BY <2>2, <3>1, VisualShownAnswer
  <2> QED BY <1>1, <1>3, <1>8, <2>3, <2>4 DEF VisualBecomes
<1>9. CASE a.act = "previewStopped"
  <2>1. Visual!After(a) = IF a.cut = 0 \/ (x1.ready /\ x1.accepted = a.cut) THEN s
                   ELSE Visual!Shown(s, a.cut)
    BY <1>3, <1>9 DEF Visual!After, Visual!AfterStop
  <2>2. CASE a.cut = 0 \/ (x1.ready /\ x1.accepted = a.cut)
    <3>1. Visual!After(a) = s
      BY <2>1, <2>2
    <3> QED BY <1>1, <1>3, <1>9, <2>2, <3>1 DEF VisualBecomes
  <2>3. CASE ~(a.cut = 0 \/ (x1.ready /\ x1.accepted = a.cut))
    <3>1. Visual!After(a) = Visual!Shown(s, a.cut)
      BY <2>1, <2>3
    <3>2. a.cut \in Visual!Cut /\ a.cut # 0
      BY <1>2, <2>3
    <3>3. PICK r : r = Visual!After(a)
      OBVIOUS
    <3>4. /\ r \in Visual!TuiState /\ r.request = s.request /\ (r.checking <=> s.checking)
          /\ r.at = s.at
          /\ r.newVideo <=> s.newVideo
          /\ r.ready /\ r.accepted = a.cut
      <4>1. s \in Visual!TuiState /\ r = Visual!Shown(s, a.cut)
        BY <1>1, <3>1, <3>3
      <4> QED BY <3>2, <4>1, VisualShownAnswer
    <3> QED BY <1>1, <1>3, <1>9, <3>2, <3>3, <3>4 DEF VisualBecomes
  <2> QED BY <2>2, <2>3
<1>10. CASE a.act \in {"discarded", "warning"}
  <2>1. Visual!After(a) = u
    BY <1>3, <1>4, <1>10 DEF Visual!After, VisualWithout
  <2> QED BY <1>5, <1>10, <2>1 DEF VisualBecomes
<1>11. CASE a.act = "saved"
  <2>1. PICK r : r = [u EXCEPT !.at = "away"]
    OBVIOUS
  <2>2. Visual!After(a) = r
    BY <1>1, <1>3, <1>4, <1>11, <2>1
       DEF Visual!After, Visual!Unsaved, VisualWithout, Visual!TuiState
  <2>3. r \in Visual!TuiState /\ r.request = "" /\ ~r.checking /\ ~r.newVideo /\ r.at = "away"
    BY <1>5, <2>1 DEF Visual!TuiState
  <2> QED BY <1>11, <2>2, <2>3 DEF VisualBecomes
<1>12. CASE a.act = "loaded"
  <2>1. Visual!After(a) = [s EXCEPT !.video = a.video]
    BY <1>3, <1>12 DEF Visual!After
  <2>2. PICK r : r = Visual!After(a)
    OBVIOUS
  <2>3. /\ r \in Visual!TuiState /\ r.request = "" /\ ~r.checking /\ r.at = s.at
        /\ r.newVideo <=> s.newVideo
        /\ r.ready <=> s.ready
        /\ r.accepted = s.accepted
    <3>1. s \in Visual!TuiState /\ a.video \in BOOLEAN /\ r = [s EXCEPT !.video = a.video]
      BY <1>1, <1>2, <2>1, <2>2
    <3>2. /\ r \in Visual!TuiState /\ r.request = s.request /\ (r.checking <=> s.checking)
          /\ r.at = s.at
          /\ r.newVideo <=> s.newVideo
          /\ r.ready <=> s.ready
          /\ r.accepted = s.accepted
      BY <3>1, VisualVideoAnswer
    <3> QED BY <1>1, <3>2
  <2> QED BY <1>1, <1>3, <1>12, <2>2, <2>3 DEF VisualBecomes
<1>13. CASE a.act = "failed" /\ x1.request = "choose"
  <2>1. Visual!After(a) = u
    BY <1>3, <1>4, <1>13 DEF Visual!After, VisualWithout
  <2> QED BY <1>5, <1>13, <2>1 DEF VisualBecomes
<1>14. CASE a.act \in {"cancelled", "unconfirmed"} \/ (a.act = "failed" /\ x1.request # "choose")
  <2>1. Visual!After(a) = s
    BY <1>3, <1>14 DEF Visual!After
  <2> QED BY <1>1, <1>3, <1>14, <2>1 DEF VisualBecomes
<1> QED BY <1>2, <1>6, <1>7, <1>8, <1>9, <1>10, <1>11, <1>12, <1>13, <1>14

\* The answer that ends the operation awaited is taken.
LEMMA VisualFinalIsTaken ==
  ASSUME Visual!TypeOK, Visual!Screen, x1.request # "", NEW a \in Visual!Act, a.live,
         a.act \in Visual!Finals(x1.request)
  PROVE  Visual!Owned(a) /\ ~Visual!Ignores(a)
<1>1. Visual!Owned(a)
  BY DEF Visual!Owned, Visual!Screen
<1>2. x1.request \in Visual!Requests
  BY DEF Visual!TypeOK, Visual!TuiState
<1>3. CASE a.act \in {"cancelled", "selected", "sourceSelected"}
  <2>1. x1.request = "choose"
    BY <1>2, <1>3 DEF Visual!Finals, Visual!Requests
  <2> QED BY <1>1, <1>3, <2>1 DEF Visual!Ignores
<1>4. CASE a.act = "loopReady"
  <2>1. x1.request = "prepareLoop"
    BY <1>2, <1>4 DEF Visual!Finals, Visual!Requests
  <2> QED BY <1>1, <1>4, <2>1 DEF Visual!Ignores
<1>5. CASE a.act = "previewStopped"
  <2>1. x1.request = "stopPreview"
    BY <1>2, <1>5 DEF Visual!Finals, Visual!Requests
  <2> QED BY <1>1, <1>5, <2>1 DEF Visual!Ignores
<1>6. CASE a.act = "discarded"
  <2>1. x1.request = "discardVideo"
    BY <1>2, <1>6 DEF Visual!Finals, Visual!Requests
  <2> QED BY <1>1, <1>6, <2>1 DEF Visual!Ignores
<1>7. CASE a.act = "loaded"
  <2>1. x1.request = "load"
    BY <1>2, <1>7 DEF Visual!Finals, Visual!Requests
  <2> QED BY <1>1, <1>7, <2>1 DEF Visual!Ignores
<1>8. CASE a.act \in {"saved", "warning"}
  <2>1. x1.request \in {"apply", "remove"}
    BY <1>2, <1>8 DEF Visual!Finals, Visual!Requests
  <2> QED BY <1>1, <1>8, <2>1 DEF Visual!Ignores
<1>9. CASE a.act \in {"failed", "unconfirmed"}
  BY <1>1, <1>9 DEF Visual!Ignores
<1>10. a.act # "checking"
  BY <1>2 DEF Visual!Finals, Visual!Requests
<1> QED BY <1>3, <1>4, <1>5, <1>6, <1>7, <1>8, <1>9, <1>10 DEF Visual!Act

\* A cancelled picker is no answer to another operation.
LEMMA VisualTakenFacts ==
  ASSUME Visual!IInv, NEW i \in DOMAIN x3, Visual!Owned(x3[i]), ~Visual!Ignores(x3[i])
  PROVE  /\ Visual!Screen /\ x1.request # "" /\ x3[i].live /\ x2 = <<>>
         /\ x3[i].act # "checking" => Visual!Final(i) /\ ~Visual!Working
<1>1. Visual!Screen /\ x1.request # "" /\ x3[i].live
  BY DEF Visual!Owned, Visual!Screen
<1>2. /\ x2 = <<>>
      /\ \/ x3[i].act \in Visual!Finals(x1.request)
         \/ x3[i].act = "checking"
         \/ x3[i].act = "cancelled" /\ x1.request # "choose"
  BY <1>1 DEF Visual!IInv, Visual!ActsOK
<1>3. ~(x3[i].act = "cancelled" /\ x1.request # "choose")
  BY DEF Visual!Ignores
<1>4. Visual!Final(i) => ~Visual!Working
  BY <1>1 DEF Visual!IInv, Visual!ActsOK
<1> QED BY <1>1, <1>2, <1>3, <1>4 DEF Visual!Final

LEMMA VisualFirstAct ==
  ASSUME Visual!TypeOK, x3 # <<>>, x3' = Tail(x3)
  PROVE  /\ x3' \in Seq(Visual!Act) /\ 1 \in DOMAIN x3 /\ Head(x3) = x3[1] /\ x3[1] \in Visual!Act
         /\ \A i \in DOMAIN x3' : i + 1 \in DOMAIN x3 /\ x3'[i] = x3[i + 1]
         /\ \A i \in DOMAIN x3 : i # 1 => i - 1 \in DOMAIN x3' /\ x3'[i - 1] = x3[i]
         /\ \A i, j \in DOMAIN x3' : i + 1 = j + 1 => i = j
<1>1. x3 \in Seq(Visual!Act)
  BY DEF Visual!TypeOK
<1>2. x3' \in Seq(Visual!Act)
  BY <1>1, VisualTailFacts
<1>3. \A i, j \in DOMAIN x3' : i + 1 = j + 1 => i = j
  BY <1>2
<1> QED BY <1>1, <1>2, <1>3, VisualTailFacts, VisualSeqFacts

\* Of the controls only the mark of a file that is checked changes.
VisualSameControls ==
  /\ x1'.at = x1.at /\ x1'.request = x1.request
  /\ x1'.newVideo <=> x1.newVideo
  /\ x1'.ready <=> x1.ready
  /\ x1'.accepted = x1.accepted

LEMMA VisualDroppedPreserves ==
  ASSUME Visual!IInv, x3 # <<>>, x3' = Tail(x3), UNCHANGED <<x2, x4, x5, x6>>,
         x7' <=> x7, x8' <=> x8,
         Visual!Screen /\ x1.request # "" => ~Visual!Final(1),
         x1' \in Visual!TuiState, VisualSameControls, x1'.checking => Visual!Screen
  PROVE  Visual!IInv'
<1>1. /\ x3' \in Seq(Visual!Act)
      /\ \A i \in DOMAIN x3' : i + 1 \in DOMAIN x3 /\ x3'[i] = x3[i + 1]
      /\ \A i \in DOMAIN x3 : i # 1 => i - 1 \in DOMAIN x3' /\ x3'[i - 1] = x3[i]
      /\ \A i, j \in DOMAIN x3' : i + 1 = j + 1 => i = j
  BY VisualFirstAct DEF Visual!IInv
<1>2. /\ (Visual!Screen' <=> Visual!Screen) /\ (Visual!Current' <=> Visual!Current)
      /\ (Visual!Working' <=> Visual!Working) /\ Visual!Loop' = Visual!Loop
      /\ x2' = x2 /\ x4' = x4 /\ x5' = x5
  BY DEF VisualSameControls, Visual!Screen, Visual!Current, Visual!Working, Visual!Loop
<1>3. Visual!HoldsVideo' <=> Visual!HoldsVideo
  BY <1>2 DEF Visual!HoldsVideo, VisualSameControls
<1>4. Visual!TypeOK'
  BY <1>1 DEF Visual!IInv, Visual!TypeOK
<1>5. Visual!ScreenOK'
  BY <1>2 DEF Visual!IInv, Visual!ScreenOK, VisualSameControls
<1>6. Visual!FramesOK'
  <2>1. Visual!QueueOK'
    BY <1>2, VisualQueueStays DEF Visual!IInv, Visual!FramesOK
  <2>2. Visual!LastOK'
    BY <1>2 DEF Visual!IInv, Visual!FramesOK, Visual!LastOK, VisualSameControls
  <2> QED BY <2>1, <2>2 DEF Visual!FramesOK
<1>7. Visual!TasksOK'
  BY <1>2 DEF Visual!IInv, Visual!TasksOK, Visual!Outlived, VisualSameControls
<1>8. \A i \in DOMAIN x3' : Visual!Final(i)' <=> Visual!Final(i + 1)
  BY <1>1 DEF Visual!Final, VisualSameControls
<1>9. Visual!ActsOK'
  <2>1. ASSUME Visual!Screen, x1.request # ""
        PROVE  /\ \A i \in DOMAIN x3' : x3'[i].live =>
                    /\ x2' = <<>>
                    /\ \/ x3'[i].act \in Visual!Finals(x1'.request)
                       \/ x3'[i].act = "checking" /\ x1'.request = "choose"
                       \/ x3'[i].act = "cancelled" /\ x1'.request # "choose"
               /\ \A i, j \in DOMAIN x3' : Visual!Final(i)' /\ Visual!Final(j)' => i = j
               /\ \A i \in DOMAIN x3' : Visual!Final(i)' => ~Visual!Working'
    <3>1. /\ \A i \in DOMAIN x3 : x3[i].live =>
               /\ x2 = <<>>
               /\ \/ x3[i].act \in Visual!Finals(x1.request)
                  \/ x3[i].act = "checking" /\ x1.request = "choose"
                  \/ x3[i].act = "cancelled" /\ x1.request # "choose"
          /\ \A i, j \in DOMAIN x3 : Visual!Final(i) /\ Visual!Final(j) => i = j
          /\ \A i \in DOMAIN x3 : Visual!Final(i) => ~Visual!Working
      BY <2>1 DEF Visual!IInv, Visual!ActsOK
    <3>2. ASSUME NEW i \in DOMAIN x3', x3'[i].live
          PROVE  /\ x2' = <<>>
                 /\ \/ x3'[i].act \in Visual!Finals(x1'.request)
                    \/ x3'[i].act = "checking" /\ x1'.request = "choose"
                    \/ x3'[i].act = "cancelled" /\ x1'.request # "choose"
      <4>1. PICK j \in DOMAIN x3 : x3'[i] = x3[j]
        BY <1>1
      <4>2. x1'.request = x1.request
        BY DEF VisualSameControls
      <4> QED BY <1>2, <3>1, <3>2, <4>1, <4>2
    <3>3. ASSUME NEW i \in DOMAIN x3', NEW j \in DOMAIN x3', Visual!Final(i)', Visual!Final(j)'
          PROVE  i = j
      <4>1. /\ i + 1 \in DOMAIN x3 /\ j + 1 \in DOMAIN x3
            /\ Visual!Final(i + 1) /\ Visual!Final(j + 1)
        BY <1>1, <1>8, <3>3
      <4>2. i + 1 = j + 1
        BY <3>1, <4>1
      <4> QED BY <1>1, <4>2
    <3>4. \A i \in DOMAIN x3' : Visual!Final(i)' => ~Visual!Working'
      BY <1>1, <1>2, <1>8, <3>1
    <3> QED BY <3>2, <3>3, <3>4
  <2>2. ASSUME Visual!Screen, x1.request # "", ~x7'
        PROVE  x2' # <<>> \/ Visual!Working' \/ \E i \in DOMAIN x3' : Visual!Final(i)'
    <3>1. x2 # <<>> \/ Visual!Working \/ \E i \in DOMAIN x3 : Visual!Final(i)
      BY <2>2 DEF Visual!IInv, Visual!ActsOK
    <3>2. ASSUME NEW i \in DOMAIN x3, Visual!Final(i)
          PROVE  \E j \in DOMAIN x3' : Visual!Final(j)'
      <4>1. i - 1 \in DOMAIN x3' /\ x3'[i - 1] = x3[i]
        BY <1>1, <2>2, <3>2
      <4>2. PICK j \in DOMAIN x3' : x3'[j] = x3[i]
        BY <4>1
      <4>3. Visual!Final(j)'
        BY <3>2, <4>2 DEF Visual!Final, VisualSameControls
      <4> QED BY <4>3
    <3> QED BY <1>2, <3>1, <3>2
  <2> QED BY <1>2, <2>1, <2>2 DEF Visual!ActsOK, VisualSameControls
<1>10. Visual!CandidateOK'
  <2>1. \A u \in x5' : u \in x5 \/ VisualFits(u)
    BY <1>2
  <2> QED BY <1>2, <2>1, VisualSameCandidate
<1>11. Visual!AnswersOK'
  <2> SUFFICES ASSUME Visual!Screen, x1.request # "", NEW i \in DOMAIN x3', x3'[i].live
               PROVE  /\ x3'[i].act \in {"sourceSelected", "selected", "warning", "discarded"}
                           => Visual!Loop' = 0
                      /\ x3'[i].act = "failed" /\ x1.request = "choose" => Visual!Loop' = 0 \/ x8'
                      /\ x3'[i].act = "failed" /\ x1.request = "stopPreview" => x8'
                      /\ x3'[i].act = "loopReady" => x3'[i].cut # 0 /\ Visual!KnownLoop(x3[i])'
                      /\ x3'[i].act = "previewStopped" => Visual!KnownLoop(x3[i])'
                      /\ x3'[i].act = "sourceSelected" /\ ~x7' =>
                           x4'.candidate.source /\ x4'.candidate.kind = "video"
    BY <1>2 DEF Visual!AnswersOK, VisualSameControls
  <2>1. PICK j \in DOMAIN x3 : x3'[i] = x3[j]
    BY <1>1
  <2>2. Visual!KnownLoop(x3[j]) => Visual!KnownLoop(x3[i])'
    <3>1. Visual!KnownLoop(x3[j]) => x3'[i].cut = Visual!Loop' \/ (x7' /\ Visual!Loop' = 0)
      BY <1>2, <2>1 DEF Visual!KnownLoop
    <3> QED BY <3>1 DEF Visual!KnownLoop
  <2> QED BY <1>2, <2>1, <2>2 DEF Visual!IInv, Visual!AnswersOK
\* The answers that count are final ones, and those stay.
<1>12. ASSUME Visual!Screen, x1.request # "", NEW i \in DOMAIN x3, Visual!Final(i)
       PROVE  \E j \in DOMAIN x3' : x3'[j] = x3[i]
  <2>1. i - 1 \in DOMAIN x3' /\ x3'[i - 1] = x3[i]
    BY <1>1, <1>12
  <2> QED BY <2>1
<1>13. Visual!NewVideoIsHeld'
  <2> SUFFICES ASSUME x1.newVideo, Visual!Screen, ~x7, ~Visual!HoldsVideo
               PROVE  \/ x1.request = "discardVideo"
                      \/ /\ x1.request \in {"apply", "remove"}
                         /\ \E i \in DOMAIN x3' : x3'[i].live /\ x3'[i].act = "warning"
                      \/ /\ x1.request = "choose"
                         /\ \/ \E u \in x5 : u.cur /\ u.kind \in {"file", "upload"}
                            \/ \E i \in DOMAIN x3' :
                                 /\ x3'[i].live
                                 /\ x3'[i].act \in {"selected", "sourceSelected", "failed"}
    BY <1>2, <1>3 DEF Visual!NewVideoIsHeld, VisualSameControls
  <2>1. ASSUME x1.request \in {"apply", "remove"}, NEW i \in DOMAIN x3, x3[i].live,
               x3[i].act = "warning"
        PROVE  \E j \in DOMAIN x3' : x3'[j].live /\ x3'[j].act = "warning"
    <3>1. Visual!Final(i)
      BY <2>1 DEF Visual!Final, Visual!Finals
    <3> QED BY <1>12, <2>1, <3>1
  <2>2. ASSUME x1.request = "choose", NEW i \in DOMAIN x3, x3[i].live,
               x3[i].act \in {"selected", "sourceSelected", "failed"}
        PROVE  \E j \in DOMAIN x3' :
                 x3'[j].live /\ x3'[j].act \in {"selected", "sourceSelected", "failed"}
    <3>1. Visual!Final(i)
      BY <2>2 DEF Visual!Final, Visual!Finals
    <3> QED BY <1>12, <2>2, <3>1
  <2> QED BY <2>1, <2>2 DEF Visual!IInv, Visual!NewVideoIsHeld
<1>14. Visual!LoopIsKnown'
  <2> SUFFICES ASSUME ~x8, Visual!Current, Visual!Loop # 0
               PROVE  \/ x1.request \in {"stopPreview", "discardVideo"}
                      \/ x1.ready /\ x1.accepted = Visual!Loop
                      \/ /\ x1.request = "prepareLoop"
                         /\ \E i \in DOMAIN x3' :
                              x3'[i].live /\ x3'[i].act = "loopReady" /\ x3'[i].cut = Visual!Loop
    BY <1>2 DEF Visual!LoopIsKnown, VisualSameControls
  <2>1. Visual!Screen
    BY VisualCurrentIsShown
  <2>2. ASSUME x1.request = "prepareLoop", NEW i \in DOMAIN x3, x3[i].live,
               x3[i].act = "loopReady"
        PROVE  \E j \in DOMAIN x3' : x3'[j] = x3[i]
    <3>1. Visual!Final(i)
      BY <2>2 DEF Visual!Final, Visual!Finals
    <3> QED BY <1>12, <2>1, <2>2, <3>1
  <2> QED BY <2>2 DEF Visual!IInv, Visual!LoopIsKnown
<1>15. Visual!SavesOK'
  BY <1>2 DEF Visual!IInv, Visual!SavesOK, VisualSameControls
<1> QED BY <1>4, <1>5, <1>6, <1>7, <1>9, <1>10, <1>11, <1>13, <1>14, <1>15 DEF Visual!IInv

\* What the first answer, a final one, says of the candidate.
LEMMA VisualFirstSays ==
  ASSUME Visual!IInv, NEW a, a = x3[1], 1 \in DOMAIN x3, Visual!Screen, x1.request # "",
         Visual!Final(1)
  PROVE  /\ a.act \in {"sourceSelected", "selected", "warning", "discarded"} => Visual!Loop = 0
         /\ a.act = "failed" /\ x1.request = "choose" => Visual!Loop = 0 \/ x8
         /\ a.act = "failed" /\ x1.request = "stopPreview" => x8
         /\ a.act = "loopReady" => a.cut # 0
         /\ a.act \in {"loopReady", "previewStopped"} => a.cut = Visual!Loop \/ (x7 /\ Visual!Loop = 0)
         /\ a.act = "sourceSelected" /\ ~x7 =>
              x4.candidate.source /\ x4.candidate.kind = "video"
         /\ \A i \in DOMAIN x3 : Visual!Final(i) => i = 1
<1>1. x3[1].live
  BY DEF Visual!Final
<1>2. \A i \in DOMAIN x3 : Visual!Final(i) => i = 1
  BY DEF Visual!IInv, Visual!ActsOK
<1> QED BY <1>1, <1>2 DEF Visual!IInv, Visual!AnswersOK, Visual!KnownLoop

\* What the program offers once the answer is taken.
LEMMA VisualOffersHeld ==
  ASSUME Visual!IInv, NEW s, NEW a \in Visual!Act, a = x3[1], 1 \in DOMAIN x3, Visual!Screen,
         x1.request # "",
         Visual!Final(1), ~Visual!Working, VisualBecomes(s, a), s.newVideo, a.act # "saved", ~x7
  PROVE  /\ x4.candidate.source /\ x4.candidate.kind = "video"
         /\ s.ready => Visual!Loop # 0
<1>1. /\ a.act \notin {"selected", "discarded", "warning"}
      /\ ~(a.act = "failed" /\ x1.request = "choose")
  BY DEF VisualBecomes
<1>2. CASE a.act = "sourceSelected"
  <2>1. x4.candidate.source /\ x4.candidate.kind = "video"
    BY <1>2, VisualFirstSays
  <2> QED BY <1>2, <2>1 DEF VisualBecomes
<1>3. CASE a.act # "sourceSelected"
  <2>1. x1.newVideo
    BY <1>1, <1>3 DEF VisualBecomes, Visual!Act, Visual!Final, Visual!Finals
  <2>2. x1.request # "discardVideo"
    BY <1>1 DEF Visual!Final, Visual!Finals
  <2>3. \A i \in DOMAIN x3 : x3[i].live =>
          /\ x1.request \in {"apply", "remove"} => x3[i].act # "warning"
          /\ x1.request = "choose" => x3[i].act \notin {"selected", "sourceSelected", "failed"}
    <3> SUFFICES ASSUME NEW i \in DOMAIN x3, x3[i].live,
                        \/ x1.request \in {"apply", "remove"} /\ x3[i].act = "warning"
                        \/ /\ x1.request = "choose"
                           /\ x3[i].act \in {"selected", "sourceSelected", "failed"}
                 PROVE  FALSE
      OBVIOUS
    <3>1. Visual!Final(i)
      BY DEF Visual!Final, Visual!Finals
    <3>2. i = 1
      BY <3>1, VisualFirstSays
    <3> QED BY <1>1, <1>3, <3>2
  <2>4. Visual!HoldsVideo
    BY <2>1, <2>2, <2>3 DEF Visual!IInv, Visual!NewVideoIsHeld, Visual!Working
  <2>5. ASSUME s.ready
        PROVE  Visual!Loop # 0
    <3>1. CASE a.act = "loopReady"
      BY <3>1, VisualFirstSays
    <3>2. CASE a.act = "previewStopped" /\ a.cut # 0
      BY <3>2, VisualFirstSays
    <3>3. CASE ~(a.act = "loopReady" \/ (a.act = "previewStopped" /\ a.cut # 0))
      <4>1. x1.ready
        BY <1>1, <1>3, <2>5, <3>3 DEF VisualBecomes, Visual!Act, Visual!Final, Visual!Finals
      <4> QED BY <2>4, <4>1 DEF Visual!HoldsVideo, Visual!Loop
    <3> QED BY <3>1, <3>2, <3>3
  <2> QED BY <2>4, <2>5 DEF Visual!HoldsVideo
<1> QED BY <1>2, <1>3

LEMMA VisualOffersKnown ==
  ASSUME Visual!IInv, NEW s, NEW a \in Visual!Act, a = x3[1], 1 \in DOMAIN x3, Visual!Screen,
         x1.request # "",
         Visual!Final(1), VisualBecomes(s, a), a.act # "saved", ~x8, Visual!Current,
           Visual!Loop # 0
  PROVE  s.ready /\ s.accepted = Visual!Loop
<1>1. /\ a.act \notin {"sourceSelected", "selected", "discarded", "warning"}
      /\ ~(a.act = "failed" /\ x1.request \in {"choose", "stopPreview"})
      /\ a.act \in {"loopReady", "previewStopped"} => a.cut = Visual!Loop
  BY VisualFirstSays
<1>2. CASE a.act \in {"loopReady", "previewStopped"}
  BY <1>1, <1>2 DEF VisualBecomes
<1>3. CASE a.act \notin {"loopReady", "previewStopped"}
  <2>1. (s.ready <=> x1.ready) /\ s.accepted = x1.accepted
    BY <1>1, <1>3 DEF VisualBecomes, Visual!Act, Visual!Final, Visual!Finals
  <2>2. x1.request \notin {"stopPreview", "discardVideo"}
    BY <1>1, <1>3 DEF Visual!Final, Visual!Finals
  <2>3. ASSUME x1.request = "prepareLoop", NEW i \in DOMAIN x3, x3[i].live,
               x3[i].act = "loopReady"
        PROVE  FALSE
    <3>1. Visual!Final(i)
      BY <2>3 DEF Visual!Final, Visual!Finals
    <3>2. i = 1
      BY <3>1, VisualFirstSays
    <3> QED BY <1>3, <2>3, <3>2
  <2> QED BY <2>1, <2>2, <2>3 DEF Visual!IInv, Visual!LoopIsKnown
<1> QED BY <1>2, <1>3

\* The state that closes the page.
VisualLastFrame == [open |-> FALSE, request |-> "", cut |-> 1]

LEMMA VisualClosingFacts ==
  ASSUME NEW s \in Seq(Visual!Frame), Len(s) = 0, NEW r, r = Append(s, VisualLastFrame)
  PROVE  /\ r \in Seq(Visual!Frame) /\ r # <<>> /\ Len(r) = 1 /\ 1 \in DOMAIN r
         /\ \A i \in DOMAIN r : i = 1
         /\ ~r[1].open /\ r[1].request = ""
<1>1. VisualLastFrame \in Visual!Frame /\ ~VisualLastFrame.open /\ VisualLastFrame.request = ""
  BY VisualCutFacts DEF Visual!Frame, Visual!Requests, VisualLastFrame
<1>2. ASSUME NEW e \in Visual!Frame, e = VisualLastFrame
      PROVE  /\ r \in Seq(Visual!Frame) /\ r # <<>> /\ Len(r) = 1 /\ 1 \in DOMAIN r
             /\ \A i \in DOMAIN r : i = 1
             /\ r[1] = e
  BY <1>2
<1> QED BY <1>1, <1>2

LEMMA VisualAnsweredPreserves ==
  ASSUME Visual!IInv, x3 # <<>>, x3' = Tail(x3), UNCHANGED <<x4, x5>>,
         x7' <=> x7, x8' <=> x8, x6' \in Visual!Server,
         Visual!Screen, x1.request # "", x2 = <<>>, Visual!Final(1), ~Visual!Working,
         VisualBecomes(x1', x3[1]),
         IF x3[1].act = "saved"
         THEN x2' = Append(x2, VisualLastFrame)
         ELSE x2' = x2
  PROVE  Visual!IInv'
<1>1. /\ x3' \in Seq(Visual!Act) /\ 1 \in DOMAIN x3 /\ x3[1] \in Visual!Act
      /\ x3[1].act \in {x3[1].act}
      /\ x4' = x4 /\ x5' = x5 /\ Visual!Loop' = Visual!Loop
  BY VisualFirstAct DEF Visual!IInv, Visual!Loop
<1>2. PICK a \in Visual!Act : a = x3[1]
  BY <1>1
<1>3. /\ x1' \in Visual!TuiState /\ x1'.request = "" /\ ~x1'.checking
      /\ a.act = "saved" => x1'.at = "away"
      /\ a.act # "saved" => x1'.at \in {"form", "trim"}
  BY <1>2 DEF VisualBecomes
<1>4. Visual!Screen' <=> a.act # "saved"
  BY <1>3 DEF Visual!Screen
<1>5. x4.open /\ DOMAIN x2 = {} /\ Visual!Current
  <2>1. x4.open
    BY DEF Visual!IInv, Visual!FramesOK, Visual!LastOK
  <2>2. DOMAIN x2 = {}
    BY VisualFrameFacts DEF Visual!IInv
  <2> QED BY <2>1, <2>2 DEF Visual!Current
<1>6. ~Visual!Working' /\ \A u \in x5 : ~u.cur
  BY <1>1 DEF Visual!Working
<1>7. /\ x2' \in Seq(Visual!Frame)
      /\ a.act # "saved" => x2' = <<>> /\ DOMAIN x2' = {}
      /\ a.act = "saved" => /\ x2' # <<>> /\ Len(x2') = 1 /\ 1 \in DOMAIN x2'
                            /\ \A i \in DOMAIN x2' : i = 1
                            /\ ~x2'[1].open /\ x2'[1].request = ""
  <2>1. CASE a.act = "saved"
    <3>1. x2' = Append(x2, VisualLastFrame) /\ x2 \in Seq(Visual!Frame) /\ Len(x2) = 0
      BY <1>2, <2>1 DEF Visual!IInv, Visual!TypeOK
    <3> QED BY <2>1, <3>1, VisualClosingFacts
  <2>2. CASE a.act # "saved"
    BY <1>2, <1>5, <2>2 DEF Visual!IInv, Visual!TypeOK
  <2> QED BY <2>1, <2>2
<1>8. Visual!TypeOK'
  BY <1>1, <1>3, <1>7 DEF Visual!IInv, Visual!TypeOK
<1>9. Visual!ScreenOK'
  BY <1>3 DEF Visual!ScreenOK
<1>10. Visual!FramesOK'
  <2>1. CASE a.act = "saved"
    <3>1. ~x2'[1].open /\ x2'[1].request = ""
      BY <1>7, <2>1
    <3>2. \A i \in DOMAIN x2' : i = 1
      BY <1>7, <2>1
    <3>3. Visual!BeginsOne(1)' /\ Visual!StopsOne(1)' /\ Visual!DiscardsOne(1)'
          /\ Visual!OpensOne(1)'
      BY <3>1
         DEF Visual!BeginsOne, Visual!Fresh, Visual!StopsOne, Visual!DiscardsOne, Visual!OpensOne
    <3>4. Visual!QueueOK'
      BY <3>2, <3>3 DEF Visual!QueueOK
    <3>5. Visual!LastOK'
      BY <1>4, <1>7, <2>1, <3>1 DEF Visual!LastOK
    <3> QED BY <3>4, <3>5 DEF Visual!FramesOK
  <2>2. CASE a.act # "saved"
    <3>1. Visual!Current'
      BY <1>1, <1>5, <1>7, <2>2 DEF Visual!Current
    <3>2. Visual!LastOK'
      BY <1>1, <1>3, <1>4, <1>5, <1>6, <1>7, <2>2, <3>1 DEF Visual!LastOK
    <3> QED BY <1>7, <2>2, <3>2 DEF Visual!FramesOK, Visual!QueueOK
  <2> QED BY <2>1, <2>2
<1>11. Visual!TasksOK'
  BY <1>1, <1>6 DEF Visual!IInv, Visual!TasksOK
<1>12. Visual!ActsOK' /\ Visual!AnswersOK'
  BY <1>3 DEF Visual!ActsOK, Visual!AnswersOK
<1>13. Visual!CandidateOK'
  <2>1. \A u \in x5' : u \in x5 \/ VisualFits(u)
    BY <1>1
  <2> QED BY <1>1, <2>1, VisualSameCandidate
<1>14. Visual!NewVideoIsHeld'
  <2> SUFFICES ASSUME x1'.newVideo, Visual!Screen', ~x7
               PROVE  Visual!HoldsVideo'
    BY DEF Visual!NewVideoIsHeld
  <2>1. a.act # "saved" /\ VisualBecomes(x1', a)
    BY <1>2, <1>4
  <2>2. PICK s : s = x1'
    OBVIOUS
  <2>3. /\ x4.candidate.source /\ x4.candidate.kind = "video"
        /\ s.ready => Visual!Loop # 0
    BY <1>1, <1>2, <2>1, <2>2, VisualOffersHeld
  <2> QED BY <1>1, <2>2, <2>3 DEF Visual!HoldsVideo, Visual!Loop
<1>15. Visual!LoopIsKnown'
  <2> SUFFICES ASSUME ~x8, Visual!Current', Visual!Loop # 0
               PROVE  x1'.ready /\ x1'.accepted = Visual!Loop
    BY <1>1 DEF Visual!LoopIsKnown
  <2>1. a.act # "saved"
    BY <1>7 DEF Visual!Current
  <2>2. VisualBecomes(x1', a)
    BY <1>2
  <2>3. PICK s : s = x1'
    OBVIOUS
  <2>4. s.ready /\ s.accepted = Visual!Loop
    BY <1>1, <1>2, <1>5, <2>1, <2>2, <2>3, VisualOffersKnown
  <2> QED BY <2>3, <2>4
<1>16. Visual!SavesOK'
  BY <1>1, <1>6 DEF Visual!SavesOK
<1> QED BY <1>8, <1>9, <1>10, <1>11, <1>12, <1>13, <1>14, <1>15, <1>16 DEF Visual!IInv

LEMMA VisualUpdatePreserves ==
  ASSUME Visual!IInv, Visual!Update
  PROVE  Visual!IInv'
<1>1. /\ Visual!TypeOK /\ x3 # <<>> /\ x3' = Tail(x3) /\ UNCHANGED <<x4, x5>>
      /\ x7' <=> x7
      /\ x8' <=> x8
  BY DEF Visual!IInv, Visual!Update
<1>2. 1 \in DOMAIN x3 /\ Head(x3) = x3[1] /\ x3[1] \in Visual!Act
  BY <1>1, VisualFirstAct
<1>3. PICK a \in Visual!Act : a = x3[1] /\ a = Head(x3)
  BY <1>2
<1>4. CASE ~(Visual!Owned(a) /\ ~Visual!Ignores(a))
  <2>1. x1' = x1 /\ UNCHANGED <<x2, x6>>
    BY <1>3, <1>4 DEF Visual!Update
  <2>2. Visual!Screen /\ x1.request # "" => ~Visual!Final(1)
    BY <1>1, <1>3, <1>4, VisualFinalIsTaken DEF Visual!Final
  <2>3. x1' \in Visual!TuiState /\ VisualSameControls /\ (x1'.checking => Visual!Screen)
    BY <1>1, <2>1 DEF VisualSameControls, Visual!TypeOK, Visual!IInv, Visual!ScreenOK
  <2> QED BY <1>1, <2>1, <2>2, <2>3, VisualDroppedPreserves
<1>5. CASE Visual!Owned(a) /\ ~Visual!Ignores(a) /\ a.act = "checking"
  <2>1. Visual!Screen
    BY <1>2, <1>3, <1>5, VisualTakenFacts
  <2>2. x1' = [x1 EXCEPT !.checking = TRUE] /\ UNCHANGED <<x2, x6>>
    BY <1>3, <1>5 DEF Visual!Update, Visual!After
  <2>3. x1' \in Visual!TuiState /\ VisualSameControls
    BY <1>1, <2>2 DEF VisualSameControls, Visual!TypeOK, Visual!TuiState
  <2>4. ~Visual!Final(1)
    BY <1>3, <1>5 DEF Visual!Final, Visual!Finals
  <2> QED BY <1>1, <2>1, <2>2, <2>3, <2>4, VisualDroppedPreserves
<1>6. CASE Visual!Owned(a) /\ ~Visual!Ignores(a) /\ a.act # "checking"
  <2>1. Visual!Screen /\ x1.request # "" /\ x2 = <<>> /\ Visual!Final(1) /\ ~Visual!Working
    BY <1>2, <1>3, <1>6, VisualTakenFacts
  <2>2. x1' = Visual!After(a)
    BY <1>3, <1>6 DEF Visual!Update
  <2>3. /\ IF a.act = "saved"
           THEN x2' = Append(x2, VisualLastFrame)
           ELSE x2' = x2
        /\ x6' = IF a.act = "saved" THEN Visual!Closed(x6) ELSE x6
    BY <1>3, <1>6 DEF Visual!Update, VisualLastFrame
  <2>4. x6' \in Visual!Server
    BY <1>1, <2>3 DEF Visual!TypeOK, Visual!Server, Visual!Closed, Visual!NoFiles
  <2>5. a.act = "loopReady" => a.cut # 0
    BY <1>2, <1>3, <2>1, VisualFirstSays
  <2>6. VisualBecomes(x1', a)
    BY <1>1, <1>6, <2>1, <2>2, <2>5, VisualAfterFacts
  <2> QED BY <1>1, <1>3, <2>1, <2>3, <2>4, <2>6, VisualAnsweredPreserves
<1> QED BY <1>4, <1>5, <1>6

-----------------------------------------------------------------------------
(* All of it.                                                               *)

LEMMA VisualInitIInv == ASSUME Visual!Init PROVE Visual!IInv
<1>b. PICK broken \in BOOLEAN :
        x4 = [open |-> FALSE, picker |-> FALSE, choosing |-> FALSE, saved |-> "still",
                broken |-> broken, candidate |-> Visual!Blank]
  BY DEF Visual!Init
<1>1. Visual!TypeOK
  <2>1. 1 \in Visual!Cut /\ 0 \in Visual!Cut \cup {0}
    BY VisualCutFacts
  <2>2. x1 \in Visual!TuiState
    BY <2>1 DEF Visual!Init, Visual!TuiState, Visual!Requests
  <2>4. x6 \in Visual!Server
    BY <2>1 DEF Visual!Init, Visual!Server, Visual!NoFiles
  <2>5. x7 \in BOOLEAN /\ x8 \in BOOLEAN
    BY DEF Visual!Init
  <2>6. x2 = <<>> /\ x3 = <<>> /\ x5 = {}
    BY DEF Visual!Init
  <2>7. x2 \in Seq(Visual!Frame) /\ x3 \in Seq(Visual!Act) /\ x5 \subseteq Visual!TaskType
    BY <2>6
  <2>3. x4 \in Visual!Page
    BY <1>b, VisualNoCandidate DEF Visual!Page
  <2> QED BY <2>2, <2>3, <2>4, <2>5, <2>7 DEF Visual!TypeOK
<1>2. /\ x1.at = "away" /\ ~x1.checking /\ x2 = <<>> /\ x3 = <<>> /\ x5 = {}
      /\ ~x4.open /\ ~x4.picker /\ ~x4.choosing /\ x4.candidate = Visual!Blank
  BY <1>b DEF Visual!Init
<1>3. DOMAIN x2 = {} /\ ~Visual!Screen /\ ~Visual!Current /\ Visual!Loop = 0
  BY <1>1, <1>2, VisualFrameFacts, VisualNoCandidate
     DEF Visual!Screen, Visual!Current, Visual!Loop
<1>4. Visual!ScreenOK /\ Visual!FramesOK /\ Visual!TasksOK /\ Visual!ActsOK
  BY <1>2, <1>3
     DEF Visual!ScreenOK, Visual!FramesOK, Visual!QueueOK, Visual!LastOK, Visual!TasksOK,
         Visual!ActsOK
<1>5. Visual!CandidateOK
  BY <1>2, <1>3, VisualNoCandidate DEF Visual!CandidateOK
<1>6. Visual!AnswersOK /\ Visual!NewVideoIsHeld /\ Visual!LoopIsKnown /\ Visual!SavesOK
  BY <1>2, <1>3 DEF Visual!AnswersOK, Visual!NewVideoIsHeld, Visual!LoopIsKnown, Visual!SavesOK
<1> QED BY <1>1, <1>4, <1>5, <1>6 DEF Visual!IInv

LEMMA VisualTasksPreserve ==
  ASSUME Visual!IInv, NEW t \in x5,
         \/ Visual!Loaded(t) \/ Visual!ShowPicker(t)
         \/ Visual!SelectSource(t) \/ Visual!ReplaceSource(t) \/ Visual!SelectImage(t)
         \/ Visual!ShowImage(t)
         \/ Visual!Stage(t) \/ Visual!Render(t) \/ Visual!Acknowledge(t) \/ Visual!Join(t)
         \/ Visual!ServeStop(t) \/ Visual!ServeDiscard(t)
         \/ Visual!Selected(t) \/ Visual!Accepted(t) \/ Visual!Stopped(t) \/ Visual!Discarded(t)
         \/ Visual!Failed(t)
         \/ Visual!StopFails(t) \/ Visual!DiscardFails(t)
         \/ Visual!Store(t) \/ Visual!Saved(t) \/ Visual!SavedWithWarning(t)
         \/ Visual!SaveRefused(t) \/ Visual!SaveUnconfirmed(t)
  PROVE  Visual!IInv'
<1>1. CASE Visual!Loaded(t)
  BY <1>1, VisualLoadedPreserves
<1>2. CASE Visual!ShowPicker(t)
  BY <1>2, VisualShowPickerPreserves
<1>3. CASE Visual!SelectSource(t) \/ Visual!ReplaceSource(t)
  BY <1>3, VisualSourcesPreserve
<1>4. CASE Visual!SelectImage(t)
  BY <1>4, VisualSelectImagePreserves
<1>5. CASE Visual!Stage(t) \/ Visual!Render(t) \/ Visual!Acknowledge(t) \/ Visual!Join(t)
           \/ Visual!ServeStop(t)
           \/ Visual!ServeDiscard(t) \/ Visual!DiscardFails(t) \/ Visual!Store(t)
  BY <1>5, VisualRequestsPreserve
<1>6. CASE Visual!ShowImage(t) \/ Visual!Stopped(t) \/ Visual!StopFails(t)
           \/ Visual!SaveRefused(t) \/ Visual!Saved(t)
           \/ Visual!SaveUnconfirmed(t)
  BY <1>6, VisualAnswersPreserve
<1>7. CASE Visual!Selected(t)
  BY <1>7, VisualAnswersPreserve, VisualSelectedPreserves
<1>8. CASE Visual!Accepted(t)
  BY <1>8, VisualAcceptedPreserves
<1>9. CASE Visual!Discarded(t)
  BY <1>9, VisualDiscardedPreserves
<1>10. CASE Visual!Failed(t)
  <2>1. t.kind = "upload" \/ (t.kind = "file" /\ t.cur) \/ t.kind = "prepare"
          \/ (t.kind = "file" /\ ~t.cur)
    BY <1>10 DEF Visual!Failed
  <2> QED BY <1>10, <2>1, VisualAnswersPreserve, VisualFailedPreserves
<1>11. CASE Visual!SavedWithWarning(t)
  BY <1>11, VisualSavedWithWarningPreserves
<1> QED BY <1>1, <1>2, <1>3, <1>4, <1>5, <1>6, <1>7, <1>8, <1>9, <1>10, <1>11

LEMMA VisualNextPreserves == ASSUME Visual!IInv,
  Visual!Next \/ UNCHANGED Visual!vars PROVE Visual!IInv'
<1>1. CASE Visual!OpenMenu \/ Visual!LeaveMenu \/ Visual!MoveCut \/ UNCHANGED Visual!vars
  BY <1>1, VisualRestPreserves
<1>2. CASE Visual!OpenVisual \/ Visual!LeaveForm \/ Visual!EditLoop \/ Visual!PreviewLoop
           \/ Visual!StopPreview \/ Visual!Done \/ Visual!Cancel
           \/ \E asked \in {"choose", "apply", "remove"} : Visual!Activate(asked)
  BY <1>2, VisualUserPreserves
<1>3. CASE Visual!Receive
  BY <1>3, VisualReceivePreserves
<1>4. CASE Visual!Pick
  BY <1>4, VisualPickPreserves
<1>5. CASE Visual!CancelPick
  BY <1>5, VisualCancelPickPreserves
<1>6. CASE Visual!Update
  BY <1>6, VisualUpdatePreserves
<1>7. CASE ~(Visual!OpenMenu \/ Visual!LeaveMenu \/ Visual!MoveCut \/ UNCHANGED Visual!vars
             \/ Visual!OpenVisual \/ Visual!LeaveForm \/ Visual!EditLoop \/ Visual!PreviewLoop
             \/ Visual!StopPreview \/ Visual!Done
             \/ Visual!Cancel
             \/ (\E asked \in {"choose", "apply", "remove"} : Visual!Activate(asked))
             \/ Visual!Receive \/ Visual!Pick \/ Visual!CancelPick \/ Visual!Update)
  <2>1. \E t \in x5 :
         \/ Visual!Loaded(t) \/ Visual!ShowPicker(t)
         \/ Visual!SelectSource(t) \/ Visual!ReplaceSource(t) \/ Visual!SelectImage(t)
         \/ Visual!ShowImage(t)
         \/ Visual!Stage(t) \/ Visual!Render(t) \/ Visual!Acknowledge(t) \/ Visual!Join(t)
         \/ Visual!ServeStop(t) \/ Visual!ServeDiscard(t)
         \/ Visual!Selected(t) \/ Visual!Accepted(t) \/ Visual!Stopped(t) \/ Visual!Discarded(t)
         \/ Visual!Failed(t)
         \/ Visual!StopFails(t) \/ Visual!DiscardFails(t)
         \/ Visual!Store(t) \/ Visual!Saved(t) \/ Visual!SavedWithWarning(t)
         \/ Visual!SaveRefused(t) \/ Visual!SaveUnconfirmed(t)
    BY <1>7 DEF Visual!Next
  <2> QED BY <2>1, VisualTasksPreserve
<1> QED BY <1>1, <1>2, <1>3, <1>4, <1>5, <1>6, <1>7

LEMMA VisualConsequences == ASSUME Visual!IInv PROVE Visual!AwaitedIsComing /\ Visual!CandidateIsHeld
<1>1. Visual!AwaitedIsComing
  <2> SUFFICES ASSUME x1.request # "", x1.at \in {"form", "trim"}, ~x7
               PROVE  \/ x2 # <<>>
                      \/ \E i \in DOMAIN x3 : x3[i].live /\ x3[i].act # "checking"
                      \/ (x4.picker /\ x1.request = "choose") \/ \E t \in x5 : t.cur
    BY DEF Visual!AwaitedIsComing
  <2>1. Visual!Screen
    BY DEF Visual!Screen
  <2>2. \A i \in DOMAIN x3 : Visual!Final(i) => x3[i].live /\ x3[i].act # "checking"
    BY DEF Visual!Final, Visual!Finals
  <2>3. x2 # <<>> \/ Visual!Working \/ \E i \in DOMAIN x3 : Visual!Final(i)
    BY <2>1 DEF Visual!IInv, Visual!ActsOK
  <2>4. x2 = <<>> => (x4.choosing <=> x1.request = "choose")
    BY <2>1 DEF Visual!IInv, Visual!FramesOK, Visual!LastOK
  <2> QED BY <2>2, <2>3, <2>4 DEF Visual!Working
<1>2. Visual!CandidateIsHeld
  <2> SUFFICES ASSUME Visual!OffersVideo, ~x7
               PROVE  Visual!HoldsVideo
    BY DEF Visual!CandidateIsHeld
  <2>1. x1.newVideo /\ Visual!Screen /\ x1.request = ""
    BY DEF Visual!OffersVideo, Visual!Screen
  <2> QED BY <2>1 DEF Visual!IInv, Visual!NewVideoIsHeld
<1> QED BY <1>1, <1>2

LEMMA VisualSavedLoopIsShown == ASSUME Visual!IInv PROVE Visual!SavedAsPreviewed
<1> SUFFICES ASSUME NEW t \in x5, t.step = "video", Visual!Store(t)
             PROVE  x8 \/ (x1.ready /\ t.cut = x1.accepted)
  BY DEF Visual!SavedAsPreviewed
<1>1. t.kind = "save" /\ Visual!Current /\ t.cur /\ t.cut # 0
  BY DEF Visual!Store
<1> QED BY <1>1 DEF Visual!IInv, Visual!SavesOK
=============================================================================
