---------------------------- MODULE ReadingScreens ---------------------------
(***************************************************************************)
(* The screens that load what they show.                                   *)
(***************************************************************************)
EXTENDS ScreenSlots

CONSTANTS
  \* The Event screen: the day and its times, the cards, the form.
  MaxClock, MaxLoads, MaxCard, Groups, MaxOpened, MaxForms,
  \* The Goals screen and its filters, which offer Subjects.
  MaxGoal, MaxVersion, MaxRequests, MaxPriority, Listings, MenuMatches,
  \* The background screen with its page, and the speech setup.
  MaxCut, MaxTasks, MaxPageWire, MaxAttempt, TotalBytes

Day == INSTANCE DayLoad WITH
  now <- x1, active <- x2, clock <- x3, follow <- x4, day <- x5, entries <- x6,
  counts <- x7, latest <- x8, load <- x9, time <- x10, wire <- x11

Cards == INSTANCE EventCards WITH
  store <- x1, active <- x2, day <- x3, entries <- x4, load <- x5, pos <- x6,
  card <- x7, form <- x8, saved <- x9, wire <- x10

Goals == INSTANCE GoalsScreen WITH
  store <- x1, root <- x2, screen <- x3, owner <- x4, state <- x5, selected <- x6,
  requested <- x7, picker <- x8, wire <- x9

Filters == INSTANCE GoalFilters WITH
  rows <- x1, loading <- x2, selected <- x3, controls <- x4, last <- x5, list <- x6,
  menu <- x7, wire <- x8, wanted <- x9

Visual == INSTANCE VisualScreen WITH MaxWire <- MaxPageWire,
  tui <- x1, frames <- x2, acts <- x3, page <- x4, tasks <- x5, server <- x6,
  strayed <- x7, missed <- x8

Setup == INSTANCE SpeechSetup WITH
  setup <- x1, behind <- x2, available <- x3, loaded <- x4, checks <- x5, download <- x6

ASSUME DayAssumption == MaxClock \in Nat \ {0}
ASSUME CardsAssumption ==
  /\ MaxCard \in Nat /\ Groups \in SUBSET Cards!Card
  /\ MaxLoads \in Nat /\ MaxOpened \in Nat /\ MaxForms \in Nat
ASSUME GoalsAssumption == MaxGoal \in Nat \ {0} /\ MaxVersion \in Nat
ASSUME FiltersAssumption ==
  /\ MaxGoal \in Nat /\ MaxSubject \in Nat \ {0} /\ MaxPriority \in Nat
  /\ \A g \in Filters!Goal : Listings[g] \subseteq
       [listed : BOOLEAN, active : BOOLEAN, priority : Nat, subjects : SUBSET Filters!Subject]
  /\ 0 \in Filters!Query /\ 0 .. MaxSubject + 1 \subseteq MenuMatches[0]
ASSUME CutAssumption == MaxCut \in Nat \ {0}
ASSUME SetupAssumption == MaxAttempt \in Nat /\ TotalBytes \in Nat
=============================================================================
