------------------------------- MODULE Screens -------------------------------
(***************************************************************************)
(* The screens of the program and the files of its background.  They share *)
(* nothing that their properties are about, so each behaviour is that of   *)
(* one of them, chosen at first: x1 to x11 are the variables of the screen *)
(* that runs.                                                              *)
(***************************************************************************)
EXTENDS VisualStore, ReadingScreens, WritingScreens

VARIABLE at

ScreensInit ==
  /\ Init
  /\ \/ at = "files" /\ x1 = 0 /\ x2 = 0 /\ x3 = 0 /\ x4 = 0 /\ x5 = 0 /\ x6 = 0
        /\ x7 = 0 /\ x8 = 0 /\ x9 = 0 /\ x10 = 0 /\ x11 = 0
     \/ at = "day" /\ Day!Init
     \/ at = "cards" /\ Cards!Init /\ x11 = 0
     \/ at = "goals" /\ Goals!Init /\ x10 = 0 /\ x11 = 0
     \/ at = "subjects" /\ Subjects!Init /\ x11 = 0
     \/ at = "thoughts" /\ Thoughts!Init
     \/ at = "spoken" /\ Spoken!Init /\ x8 = 0 /\ x9 = 0 /\ x10 = 0 /\ x11 = 0
     \/ at = "form" /\ Form!Init /\ x8 = 0 /\ x9 = 0 /\ x10 = 0 /\ x11 = 0
     \/ at = "filters" /\ Filters!Init /\ x10 = 0 /\ x11 = 0
     \/ at = "setup" /\ Setup!Init /\ x7 = 0 /\ x8 = 0 /\ x9 = 0 /\ x10 = 0 /\ x11 = 0
     \/ at = "visual" /\ Visual!Init /\ x9 = 0 /\ x10 = 0 /\ x11 = 0

ScreensNext ==
  \/ at = "files" /\ Next /\ UNCHANGED <<at, slots>>
  \/ /\ at = "day" /\ Day!Next
     /\ UNCHANGED <<at, visualVars>>
  \/ /\ at = "cards" /\ Cards!Next
     /\ UNCHANGED <<at, x11, visualVars>>
  \/ /\ at = "goals" /\ Goals!Next
     /\ UNCHANGED <<at, x10, x11, visualVars>>
  \/ /\ at = "subjects" /\ Subjects!Next
     /\ UNCHANGED <<at, x11, visualVars>>
  \/ /\ at = "thoughts" /\ Thoughts!Next
     /\ UNCHANGED <<at, visualVars>>
  \/ /\ at = "spoken" /\ Spoken!Next
     /\ UNCHANGED <<at, x8, x9, x10, x11, visualVars>>
  \/ /\ at = "form" /\ Form!Next
     /\ UNCHANGED <<at, x8, x9, x10, x11, visualVars>>
  \/ /\ at = "filters" /\ Filters!Next
     /\ UNCHANGED <<at, x10, x11, visualVars>>
  \/ /\ at = "setup" /\ Setup!Next
     /\ UNCHANGED <<at, x7, x8, x9, x10, x11, visualVars>>
  \/ /\ at = "visual" /\ Visual!Next
     /\ UNCHANGED <<at, x9, x10, x11, visualVars>>

ScreensVars == <<at, slots, visualVars>>

ScreensSpec == ScreensInit /\ [][ScreensNext]_ScreensVars

-----------------------------------------------------------------------------
\* On every screen, what it waits for is on its way: no result that is discarded, replaced
\* or cancelled leaves it "loading", "saving" or "checking" for good.
AwaitedIsComing ==
  /\ at = "day" => Day!AwaitedIsComing
  /\ at = "cards" => Cards!AwaitedIsComing
  /\ at = "goals" => Goals!AwaitedIsComing
  /\ at = "subjects" => Subjects!AwaitedIsComing
  /\ at = "thoughts" => Thoughts!AwaitedIsComing
  /\ at = "form" => Form!AwaitedIsComing
  /\ at = "setup" => Setup!AwaitedIsComing
  /\ at = "visual" => Visual!AwaitedIsComing

\* What is shown together belongs together and is what was asked for last: the day with its
\* counts and times, the open card with its Thoughts, the Goal, the Goals and Subjects that a
\* filter or a search lets pass, the Event being saved, the download under way and the model it
\* loaded, the video held by the page.
\* Subjects accepted in place of a Goal's own were chosen from those they replaced.
ShownIsRequested ==
  /\ at = "day" => Day!ShowsOneDay
  /\ at = "cards" => Cards!OpenCardIsSelected
  /\ at = "goals" => Goals!ShownIsRequested /\ Goals!AcceptedWasSeen
  /\ at = "filters" => Filters!ShownAsChosen /\ Filters!MenuShowsQuery
  /\ at = "form" => Form!SavedIsShown
  /\ at = "setup" => Setup!OneCall /\ Setup!ProgressIsOfDownload /\ Setup!ReadyIsLoaded
  /\ at = "visual" => Visual!CandidateIsHeld

\* A change the user made and that was acknowledged is shown, or known to be missing:
\* Events, Subjects, aliases, Thoughts and their designation, which only a MindsetChanged that
\* comes after a later change brings back as it was.
OwnChangesAreShown ==
  /\ at = "cards" => Cards!OwnSaveIsShown
  /\ at = "form" => Form!CreatedIsListed
  /\ at = "subjects" => Subjects!StaleIsKnown /\ Subjects!AliasesAreCurrent
  /\ at = "thoughts" => Thoughts!OwnThoughtsAreListed /\ Thoughts!BadgesAreTrue

\* No Thought is lost from a window that moves, no draft while a Subject is created for it,
\* and no paste goes into another field or draft.
NothingIsLost ==
  /\ at = "thoughts" => Thoughts!NothingIsLost
  /\ at = "subjects" => Subjects!SuspendedDraftReturns
  /\ at = "form" => Form!SuspendedIsKept /\ Form!PasteIsUnchanged

\* Of what was dictated only the cue that names a Subject is taken, and no uncertain one.
SpeechIsKept ==
  at = "spoken" => Spoken!OnlyTheCueIsTaken /\ Spoken!UncertainSpeechStays

\* What the user chose and sees is what is saved: the Subject and text of a dictated draft,
\* and the loop that was previewed.
SavedAsShown ==
  [][ /\ at = "spoken" => Spoken!ChoiceIsKept /\ Spoken!SavedAsShown
      /\ at = "visual" => Visual!SavedAsPreviewed ]_slots

\* Neither the day, nor the times of its Subjects, nor the selected Thought or Goal, nor the
\* bar of a download jumps.
StepsAreContinuous ==
  [][ /\ at = "day" => Day!FollowsToday /\ Day!TimesNeverGoBack
      /\ at = "filters" => Filters!SelectionStays
      /\ at = "setup" => Setup!ProgressNeverGoesBack
      /\ at = "thoughts" => Thoughts!NothingIsSkipped ]_slots
=============================================================================
