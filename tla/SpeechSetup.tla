----------------------------- MODULE SpeechSetup -----------------------------
(***************************************************************************)
(* The speech-setup popup of the root model: the check of the installed    *)
(* model, and downloads that are started, watched, hidden, cancelled and   *)
(* tried again.  A download reports through a mailbox of one, which a      *)
(* command of its own reads; its result is another message.  SpeechModel   *)
(* has what the calls do to the files.                                     *)
(***************************************************************************)
EXTENDS Naturals, FiniteSets

CONSTANTS
  MaxAttempt,  \* bound: downloads
  TotalBytes   \* a download's size, in reports

Attempt == 1 .. MaxAttempt
None == 0

VARIABLES
  setup,      \* speechSetupState
  behind,     \* whether another screen, the options or the exit prompt keep the offer back
  available,  \* thoughts: speechRecognitionAvailable
  loaded,     \* whether the service has a transcriber
  checks,     \* checks of the installed model under way
  download    \* per attempt: the command, its context, its mailbox and its watcher

vars == <<setup, behind, available, loaded, checks, download>>

\* What a call answers: at most one way on, and whether it failed.
Answer == [way : {"none", "download", "repair"}, failed : BOOLEAN]
NoAnswer == [way |-> "none", failed |-> FALSE]

Unstarted == [step |-> "none", cancelled |-> FALSE, reported |-> 0, mail |-> None,
              watch |-> "none", carried |-> None, answer |-> NoAnswer]

Init ==
  /\ setup = [open |-> FALSE, offered |-> FALSE, checking |-> TRUE, ready |-> FALSE,
              way |-> "none", loadFailed |-> FALSE, attempt |-> 0, busy |-> FALSE,
              cancelling |-> FALSE, progress |-> 0]
  /\ behind = TRUE
  /\ available = FALSE /\ loaded = FALSE
  /\ checks = 1
  /\ download = [a \in Attempt |-> Unstarted]

-----------------------------------------------------------------------------
\* offerSpeechSetup, at the end of every Update: once in a session, on the Events screen.
Offered(s, hidden) ==
  IF ~hidden /\ ~s.checking /\ ~s.ready /\ ~s.offered
  THEN [s EXCEPT !.open = TRUE, !.offered = TRUE] ELSE s
Becomes(s) == setup' = Offered(s, behind)
Moves(a, d) == download' = [download EXCEPT ![a] = d]

\* The user goes to another screen and comes back; an exit prompt opens over the popup too.
Navigate ==
  /\ behind' = ~behind
  /\ setup' = Offered(setup, behind')
  /\ UNCHANGED <<available, loaded, checks, download>>

\* The Models entry of the options.
OpenModels ==
  /\ behind /\ ~setup.open
  /\ Becomes([setup EXCEPT !.open = TRUE, !.offered = TRUE])
  /\ UNCHANGED <<behind, available, loaded, checks, download>>

\* speechSetupChecked.  A runtime that this build lacks is an answer without a way on.
TakeChecked ==
  /\ checks > 0 /\ checks' = checks - 1
  /\ \E ready \in BOOLEAN, answer \in Answer :
       /\ loaded => ready
       /\ ready => answer = NoAnswer
       /\ loaded' = ready /\ available' = ready
       /\ Becomes([setup EXCEPT !.checking = FALSE, !.ready = ready, !.way = answer.way,
                                !.loadFailed = answer.failed])
  /\ UNCHANGED <<behind, download>>

-----------------------------------------------------------------------------
\* Buttons.  The popup shows those that its state allows.
Buttons ==
  CASE setup.busy -> IF setup.cancelling THEN {"hide"} ELSE {"hide", "cancel"}
    [] ~setup.busy /\ (setup.checking \/ setup.ready) -> {"close"}
    [] ~setup.busy /\ ~setup.checking /\ ~setup.ready ->
         {"close"} \cup (IF setup.way # "none" THEN {setup.way}
                         ELSE IF setup.loadFailed THEN {"check"} ELSE {})
Pressed(button) == setup.open /\ button \in Buttons

\* Esc closes the popup whatever the buttons are; Keep writing closes the options as well.
Close ==
  /\ setup.open
  /\ Becomes([setup EXCEPT !.open = FALSE, !.offered = TRUE])
  /\ UNCHANGED <<behind, available, loaded, checks, download>>

Hide ==
  /\ Pressed("hide")
  /\ \E hidden \in {behind, FALSE} :
       /\ behind' = hidden
       /\ setup' = Offered([setup EXCEPT !.open = FALSE], hidden)
  /\ UNCHANGED <<available, loaded, checks, download>>

\* startSpeechModelDownload.
Start ==
  /\ Pressed("download") \/ Pressed("repair")
  /\ setup.attempt < MaxAttempt
  /\ Becomes([setup EXCEPT !.attempt = @ + 1, !.busy = TRUE, !.cancelling = FALSE,
                           !.progress = 0])
  /\ Moves(setup.attempt + 1, [Unstarted EXCEPT !.step = "running", !.watch = "waiting"])
  /\ UNCHANGED <<behind, available, loaded, checks>>

Cancel ==
  /\ Pressed("cancel")
  /\ Becomes([setup EXCEPT !.cancelling = TRUE])
  /\ Moves(setup.attempt, [download[setup.attempt] EXCEPT !.cancelled = TRUE])
  /\ UNCHANGED <<behind, available, loaded, checks>>

CheckAgain ==
  /\ Pressed("check")
  /\ Becomes([setup EXCEPT !.checking = TRUE])
  /\ checks' = checks + 1
  /\ UNCHANGED <<behind, available, loaded, download>>

-----------------------------------------------------------------------------
\* The commands of attempt a.  A report replaces the one that nobody has read.
Report(a) ==
  LET d == download[a]
  IN /\ d.step = "running" /\ d.reported < TotalBytes
     /\ Moves(a, [d EXCEPT !.reported = @ + 1, !.mail = d.reported + 1])
     /\ UNCHANGED <<setup, behind, available, loaded, checks>>

\* The call returns.  One that has loaded the model may yet find that it was cancelled: the
\* popup then learns of the cancellation only.
Return(a) ==
  LET d == download[a]
  IN /\ d.step = "running"
     /\ \E succeeds \in BOOLEAN, answer \in Answer :
          /\ succeeds => answer.way = "none" /\ answer.failed = d.cancelled
          /\ ~succeeds => answer.failed
          /\ loaded' = succeeds
          /\ Moves(a, [d EXCEPT !.step = "returned", !.answer = answer])
     /\ UNCHANGED <<setup, behind, available, checks>>

\* waitForSpeechModelProgress: a report, or the closed mailbox.
Watch(a) ==
  LET d == download[a]
  IN /\ d.watch = "waiting"
     /\ \/ /\ d.mail # None
           /\ Moves(a, [d EXCEPT !.watch = "message", !.carried = d.mail, !.mail = None])
        \/ /\ d.mail = None /\ d.step \in {"returned", "taken"}
           /\ Moves(a, [d EXCEPT !.watch = "none"])
     /\ UNCHANGED <<setup, behind, available, loaded, checks>>

\* Mutant of Current: any report is shown while a download is under way.
CurrentByBusy(a) == setup.busy /\ ~setup.cancelling
Current(a) == a = setup.attempt /\ setup.busy /\ ~setup.cancelling

\* speechSetupProgress: the next report is waited for only while this one counts.
TakeProgress(a) ==
  LET d == download[a]
  IN /\ d.watch = "message"
     /\ IF Current(a)
        THEN /\ Becomes([setup EXCEPT !.progress = d.carried])
             /\ Moves(a, [d EXCEPT !.watch = "waiting", !.carried = None])
        ELSE /\ Becomes(setup)
             /\ Moves(a, [d EXCEPT !.watch = "none", !.carried = None])
     /\ UNCHANGED <<behind, available, loaded, checks>>

\* Mutant of Enabled: a download that succeeded counts although it is being cancelled, and
\* one that was cancelled as well.
EnabledIfAnswered(a) == TRUE
Enabled(a) == ~download[a].answer.failed /\ ~setup.cancelling

\* Mutant of Fails: a cancelled download is no failure, so that no check is offered.
FailsUncancelled(a) == download[a].answer.failed /\ ~download[a].cancelled
Fails(a) == ~Enabled(a)

\* speechSetupFinished, of the attempt that the popup is busy with.  What nobody reads any
\* more is reset, to keep the states few.
TakeFinished(a) ==
  LET d == download[a]
  IN /\ d.step = "returned"
     /\ Moves(a, [Unstarted EXCEPT !.step = "taken", !.mail = d.mail, !.watch = d.watch,
                                    !.carried = d.carried])
     /\ IF a = setup.attempt /\ setup.busy
        THEN /\ Becomes([setup EXCEPT !.busy = FALSE, !.cancelling = FALSE,
                                      !.progress = 0, !.ready = Enabled(a), !.way = d.answer.way,
                                      !.loadFailed = Fails(a)])
             /\ available' = Enabled(a)
        ELSE Becomes(setup) /\ UNCHANGED available
     /\ UNCHANGED <<behind, loaded, checks>>

Next ==
  \/ Navigate \/ OpenModels \/ TakeChecked \/ Close \/ Hide \/ Start \/ Cancel \/ CheckAgain
  \/ \E a \in Attempt : Report(a) \/ Return(a) \/ Watch(a) \/ TakeProgress(a) \/ TakeFinished(a)

Spec == Init /\ [][Next]_vars

-----------------------------------------------------------------------------
Running(a) == download[a].step \in {"running", "returned"}

\* What the popup waits for is on its way: a check, the end of its download, and, unless it
\* is being cancelled, the next report of it.
AwaitedIsComing ==
  /\ setup.checking => checks > 0
  /\ setup.busy => Running(setup.attempt)
  /\ setup.busy /\ ~setup.cancelling =>
       \/ download[setup.attempt].watch \in {"waiting", "message"}
       \/ download[setup.attempt].step # "running"

\* One download runs at a time, and none while the installed model is checked: a cancelled
\* one is joined before the next can begin.
OneCall ==
  /\ \A a, b \in Attempt : Running(a) /\ Running(b) => a = b
  /\ (\E a \in Attempt : Running(a)) => checks = 0

\* The bytes shown are those of the download under way, never more than it reported.
ProgressIsOfDownload == setup.busy => setup.progress <= download[setup.attempt].reported

\* Dictation is offered exactly when the popup says that speech is ready, and then there is
\* a transcriber.  One that was loaded behind a cancellation is found by the check that the
\* popup offers.
ReadyIsLoaded ==
  /\ available = setup.ready
  /\ setup.ready => loaded
  /\ loaded /\ ~setup.busy => setup.ready \/ setup.checking \/ "check" \in Buttons

\* The bar of a download never goes back.
ProgressNeverGoesBack ==
  setup.busy /\ setup'.busy /\ setup'.attempt = setup.attempt
    => setup'.progress >= setup.progress

-----------------------------------------------------------------------------
(* What these rest on: the check and the download exclude each other, and a *)
(* report is newer than the one it follows from mailbox to popup.           *)

Setups ==
  [open : BOOLEAN, offered : BOOLEAN, checking : BOOLEAN, ready : BOOLEAN,
   way : {"none", "download", "repair"}, loadFailed : BOOLEAN, attempt : {0} \cup Attempt,
   busy : BOOLEAN, cancelling : BOOLEAN, progress : Nat]
Downloads ==
  [step : {"none", "running", "returned", "taken"}, cancelled : BOOLEAN, reported : Nat,
   mail : Nat, watch : {"none", "waiting", "message"}, carried : Nat, answer : Answer]

TypeOK ==
  /\ setup \in Setups
  /\ behind \in BOOLEAN /\ available \in BOOLEAN /\ loaded \in BOOLEAN
  /\ checks \in {0, 1}
  /\ download \in [Attempt -> Downloads]

OneAtATime ==
  /\ setup.checking <=> checks = 1
  /\ setup.busy => setup.attempt # 0 /\ ~setup.checking
  /\ setup.busy \/ setup.checking => ~setup.ready
  /\ \A a \in Attempt : Running(a) <=> a = setup.attempt /\ setup.busy

\* The reports of a download that is under way.
InOrder(d, shown) ==
  /\ d.mail <= d.reported /\ d.carried <= d.reported /\ shown <= d.reported
  /\ d.watch = "message" => shown <= d.carried
  /\ d.mail # None => shown <= d.mail /\ (d.watch = "message" => d.carried <= d.mail)
ReportsOK == setup.busy => InOrder(download[setup.attempt], setup.progress)

LoadedOK ==
  /\ available = setup.ready
  /\ setup.ready => loaded
  /\ loaded /\ ~setup.busy =>
       setup.ready \/ setup.checking \/ (setup.way = "none" /\ setup.loadFailed)
  /\ \A a \in Attempt : download[a].step = "returned" =>
       /\ ~download[a].answer.failed => loaded
       /\ loaded => download[a].answer.way = "none"

IInv == TypeOK /\ OneAtATime /\ ReportsOK /\ LoadedOK /\ AwaitedIsComing
=============================================================================
