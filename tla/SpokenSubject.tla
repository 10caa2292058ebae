---------------------------- MODULE SpokenSubject ----------------------------
(***************************************************************************)
(* The Subject that the beginning of a dictation suggests for a draft.  A  *)
(* recording may open with a cue ("<name> thought ..."): the draft's        *)
(* Subject is then suggested from names read once for the draft, and the    *)
(* cue is taken out of the text.  Transcript revisions, the read of the     *)
(* names, the end of the recording and the keys of the user come in any     *)
(* order.  One draft is modelled, from opening to saving or discarding;     *)
(* the recording's own protocol is in VoiceRecording.                       *)
(*                                                                         *)
(* Text is a sequence of words: a cue, "said" for the rest of a dictation,  *)
(* "typed" for what the keyboard adds.  Four cues stand for the outcomes of *)
(* the parser: "plain" and "word" are commands, "maybe" and "odd" possible  *)
(* ones; "word" and "odd" are single words.  Length limits are left out.    *)
(***************************************************************************)
EXTENDS Naturals, Sequences

CONSTANTS
  MaxText,        \* bound: words of a draft when the user types or dictates more
  MaxRecordings   \* bound: recordings of the draft

Cue == {"plain", "word", "maybe", "odd"}
Possible == {"maybe", "odd"}
Single == {"word", "odd"}
NoCue == ""
\* What the names read for the draft make of a cue: no name or none near it, a name, two
\* names that differ only in case, or a name near enough to be recommended.
Finding == {"unknown", "existing", "collision", "similar"}
Unread == [c \in Cue |-> "unknown"]
\* At most one cue is near a stored name: what a read may find.
Names == {[Unread EXCEPT ![c] = f] : c \in Cue, f \in Finding}
Transcript == {<<>>, <<"said">>} \cup {<<c>> : c \in Cue} \cup {<<c, "said">> : c \in Cue}

VARIABLES
  draft,      \* the editor and voiceDraft with its voiceSubjectSuggestion
  read,       \* the read of the names: "pending", "wanted" no more, or "done"
  saving,     \* Model.loading: the draft was handed over to be stored
  recordings, \* recordings begun
  spoken,     \* history: the text, had nothing been taken out of it
  before,     \* history: spoken, when the recording began
  evidence    \* history: the names known when the recording's authority ended

vars == <<draft, read, saving, recordings, spoken, before, evidence>>
Context == <<read, saving, recordings>>
History == <<spoken, before, evidence>>

Init ==
  /\ \E origin \in {"unset", "explicit"} :
       draft = [text |-> <<>>, base |-> <<>>, status |-> "idle", authority |-> "none",
                suspended |-> FALSE, focused |-> FALSE, loaded |-> FALSE, names |-> Unread,
                origin |-> origin, cue |-> NoCue, transcript |-> <<>>, eligible |-> FALSE,
                consumed |-> FALSE, frozen |-> NoCue, proposedName |-> NoCue,
                proposed |-> NoCue, cleanup |-> <<>>,
                subject |-> IF origin = "explicit" THEN "picked" ELSE "none",
                query |-> IF origin = "explicit" THEN "picked" ELSE ""]
  /\ read = "pending" /\ saving = FALSE /\ recordings = 0
  /\ spoken = <<>> /\ before = <<>> /\ evidence = Unread

-----------------------------------------------------------------------------
\* The names read so far.

Matches(names, c) == IF names[c] \in {"existing", "collision"} THEN names[c] ELSE "unknown"

\* Mutant of Confirms: every cue the parser accepts is a command.
ConfirmsAny(names, c) == c # NoCue

\* ConfirmsCommand: a possible command needs a name of its own; two names confirm nothing.
Confirms(names, c) ==
  /\ c # NoCue
  /\ Matches(names, c) # "collision"
  /\ c \in Possible => Matches(names, c) = "existing"

\* ParseSpokenPrefix.
Prefix(transcript) ==
  IF transcript # <<>> /\ Head(transcript) \in Cue THEN Head(transcript) ELSE NoCue

-----------------------------------------------------------------------------
\* Changes of the draft that several handlers make.

\* Mutant of Cleaned: text that was edited since is replaced as well.
CleanedAlways(d) ==
  IF Len(d.transcript) < 2 THEN d
  ELSE [d EXCEPT !.text = Tail(d.transcript), !.cleanup = Tail(d.transcript)]

\* cleanUneditedSpokenPrefix: a cue with nothing after it stays.
Cleaned(d) ==
  IF d.text # d.transcript \/ Len(d.transcript) < 2 THEN d
  ELSE [d EXCEPT !.text = Tail(d.transcript), !.cleanup = Tail(d.transcript)]

CleanedIf(d, condition) == IF condition THEN Cleaned(d) ELSE d

\* freezeSpokenSubject: what is a command is settled when the authority ends.
Frozen(d) ==
  LET c == Prefix(d.transcript)
      known == Confirms(d.names, c)
      proposal == /\ c \in Single /\ d.proposedName = c /\ d.loaded
                  /\ Matches(d.names, c) = "unknown"
  IN IF ~d.eligible THEN d
     ELSE [d EXCEPT !.eligible = FALSE,
                    !.frozen = IF known THEN c ELSE @,
                    !.proposed = IF ~known /\ proposal THEN c ELSE @]

\* The suggestion is withdrawn; only a suggested Subject goes with it.
Withdrawn(d) ==
  IF d.origin # "automatic" THEN [d EXCEPT !.cue = NoCue, !.proposedName = NoCue]
  ELSE [d EXCEPT !.cue = NoCue, !.proposedName = NoCue,
                 !.origin = "unset", !.subject = "none", !.query = ""]

DeferredCleanup(d) ==
  CleanedIf(d, d.status = "idle" /\ Confirms(d.names, d.frozen))

\* Resolve: a name of its own, or else the best recommendation.
Suggested(d, c, proposal) ==
  LET found == ~proposal /\ d.loaded /\ d.names[c] \in {"existing", "similar"}
  IN [d EXCEPT !.cue = c, !.proposedName = IF proposal THEN c ELSE NoCue,
               !.origin = "automatic", !.subject = IF found THEN c ELSE "none", !.query = c]

\* Which cue a revision, or names that arrived late, suggest; NoCue for none.
CueOf(d) ==
  LET c == IF d.eligible THEN Prefix(d.transcript) ELSE d.frozen
  IN IF d.eligible
     THEN IF c \in Single /\ d.loaded /\ Matches(d.names, c) = "unknown" THEN c
          ELSE IF Confirms(d.names, c) THEN c ELSE NoCue
     ELSE IF Matches(d.names, c) = "collision" THEN NoCue ELSE c

Proposes(d, c) ==
  /\ c \in Single /\ Matches(d.names, c) = "unknown"
  /\ d.eligible => d.loaded

\* Mutant of Refreshed: a choice of the user is evaluated like a suggestion.
RefreshedOver(d, changed) ==
  IF ~d.eligible /\ (~changed \/ d.frozen = NoCue) THEN d
  ELSE LET c == CueOf(d)
       IN IF ~changed /\ c = d.cue THEN d
          ELSE IF c = NoCue THEN Withdrawn(d)
          ELSE DeferredCleanup(Suggested(d, c, Proposes(d, c)))

\* refreshSpokenSubject.
Refreshed(d, changed) ==
  IF d.suspended THEN d
  ELSE IF d.origin = "explicit" THEN (IF changed THEN DeferredCleanup(d) ELSE d)
  ELSE IF ~d.eligible /\ (~changed \/ d.frozen = NoCue) THEN d
  ELSE LET c == CueOf(d)
       IN IF ~changed /\ c = d.cue THEN d
          ELSE IF c = NoCue THEN Withdrawn(d)
          ELSE DeferredCleanup(Suggested(d, c, Proposes(d, c)))

\* confirmSpokenSubject: the user's choice settles a proposal, too.
Confirmed(d) ==
  CleanedIf([d EXCEPT !.proposed = NoCue, !.proposedName = NoCue],
            d.proposed # NoCue \/ d.frozen # NoCue)

Locked == draft.status # "idle"
Editing == ~saving /\ ~draft.suspended
Unchanging == UNCHANGED Context /\ UNCHANGED History

-----------------------------------------------------------------------------
\* The recording.

Start ==
  /\ Editing /\ ~Locked
  /\ recordings < MaxRecordings /\ Len(spoken) <= MaxText
  /\ recordings' = recordings + 1
  /\ LET consumed == draft.consumed \/ draft.text # <<>>
     IN draft' = [draft EXCEPT !.base = draft.text, !.status = "recording",
                    !.authority = "active", !.cleanup = <<>>, !.transcript = <<>>,
                    !.cue = NoCue, !.frozen = NoCue, !.proposed = NoCue,
                    !.consumed = consumed, !.eligible = ~consumed]
  /\ before' = spoken
  /\ UNCHANGED <<read, saving, spoken, evidence>>

\* applyTranscriptUpdate: each revision replaces the whole contribution.
TranscriptUpdate(t) ==
  /\ Editing
  /\ draft.authority = "active" /\ draft.status = "recording"
  /\ draft' = Refreshed([draft EXCEPT !.text = draft.base \o t, !.transcript = t], FALSE)
  /\ spoken' = before \o t
  /\ UNCHANGED Context /\ UNCHANGED <<before, evidence>>

\* The transport fails: the browser's side ends the authority before the editor hears of it.
LoseAuthority ==
  /\ draft.authority = "active"
  /\ draft' = [draft EXCEPT !.authority = "revoked"]
  /\ evidence' = draft.names
  /\ UNCHANGED Context /\ UNCHANGED <<spoken, before>>

Stop ==
  /\ Editing /\ draft.status = "recording"
  /\ draft' = [Frozen(draft) EXCEPT !.authority = "revoked", !.status = "stopping"]
  /\ evidence' = IF draft.authority = "active" THEN draft.names ELSE evidence
  /\ UNCHANGED Context /\ UNCHANGED <<spoken, before>>

\* recordingEnded and finishSpokenSubject.
RecordingEnded ==
  /\ draft.authority # "none"
  /\ LET settled == Frozen(draft)
         clean == CleanedIf(settled, settled.loaded /\ Confirms(settled.names, settled.frozen))
     IN draft' = [clean EXCEPT !.authority = "none", !.base = <<>>, !.status = "idle",
                    !.focused = FALSE, !.consumed = @ \/ settled.transcript # <<>>]
  /\ evidence' = IF draft.authority = "active" THEN draft.names ELSE evidence
  /\ UNCHANGED Context /\ UNCHANGED <<spoken, before>>

-----------------------------------------------------------------------------
\* The names arrive.

\* Mutant of FrozenIfEnded: names that arrive late confirm what was said before.
AwareOfEnd(d) == d

\* The read must not become evidence for speech whose authority has ended.
FrozenIfEnded(d) == IF d.authority = "revoked" THEN Frozen(d) ELSE d

\* Mutant of Wanted: the number of the read is not looked at.
WantedAlways == read # "done"

\* Saving and a created Subject give up the read; its answer may still come.
Wanted == read = "pending" /\ ~saving

SubjectsLoaded(names) ==
  /\ read # "done"
  /\ read' = "done"
  /\ draft' = IF Wanted
              THEN Refreshed([FrozenIfEnded(draft) EXCEPT !.names = names, !.loaded = TRUE], TRUE)
              ELSE draft
  /\ UNCHANGED <<saving, recordings>> /\ UNCHANGED History

SubjectsFailed ==
  /\ read # "done"
  /\ read' = "done"
  /\ draft' = IF Wanted THEN FrozenIfEnded(draft) ELSE draft
  /\ UNCHANGED <<saving, recordings>> /\ UNCHANGED History

-----------------------------------------------------------------------------
\* The keys; all but Stop wait for the end of a recording.

Type ==
  /\ Editing /\ ~Locked /\ ~draft.focused /\ Len(spoken) < MaxText
  /\ draft' = [draft EXCEPT !.text = Append(@, "typed")]
  /\ spoken' = Append(spoken, "typed")
  /\ UNCHANGED Context /\ UNCHANGED <<before, evidence>>

Backspace ==
  /\ Editing /\ ~Locked /\ ~draft.focused /\ draft.text # <<>>
  /\ draft' = [draft EXCEPT !.text = SubSeq(@, 1, Len(@) - 1)]
  /\ spoken' = SubSeq(spoken, 1, Len(spoken) - 1)
  /\ UNCHANGED Context /\ UNCHANGED <<before, evidence>>

\* Mutant of RestoredWhole: the transcript comes back as it was, without what was written since.
RestoredAlone == draft.transcript

\* restoreVoicePrefix puts the cue before whatever the text has become.
RestoredWhole ==
  IF draft.text = draft.cleanup THEN draft.transcript
  ELSE <<Head(draft.transcript)>> \o draft.text

Restore ==
  /\ Editing /\ ~Locked /\ draft.cleanup # <<>>
  /\ draft' = Withdrawn([draft EXCEPT !.text = RestoredWhole, !.cleanup = <<>>,
                           !.frozen = NoCue, !.proposed = NoCue,
                           !.eligible = FALSE, !.consumed = TRUE])
  /\ Unchanging

Focus ==
  /\ Editing /\ ~Locked
  /\ draft' = [draft EXCEPT !.focused = ~@]
  /\ Unchanging

Choosing == Editing /\ ~Locked /\ draft.focused

Chosen(d) == Confirmed([d EXCEPT !.origin = "explicit", !.subject = "picked",
                                 !.query = "picked", !.focused = FALSE])

\* updateVoicePicker.
Pick ==
  /\ Choosing
  /\ draft.loaded \/ read = "done"
  /\ draft' = Chosen(draft)
  /\ Unchanging

EditQuery ==
  /\ Choosing
  /\ \E query \in {"", "other"} :
       draft' = [draft EXCEPT !.query = query, !.origin = "explicit", !.subject = "none"]
  /\ Unchanging

Create ==
  /\ Choosing
  /\ draft' = [draft EXCEPT !.origin = "explicit", !.suspended = TRUE]
  /\ Unchanging

\* ReturnFromVoiceSubject, with a new Subject or with none.
ReturnWithSubject ==
  /\ draft.suspended
  /\ draft' = Chosen([draft EXCEPT !.suspended = FALSE])
  /\ read' = IF read = "pending" THEN "wanted" ELSE read
  /\ UNCHANGED <<saving, recordings>> /\ UNCHANGED History

ReturnEmpty ==
  /\ draft.suspended
  /\ draft' = [draft EXCEPT !.suspended = FALSE]
  /\ Unchanging

\* A search text that is neither chosen nor a mere proposal holds the draft back.
Unresolved == draft.query # "" /\ draft.subject = "none"
              /\ ~(draft.proposedName # NoCue /\ draft.query = draft.proposedName)

Save ==
  /\ Editing /\ ~Locked /\ draft.text # <<>> /\ ~Unresolved
  /\ saving' = TRUE
  /\ read' = IF read = "pending" THEN "wanted" ELSE read
  /\ UNCHANGED <<draft, recordings>> /\ UNCHANGED History

SaveFails ==
  /\ saving
  /\ saving' = FALSE
  /\ UNCHANGED <<draft, read, recordings>> /\ UNCHANGED History

Next ==
  \/ Start \/ LoseAuthority \/ Stop \/ RecordingEnded
  \/ \E t \in Transcript : TranscriptUpdate(t)
  \/ \E names \in Names : SubjectsLoaded(names)
  \/ SubjectsFailed
  \/ Type \/ Backspace \/ Restore \/ Focus \/ Pick \/ EditQuery \/ Create
  \/ ReturnWithSubject \/ ReturnEmpty \/ Save \/ SaveFails

Spec == Init /\ [][Next]_vars

-----------------------------------------------------------------------------
\* All that a suggestion ever takes out of a draft is the cue the draft began with: not a
\* word that was typed before the names arrived, nor of a later recording.
OnlyTheCueIsTaken ==
  \/ draft.text = spoken
  \/ spoken # <<>> /\ Head(spoken) \in Cue /\ draft.text = Tail(spoken)

\* What only might be a command stays in the text, unless its name was known before the
\* recording's authority ended, names that arrive later do not make it one, or the user
\* chose a Subject for the single word that was proposed.
UncertainSpeechStays ==
  draft.text # spoken /\ spoken # <<>> /\ Head(spoken) \in Possible
    => \/ evidence[Head(spoken)] = "existing"
       \/ Head(spoken) \in Single /\ draft.origin = "explicit"

\* A Subject the user chose, or the screen the draft was opened from, is replaced by the
\* user only, whatever was dictated and whichever names arrive.
ChoiceIsKept ==
  draft.origin = "explicit"
    => draft'.origin = "explicit" /\ draft'.subject \in {draft.subject, "picked", "none"}

\* A draft handed over to be stored is stored as it was shown: a late answer does not
\* change its text or its Subject meanwhile.
SavedAsShown ==
  saving => draft'.text = draft.text /\ draft'.subject = draft.subject

-----------------------------------------------------------------------------
(* What these rest on, of a draft d, what was said for it, what had been   *)
(* said when its recording began, and the names known when that ended.     *)

Word == Cue \cup {"said", "typed"}
Draft == [text : Seq(Word), base : Seq(Word), transcript : Transcript, cleanup : Seq(Word),
          status : {"idle", "recording", "stopping"},
          authority : {"none", "active", "revoked"},
          suspended : BOOLEAN, focused : BOOLEAN, loaded : BOOLEAN, names : [Cue -> Finding],
          origin : {"unset", "explicit", "automatic"}, eligible : BOOLEAN, consumed : BOOLEAN,
          cue : Cue \cup {NoCue}, frozen : Cue \cup {NoCue},
          proposedName : Cue \cup {NoCue}, proposed : Cue \cup {NoCue},
          subject : Cue \cup {"none", "picked"}, query : Cue \cup {"", "other", "picked"}]

TypeOK ==
  /\ draft \in Draft
  /\ read \in {"pending", "wanted", "done"}
  /\ saving \in BOOLEAN
  /\ recordings \in Nat
  /\ spoken \in Seq(Word) /\ before \in Seq(Word)
  /\ evidence \in [Cue -> Finding]

\* A text is what was said, or that without its cue; one that only might be a command was
\* one by the names known, or the user chose a Subject for it.
Taken(d, text, said, known) ==
  text # said =>
    /\ said # <<>> /\ Head(said) \in Cue /\ text = Tail(said)
    /\ Head(said) \in Possible =>
         \/ known[Head(said)] = "existing"
         \/ Head(said) \in Single /\ d.origin = "explicit"

\* While a recording runs, it contributes its transcript to the draft as it was.
Contributes(d, said, start, known) ==
  d.status # "idle" =>
    /\ d.text = d.base \o d.transcript /\ said = start \o d.transcript
    /\ Taken(d, d.base, start, known)
    /\ d.cleanup = <<>>
    /\ d.base # start => d.consumed

\* The editor unlocks with the end of the authority, and only then waits for another screen.
Unlocks(d) ==
  /\ d.status = "idle" <=> d.authority = "none"
  /\ d.status = "stopping" => d.authority = "revoked"
  /\ d.suspended => d.status = "idle"

\* A cue is looked for in the first recording of an empty draft only, and settled when its
\* authority ends.
Pending(d) == d.eligible \/ d.frozen # NoCue \/ d.proposed # NoCue
FirstOnly(d, said, start) ==
  /\ d.eligible => d.status # "idle"
  /\ d.authority = "active" => d.frozen = NoCue /\ d.proposed = NoCue
  /\ Pending(d) => /\ \A i \in 2 .. Len(said) : said[i] \notin Cue
                   /\ d.status # "idle" => start = <<>>
  /\ ~d.consumed => d.text = said
  /\ ~d.consumed /\ d.status = "idle" => d.transcript = <<>>

\* What was settled is the cue of the transcript, on the evidence of then.
SettledBy(d, known) ==
  /\ d.frozen # NoCue => d.frozen = Prefix(d.transcript)
  /\ d.frozen \in Possible => known[d.frozen] = "existing"
  /\ d.proposed # NoCue => d.proposed = Prefix(d.transcript) /\ d.proposed \in Single

\* What can be restored is what was taken.
Restorable(d, said) ==
  d.cleanup # <<>> =>
    /\ Len(d.transcript) >= 2 /\ d.cleanup = Tail(d.transcript)
    /\ d.text # said /\ Head(said) = Head(d.transcript)

DraftOK(d, said, start, known) ==
  /\ Taken(d, d.text, said, known)
  /\ Contributes(d, said, start, known)
  /\ Unlocks(d)
  /\ FirstOnly(d, said, start)
  /\ SettledBy(d, known)
  /\ Restorable(d, said)

\* The names are read once; evidence is what was known of them when a recording ended.
ReadOnce ==
  /\ draft.names # Unread => read = "done"
  /\ evidence # Unread => evidence = draft.names
  /\ draft.eligible /\ draft.authority = "revoked" => evidence = draft.names
  /\ saving => draft.status = "idle" /\ ~draft.suspended

IInv == TypeOK /\ DraftOK(draft, spoken, before, evidence) /\ ReadOnce
=============================================================================
