------------------------- MODULE WritingScreensProofs ------------------------
(***************************************************************************)
(* Safety of the screens in which the user writes.  Each screen has an     *)
(* inductive invariant, IInv of its own module; the lemmas about a screen  *)
(* bear its name, and x1 to x10 are its variables as WritingScreens lists  *)
(* them.  ScreensProofs has the theorems, with those of the other screens. *)
(***************************************************************************)
EXTENDS WritingScreens, SequenceTheorems, FunctionTheorems, FiniteSetTheorems, TLAPS

-----------------------------------------------------------------------------
(* The Subject that a dictation suggests.  What a handler does to the      *)
(* draft is composed of a few parts, each of which takes at most the cue:  *)
(* x1 is the draft d before and e after it, x5 what was said, x6 what was  *)
(* said when the recording began, x7 the evidence of its end.              *)

\* Texts.

LEMMA SpokenWordsOfTranscript ==
  ASSUME NEW t \in Spoken!Transcript
  PROVE  /\ t \in Seq(Spoken!Word)
         /\ Len(t) >= 2 => /\ Head(t) \in Spoken!Cue /\ t[1] = Head(t)
                           /\ Tail(t) \in Seq(Spoken!Word) /\ Tail(t) # <<>> /\ Tail(t) # t
         /\ \A i \in 2 .. Len(t) : t[i] \notin Spoken!Cue
         /\ t # <<>> => Head(t) = t[1] /\ Len(t) >= 1
         /\ Spoken!Prefix(t) # Spoken!NoCue => Spoken!Prefix(t) \in Spoken!Cue /\ t # <<>> /\ Head(t) = Spoken!Prefix(t)
         /\ Spoken!Prefix(t) \in Spoken!Cue \cup {Spoken!NoCue}
  <1>1. Spoken!NoCue \notin Spoken!Cue /\ "said" \notin Spoken!Cue /\ "said" \in Spoken!Word
        /\ Spoken!Cue \subseteq Spoken!Word
    BY DEF Spoken!NoCue, Spoken!Cue, Spoken!Word
  <1>2. CASE t = <<>>
    BY <1>2 DEF Spoken!Prefix
  <1>3. CASE t = <<"said">>
    BY <1>1, <1>3 DEF Spoken!Prefix
  <1>4. ASSUME NEW c \in Spoken!Cue, t = <<c>>
        PROVE  t \in Seq(Spoken!Word) /\ Len(t) = 1 /\ Head(t) = c /\ t[1] = c /\ t # <<>>
    BY <1>1, <1>4
  <1>5. ASSUME NEW c \in Spoken!Cue, t = <<c>>
        PROVE  Spoken!Prefix(t) = c /\ Len(t) = 1
    BY <1>4, <1>5 DEF Spoken!Prefix
  <1>6. ASSUME NEW c \in Spoken!Cue, t = <<c, "said">>
        PROVE  /\ t \in Seq(Spoken!Word) /\ Len(t) = 2 /\ Head(t) = c /\ t[1] = c /\ t # <<>>
               /\ t[2] = "said" /\ Tail(t) = <<"said">>
    BY <1>1, <1>6
  <1>7. ASSUME NEW c \in Spoken!Cue, t = <<c, "said">>
        PROVE  Spoken!Prefix(t) = c /\ Tail(t) \in Seq(Spoken!Word) /\ Tail(t) # <<>>
               /\ Tail(t) # t
    BY <1>1, <1>6, <1>7 DEF Spoken!Prefix
  <1>8. CASE \E c \in Spoken!Cue : t = <<c>>
    BY <1>1, <1>4, <1>5, <1>8
  <1>9. CASE \E c \in Spoken!Cue : t = <<c, "said">>
    <2>1. PICK c \in Spoken!Cue : t = <<c, "said">>
      BY <1>9
    <2>2. \A i \in 2 .. Len(t) : t[i] \notin Spoken!Cue
      BY <1>1, <1>6, <2>1
    <2> QED BY <1>1, <1>6, <1>7, <2>1, <2>2
  <1> QED BY <1>2, <1>3, <1>8, <1>9 DEF Spoken!Transcript

LEMMA SpokenTailOfAppend ==
  ASSUME NEW s \in Seq(Spoken!Word), s # <<>>, NEW w \in Spoken!Word
  PROVE  /\ Tail(Append(s, w)) = Append(Tail(s), w) /\ Head(Append(s, w)) = Head(s)
         /\ Append(s, w) # <<>>
  OBVIOUS

LEMMA SpokenTailOfFront ==
  ASSUME NEW s \in Seq(Spoken!Word), Len(s) >= 2
  PROVE  /\ Tail(SubSeq(s, 1, Len(s) - 1)) = SubSeq(Tail(s), 1, Len(Tail(s)) - 1)
         /\ Head(SubSeq(s, 1, Len(s) - 1)) = Head(s)
         /\ SubSeq(s, 1, Len(s) - 1) # <<>>
  <1> DEFINE f == SubSeq(s, 1, Len(s) - 1)
             t == Tail(s)
             g == SubSeq(t, 1, Len(t) - 1)
  <1>1. f \in Seq(Spoken!Word) /\ Len(f) = Len(s) - 1 /\ \A i \in 1 .. Len(s) - 1 : f[i] = s[i]
    BY SubSeqProperties
  <1>2. t \in Seq(Spoken!Word) /\ Len(t) = Len(s) - 1 /\ \A i \in 1 .. Len(t) : t[i] = s[i + 1]
    BY HeadTailProperties
  <1>3. g \in Seq(Spoken!Word) /\ Len(g) = Len(s) - 2 /\ \A i \in 1 .. Len(s) - 2 : g[i] = s[i + 1]
    BY <1>2, SubSeqProperties
  <1>4. /\ Tail(f) \in Seq(Spoken!Word) /\ Len(Tail(f)) = Len(s) - 2
        /\ \A i \in 1 .. Len(s) - 2 : Tail(f)[i] = s[i + 1]
    <2> HIDE DEF f
    <2>1. f # <<>> /\ \A i \in 1 .. Len(s) - 2 : i + 1 \in 1 .. Len(s) - 1
      BY <1>1
    <2> QED BY <1>1, <2>1, HeadTailProperties
  <1>5. Tail(f) = g
    <2> HIDE DEF f, g
    <2> QED BY <1>3, <1>4, SeqEqual, Len(s) - 2 \in Nat
  <1>6. f # <<>> /\ Head(f) = Head(s)
    <2> HIDE DEF f
    <2> QED BY <1>1
  <1> QED BY <1>5, <1>6

LEMMA SpokenTailOfConcat ==
  ASSUME NEW s \in Seq(Spoken!Word), s # <<>>, NEW t \in Seq(Spoken!Word)
  PROVE  /\ Tail(s \o t) = Tail(s) \o t /\ Head(s \o t) = Head(s)
         /\ s \o t # <<>>
  OBVIOUS

LEMMA SpokenHeadAndTail ==
  ASSUME NEW s \in Seq(Spoken!Word), s # <<>>
  PROVE  <<Head(s)>> \o Tail(s) = s /\ Tail(s) # s /\ Tail(s) \in Seq(Spoken!Word)
         /\ Head(s) \in Spoken!Word
         /\ Head(s) = s[1] /\ (Tail(s) # <<>> => Tail(s)[1] = s[2] /\ Len(s) >= 2)
  OBVIOUS

\* What the parts of a handler leave of a draft.

SpokenKept(d, e) ==
  /\ e.base = d.base /\ e.transcript = d.transcript
  /\ e.status = d.status /\ e.authority = d.authority /\ e.suspended = d.suspended
  /\ e.names = d.names /\ e.consumed = d.consumed

SpokenTextKept(d, e) == e.text = d.text /\ e.cleanup = d.cleanup

SpokenCueTaken(d, e) ==
  /\ d.text = d.transcript /\ Len(d.transcript) >= 2
  /\ e.text = Tail(d.transcript) /\ e.cleanup = Tail(d.transcript)

SpokenSettledKept(d, e) == e.eligible = d.eligible /\ e.frozen = d.frozen /\ e.proposed = d.proposed

LEMMA SpokenCleanedFacts ==
  ASSUME NEW d \in Spoken!Draft
  PROVE  /\ Spoken!Cleaned(d) \in Spoken!Draft /\ SpokenKept(d, Spoken!Cleaned(d))
         /\ SpokenSettledKept(d, Spoken!Cleaned(d))
         /\ Spoken!Cleaned(d).origin = d.origin /\ Spoken!Cleaned(d).subject = d.subject
         /\ SpokenTextKept(d, Spoken!Cleaned(d)) \/ SpokenCueTaken(d, Spoken!Cleaned(d))
  <1>1. CASE d.text # d.transcript \/ Len(d.transcript) < 2
    BY <1>1 DEF Spoken!Cleaned, SpokenKept, SpokenSettledKept, SpokenTextKept
  <1>2. CASE ~(d.text # d.transcript \/ Len(d.transcript) < 2)
    <2> DEFINE t == Tail(d.transcript)
               e == [d EXCEPT !.text = t, !.cleanup = t]
    <2>1. Spoken!Cleaned(d) = e
      BY <1>2 DEF Spoken!Cleaned
    <2>2. d.transcript \in Spoken!Transcript /\ d.transcript \in Seq(Spoken!Word)
      BY SpokenWordsOfTranscript DEF Spoken!Draft
    <2>3. Len(d.transcript) >= 2 /\ d.text = d.transcript
      BY <1>2, <2>2
    <2>4. t \in Seq(Spoken!Word)
      BY <2>2, <2>3, SpokenWordsOfTranscript
    <2> HIDE DEF t
    <2>5. e \in Spoken!Draft
      BY <2>4 DEF Spoken!Draft
    <2>6. e.text = t /\ e.cleanup = t /\ e.origin = d.origin /\ e.subject = d.subject
      BY DEF Spoken!Draft
    <2>7. SpokenKept(d, e) /\ SpokenSettledKept(d, e)
      BY DEF Spoken!Draft, SpokenKept, SpokenSettledKept
    <2>8. SpokenCueTaken(d, e)
      BY <2>3, <2>6 DEF SpokenCueTaken, t
    <2> QED BY <2>1, <2>5, <2>6, <2>7, <2>8
  <1> QED BY <1>1, <1>2

LEMMA SpokenFrozenFacts ==
  ASSUME NEW d \in Spoken!Draft
  PROVE  /\ Spoken!Frozen(d) \in Spoken!Draft /\ SpokenKept(d, Spoken!Frozen(d))
         /\ SpokenTextKept(d, Spoken!Frozen(d))
         /\ Spoken!Frozen(d).origin = d.origin /\ ~Spoken!Frozen(d).eligible
         /\ ~d.eligible => SpokenSettledKept(d, Spoken!Frozen(d))
         /\ \/ Spoken!Frozen(d).frozen = d.frozen
            \/ Spoken!Frozen(d).frozen = Spoken!Prefix(d.transcript) /\ Spoken!Confirms(d.names, Spoken!Prefix(d.transcript))
         /\ \/ Spoken!Frozen(d).proposed = d.proposed
            \/ Spoken!Frozen(d).proposed = Spoken!Prefix(d.transcript) /\ Spoken!Prefix(d.transcript) \in Spoken!Single
  <1>1. CASE ~d.eligible
    BY <1>1 DEF Spoken!Frozen, SpokenKept, SpokenSettledKept, SpokenTextKept
  <1>2. CASE d.eligible
    <2> DEFINE c == Spoken!Prefix(d.transcript)
               f == IF Spoken!Confirms(d.names, c) THEN c ELSE d.frozen
               p == IF ~Spoken!Confirms(d.names, c) /\ c \in Spoken!Single /\ d.proposedName = c
                       /\ d.loaded /\ Spoken!Matches(d.names, c) = "unknown"
                    THEN c ELSE d.proposed
               e == [d EXCEPT !.eligible = FALSE, !.frozen = f, !.proposed = p]
    <2>1. Spoken!Frozen(d) = e
      BY <1>2 DEF Spoken!Frozen
    <2>2. c \in Spoken!Cue \cup {Spoken!NoCue}
      BY SpokenWordsOfTranscript DEF Spoken!Draft
    <2>3. f \in Spoken!Cue \cup {Spoken!NoCue} /\ p \in Spoken!Cue \cup {Spoken!NoCue}
      BY <2>2 DEF Spoken!Draft
    <2>4. /\ f = d.frozen \/ (f = c /\ Spoken!Confirms(d.names, c))
          /\ p = d.proposed \/ (p = c /\ c \in Spoken!Single)
      <3> HIDE DEF c
      <3> QED OBVIOUS
    <2> HIDE DEF f, p
    <2>5. e \in Spoken!Draft
      BY <2>3, ZenonT(60) DEF Spoken!Draft
    <2>6. e.eligible = FALSE /\ e.frozen = f /\ e.proposed = p /\ e.origin = d.origin
      BY DEF Spoken!Draft
    <2>7. SpokenKept(d, e) /\ SpokenTextKept(d, e)
      BY DEF Spoken!Draft, SpokenKept, SpokenTextKept
    <2> QED BY <1>2, <2>1, <2>4, <2>5, <2>6, <2>7
  <1> QED BY <1>1, <1>2

LEMMA SpokenWithdrawnFacts ==
  ASSUME NEW d \in Spoken!Draft
  PROVE  /\ Spoken!Withdrawn(d) \in Spoken!Draft /\ SpokenKept(d, Spoken!Withdrawn(d))
         /\ SpokenTextKept(d, Spoken!Withdrawn(d))
         /\ SpokenSettledKept(d, Spoken!Withdrawn(d))
         /\ d.origin = "explicit" => Spoken!Withdrawn(d).origin = "explicit"
  <1>1. CASE d.origin # "automatic"
    BY <1>1, ZenonT(60)
       DEF Spoken!Withdrawn, Spoken!Draft, SpokenKept, SpokenSettledKept, SpokenTextKept
  <1>2. CASE d.origin = "automatic"
    BY <1>2, ZenonT(60)
       DEF Spoken!Withdrawn, Spoken!Draft, SpokenKept, SpokenSettledKept, SpokenTextKept
  <1> QED BY <1>1, <1>2

LEMMA SpokenSuggestedFacts ==
  ASSUME NEW d \in Spoken!Draft, NEW c \in Spoken!Cue, NEW proposal \in BOOLEAN
  PROVE  LET e == Spoken!Suggested(d, c, proposal)
         IN e \in Spoken!Draft /\ SpokenKept(d, e) /\ SpokenTextKept(d, e)
           /\ SpokenSettledKept(d, e)
  <1> DEFINE n == IF proposal THEN c ELSE Spoken!NoCue
             s == IF ~proposal /\ d.loaded /\ d.names[c] \in {"existing", "similar"}
                  THEN c ELSE "none"
             e == [d EXCEPT !.cue = c, !.proposedName = n, !.origin = "automatic",
                            !.subject = s, !.query = c]
  <1>1. Spoken!Suggested(d, c, proposal) = e
    BY DEF Spoken!Suggested
  <1>2. n \in Spoken!Cue \cup {Spoken!NoCue} /\ s \in Spoken!Cue \cup {"none", "picked"}
    OBVIOUS
  <1> HIDE DEF n, s
  <1>3. e \in Spoken!Draft
    BY <1>2, ZenonT(60) DEF Spoken!Draft
  <1>4. SpokenKept(d, e) /\ SpokenTextKept(d, e) /\ SpokenSettledKept(d, e)
    BY DEF Spoken!Draft, SpokenKept, SpokenTextKept, SpokenSettledKept
  <1> QED BY <1>1, <1>3, <1>4

\* How a handler may change what the user has chosen and the text, between two states.
SpokenRefreshes(d, e) ==
  /\ SpokenKept(d, e) /\ SpokenSettledKept(d, e)
  /\ d.origin = "explicit" => e.origin = "explicit"
  /\ SpokenTextKept(d, e) \/ (SpokenCueTaken(d, e) /\ d.status = "idle" /\ d.frozen # Spoken!NoCue)

LEMMA SpokenCueOfFacts ==
  ASSUME NEW d \in Spoken!Draft
  PROVE  Spoken!CueOf(d) \in Spoken!Cue \cup {Spoken!NoCue}
  <1> DEFINE c == IF d.eligible THEN Spoken!Prefix(d.transcript) ELSE d.frozen
  <1>1. c \in Spoken!Cue \cup {Spoken!NoCue}
    BY SpokenWordsOfTranscript DEF Spoken!Draft
  <1>2. Spoken!CueOf(d) = c \/ Spoken!CueOf(d) = Spoken!NoCue
    BY DEF Spoken!CueOf
  <1> QED BY <1>1, <1>2

LEMMA SpokenDeferredFacts ==
  ASSUME NEW d \in Spoken!Draft
  PROVE  /\ Spoken!DeferredCleanup(d) \in Spoken!Draft
         /\ SpokenRefreshes(d, Spoken!DeferredCleanup(d))
         /\ Spoken!DeferredCleanup(d).origin = d.origin
  <1>1. CASE d.status = "idle" /\ Spoken!Confirms(d.names, d.frozen)
    BY <1>1, SpokenCleanedFacts
       DEF Spoken!DeferredCleanup, Spoken!CleanedIf, SpokenRefreshes, Spoken!Confirms
  <1>2. CASE ~(d.status = "idle" /\ Spoken!Confirms(d.names, d.frozen))
    BY <1>2
       DEF Spoken!DeferredCleanup, Spoken!CleanedIf, SpokenRefreshes, SpokenKept, SpokenTextKept,
           SpokenSettledKept
  <1> QED BY <1>1, <1>2

LEMMA SpokenRefreshesTwice ==
  ASSUME NEW d, NEW e, NEW f, SpokenRefreshes(d, e), SpokenTextKept(d, e), SpokenRefreshes(e, f)
  PROVE  SpokenRefreshes(d, f)
  BY DEF SpokenRefreshes, SpokenKept, SpokenTextKept, SpokenSettledKept, SpokenCueTaken

LEMMA SpokenRefreshedFacts ==
  ASSUME NEW d \in Spoken!Draft, NEW changed \in BOOLEAN
  PROVE  Spoken!Refreshed(d, changed) \in Spoken!Draft
         /\ SpokenRefreshes(d, Spoken!Refreshed(d, changed))
  <1> DEFINE c == Spoken!CueOf(d)
             s == Spoken!Suggested(d, c, Spoken!Proposes(d, c))
  <1>1. d \in Spoken!Draft /\ SpokenRefreshes(d, d)
    BY DEF SpokenRefreshes, SpokenKept, SpokenTextKept, SpokenSettledKept
  <1>2. Spoken!DeferredCleanup(d) \in Spoken!Draft
        /\ SpokenRefreshes(d, Spoken!DeferredCleanup(d))
    BY SpokenDeferredFacts
  <1>3. Spoken!Withdrawn(d) \in Spoken!Draft /\ SpokenRefreshes(d, Spoken!Withdrawn(d))
    BY SpokenWithdrawnFacts DEF SpokenRefreshes
  <1>4. d.origin # "explicit" /\ c # Spoken!NoCue =>
          Spoken!DeferredCleanup(s) \in Spoken!Draft
            /\ SpokenRefreshes(d, Spoken!DeferredCleanup(s))
    <2> SUFFICES ASSUME d.origin # "explicit", c # Spoken!NoCue
                 PROVE  Spoken!DeferredCleanup(s) \in Spoken!Draft
                        /\ SpokenRefreshes(d, Spoken!DeferredCleanup(s))
      OBVIOUS
    <2>1. c \in Spoken!Cue
      BY SpokenCueOfFacts
    <2>2. Spoken!Proposes(d, c) \in BOOLEAN
      BY DEF Spoken!Proposes
    <2>3. s \in Spoken!Draft /\ SpokenRefreshes(d, s) /\ SpokenTextKept(d, s)
      BY <2>1, <2>2, SpokenSuggestedFacts DEF SpokenRefreshes
    <2> HIDE DEF s
    <2>4. Spoken!DeferredCleanup(s) \in Spoken!Draft
          /\ SpokenRefreshes(s, Spoken!DeferredCleanup(s))
      BY <2>3, SpokenDeferredFacts
    <2> QED BY <2>3, <2>4, SpokenRefreshesTwice
  <1>5. \/ Spoken!Refreshed(d, changed) = d
        \/ Spoken!Refreshed(d, changed) = Spoken!DeferredCleanup(d)
        \/ Spoken!Refreshed(d, changed) = Spoken!Withdrawn(d)
        \/ d.origin # "explicit" /\ c # Spoken!NoCue /\ Spoken!Refreshed(d, changed) = Spoken!DeferredCleanup(s)
    BY DEF Spoken!Refreshed
  <1> HIDE DEF c, s
  <1> QED BY <1>1, <1>2, <1>3, <1>4, <1>5

\* Taking the cue, at the end of a recording or later, leaves a draft in order: it is the
\* cue the draft began with, and settled or chosen.
LEMMA SpokenTakingPreserves ==
  ASSUME NEW d \in Spoken!Draft, NEW e \in Spoken!Draft, NEW said \in Seq(Spoken!Word),
             NEW start \in Seq(Spoken!Word),
         NEW known, Spoken!DraftOK(d, said, start, known), SpokenKept(d, e),
         e.eligible = d.eligible, e.frozen = d.frozen, e.proposed \in {d.proposed, Spoken!NoCue},
         d.origin = "explicit" => e.origin = "explicit",
         \/ SpokenTextKept(d, e)
         \/ /\ SpokenCueTaken(d, e) /\ d.status = "idle"
            /\ d.frozen # Spoken!NoCue \/ (d.proposed # Spoken!NoCue /\ e.origin = "explicit")
  PROVE  Spoken!DraftOK(e, said, start, known)
  <1> USE DEF SpokenKept
  <1>1. Spoken!Unlocks(e)
    BY DEF Spoken!DraftOK, Spoken!Unlocks
  <1>2. Spoken!SettledBy(e, known)
    BY DEF Spoken!DraftOK, Spoken!SettledBy
  <1>3. CASE SpokenTextKept(d, e)
    <2> USE <1>3 DEF SpokenTextKept
    <2>1. Spoken!Taken(e, e.text, said, known)
      BY DEF Spoken!DraftOK, Spoken!Taken
    <2>2. Spoken!Contributes(e, said, start, known)
      BY DEF Spoken!DraftOK, Spoken!Contributes, Spoken!Taken
    <2>3. Spoken!FirstOnly(e, said, start)
      BY DEF Spoken!DraftOK, Spoken!FirstOnly, Spoken!Pending
    <2>4. Spoken!Restorable(e, said)
      BY DEF Spoken!DraftOK, Spoken!Restorable
    <2> QED BY <1>1, <1>2, <2>1, <2>2, <2>3, <2>4 DEF Spoken!DraftOK
  <1>4. CASE /\ SpokenCueTaken(d, e) /\ d.status = "idle"
             /\ d.frozen # Spoken!NoCue \/ (d.proposed # Spoken!NoCue /\ e.origin = "explicit")
    <2> USE <1>4 DEF SpokenCueTaken
    <2> DEFINE t == d.transcript
               c == Spoken!Prefix(t)
    <2>1. /\ t \in Seq(Spoken!Word) /\ Len(t) >= 2 /\ t # <<>> /\ t[1] = Head(t)
          /\ Tail(t) \in Seq(Spoken!Word) /\ Tail(t) # <<>> /\ Tail(t) # t
          /\ Head(t) \in Spoken!Cue
          /\ c # Spoken!NoCue => c = Head(t)
      <3>1. t \in Spoken!Transcript /\ Len(t) >= 2
        BY DEF Spoken!Draft
      <3> HIDE DEF t
      <3> QED BY <3>1, SpokenWordsOfTranscript
    <2>2. \A i \in 2 .. Len(said) : said[i] \notin Spoken!Cue
      BY DEF Spoken!DraftOK, Spoken!FirstOnly, Spoken!Pending
    <2>3. said = t
      <3>1. CASE d.text = said
        BY <3>1
      <3>2. CASE d.text # said
        <4>1. said # <<>> /\ t = Tail(said)
          BY <3>2 DEF Spoken!DraftOK, Spoken!Taken
        <4>2. t[1] = said[2] /\ Len(said) >= 2
          BY <2>1, <4>1, SpokenHeadAndTail
        <4> QED BY <2>1, <2>2, <4>2
      <3> QED BY <3>1, <3>2
    <2>4. d.consumed
      BY <2>1 DEF Spoken!DraftOK, Spoken!FirstOnly
    <2>5. d.frozen # Spoken!NoCue => c = d.frozen
      BY DEF Spoken!DraftOK, Spoken!SettledBy
    <2>6. d.proposed # Spoken!NoCue => c = d.proposed /\ c \in Spoken!Single
      BY DEF Spoken!DraftOK, Spoken!SettledBy
    <2>7. Head(t) \in Spoken!Possible =>
             known[Head(t)] = "existing" \/ (Head(t) \in Spoken!Single /\ e.origin = "explicit")
      BY <2>1, <2>5, <2>6 DEF Spoken!DraftOK, Spoken!SettledBy
    <2> HIDE DEF t, c
    <2>8. Spoken!Taken(e, e.text, said, known)
      BY <2>1, <2>3, <2>7 DEF Spoken!Taken, t
    <2>9. Spoken!Contributes(e, said, start, known)
      BY DEF Spoken!Contributes
    <2>10. Spoken!FirstOnly(e, said, start)
      BY <2>4, <2>2 DEF Spoken!DraftOK, Spoken!FirstOnly, Spoken!Pending
    <2>11. Spoken!Restorable(e, said)
      BY <2>1, <2>3 DEF Spoken!Restorable, t
    <2> QED BY <1>1, <1>2, <2>8, <2>9, <2>10, <2>11 DEF Spoken!DraftOK
  <1> QED BY <1>3, <1>4

LEMMA SpokenRefreshPreserves ==
  ASSUME NEW d \in Spoken!Draft, NEW e \in Spoken!Draft, NEW said \in Seq(Spoken!Word),
             NEW start \in Seq(Spoken!Word),
         NEW known, Spoken!DraftOK(d, said, start, known), SpokenRefreshes(d, e)
  PROVE  Spoken!DraftOK(e, said, start, known)
  BY SpokenTakingPreserves DEF SpokenRefreshes, SpokenSettledKept

\* The authority ends: what is a command is settled by what is known.
LEMMA SpokenFreezingPreserves ==
  ASSUME NEW d \in Spoken!Draft, NEW e \in Spoken!Draft, NEW said \in Seq(Spoken!Word),
             NEW start \in Seq(Spoken!Word),
         NEW known, Spoken!DraftOK(d, said, start, known), SpokenKept(d, e), SpokenTextKept(d, e),
         d.authority # "active", e.origin = d.origin, ~e.eligible,
         ~d.eligible => SpokenSettledKept(d, e),
         d.eligible => known = d.names,
         \/ e.frozen = d.frozen
         \/ e.frozen = Spoken!Prefix(d.transcript) /\ Spoken!Confirms(d.names, Spoken!Prefix(d.transcript)),
         \/ e.proposed = d.proposed
         \/ e.proposed = Spoken!Prefix(d.transcript) /\ Spoken!Prefix(d.transcript) \in Spoken!Single
  PROVE  Spoken!DraftOK(e, said, start, known)
  <1> USE DEF SpokenKept, SpokenTextKept
  <1>1. Spoken!Taken(e, e.text, said, known) /\ Spoken!Contributes(e, said, start, known)
    BY DEF Spoken!DraftOK, Spoken!Taken, Spoken!Contributes
  <1>2. Spoken!Unlocks(e) /\ Spoken!Restorable(e, said)
    BY DEF Spoken!DraftOK, Spoken!Unlocks, Spoken!Restorable
  <1>3. Spoken!FirstOnly(e, said, start)
    BY DEF Spoken!DraftOK, Spoken!FirstOnly, Spoken!Pending, SpokenSettledKept
  <1>4. Spoken!SettledBy(e, known)
    <2>1. CASE d.eligible
      BY <2>1 DEF Spoken!DraftOK, Spoken!SettledBy, Spoken!Confirms, Spoken!Matches
    <2>2. CASE ~d.eligible
      BY <2>2 DEF Spoken!DraftOK, Spoken!SettledBy, SpokenSettledKept
    <2> QED BY <2>1, <2>2
  <1> QED BY <1>1, <1>2, <1>3, <1>4 DEF Spoken!DraftOK

\* Evidence is the names that were known first, so more of it settles nothing anew.
LEMMA SpokenEvidencePreserves ==
  ASSUME NEW d \in Spoken!Draft, NEW said, NEW start, NEW known, NEW later,
         Spoken!DraftOK(d, said, start, known), known = Spoken!Unread \/ later = known
  PROVE  Spoken!DraftOK(d, said, start, later)
  <1>1. \A c \in Spoken!Cue : known[c] = "existing" => later[c] = "existing"
    BY DEF Spoken!Unread
  <1>2. Spoken!NoCue \notin Spoken!Possible /\ Spoken!Possible \subseteq Spoken!Cue
    BY DEF Spoken!NoCue, Spoken!Possible, Spoken!Cue
  <1>3. Spoken!Taken(d, d.text, said, later) /\ Spoken!Contributes(d, said, start, later)
    BY <1>1, <1>2 DEF Spoken!DraftOK, Spoken!Taken, Spoken!Contributes
  <1>4. Spoken!SettledBy(d, later)
    BY <1>1, <1>2 DEF Spoken!DraftOK, Spoken!SettledBy
  <1> QED BY <1>3, <1>4 DEF Spoken!DraftOK

LEMMA SpokenEmptyText == <<>> \in Seq(Spoken!Word) /\ <<>> \in Spoken!Transcript
  BY DEF Spoken!Transcript

LEMMA SpokenInitIInv == Spoken!Init => Spoken!IInv
  <1> SUFFICES ASSUME Spoken!Init
               PROVE  Spoken!IInv
    OBVIOUS
  <1>1. Spoken!Unread \in [Spoken!Cue -> Spoken!Finding]
    BY DEF Spoken!Unread, Spoken!Finding
  <1>2. PICK origin \in {"unset", "explicit"} :
          x1 = [text |-> <<>>, base |-> <<>>, status |-> "idle", authority |-> "none",
                   suspended |-> FALSE, focused |-> FALSE, loaded |-> FALSE,
                   names |-> Spoken!Unread, origin |-> origin, cue |-> Spoken!NoCue,
                   transcript |-> <<>>, eligible |-> FALSE, consumed |-> FALSE,
                   frozen |-> Spoken!NoCue, proposedName |-> Spoken!NoCue,
                     proposed |-> Spoken!NoCue,
                   cleanup |-> <<>>,
                   subject |-> IF origin = "explicit" THEN "picked" ELSE "none",
                   query |-> IF origin = "explicit" THEN "picked" ELSE ""]
    BY DEF Spoken!Init
  <1>3. /\ x1.text = <<>> /\ x1.transcript = <<>> /\ x1.cleanup = <<>>
        /\ x1.status = "idle" /\ x1.authority = "none" /\ ~x1.suspended
        /\ ~x1.eligible /\ x1.frozen = Spoken!NoCue /\ x1.proposed = Spoken!NoCue
        /\ x1.names = Spoken!Unread
    BY <1>2
  <1>7. x1 \in Spoken!Draft
    <2>1. CASE origin = "unset"
      BY <1>1, <1>2, <2>1, SpokenEmptyText DEF Spoken!Draft
    <2>2. CASE origin = "explicit"
      BY <1>1, <1>2, <2>2, SpokenEmptyText DEF Spoken!Draft
    <2> QED BY <2>1, <2>2
  <1>4. Spoken!TypeOK
    BY <1>1, <1>7, SpokenEmptyText DEF Spoken!Init, Spoken!TypeOK
  <1>5. Spoken!DraftOK(x1, x5, x6, x7)
    BY <1>3
       DEF Spoken!Init, Spoken!DraftOK, Spoken!Taken, Spoken!Contributes, Spoken!Unlocks,
           Spoken!FirstOnly, Spoken!Pending, Spoken!SettledBy, Spoken!Restorable, Spoken!Possible,
           Spoken!NoCue
  <1>6. Spoken!ReadOnce
    BY <1>3 DEF Spoken!Init, Spoken!ReadOnce
  <1> QED BY <1>4, <1>5, <1>6 DEF Spoken!IInv

LEMMA SpokenStartPreserves ==
  ASSUME Spoken!IInv, Spoken!Start
  PROVE  Spoken!IInv'
  <1> DEFINE d == x1
             e == x1'
  <1>1. d \in Spoken!Draft /\ d.status = "idle"
    BY DEF Spoken!IInv, Spoken!TypeOK, Spoken!Start, Spoken!Locked
  <1>2. e \in Spoken!Draft
    <2> DEFINE c == d.consumed \/ d.text # <<>>
               n == ~c
    <2>1. e = [d EXCEPT !.base = d.text, !.status = "recording", !.authority = "active",
                        !.cleanup = <<>>, !.transcript = <<>>, !.cue = Spoken!NoCue,
                        !.frozen = Spoken!NoCue, !.proposed = Spoken!NoCue, !.consumed = c,
                        !.eligible = n]
      BY DEF Spoken!Start
    <2>2. c \in BOOLEAN /\ n \in BOOLEAN /\ d.text \in Seq(Spoken!Word)
      BY <1>1 DEF Spoken!Draft
    <2> HIDE DEF c, n, e
    <2> QED BY <1>1, <2>1, <2>2, SpokenEmptyText, ZenonT(120) DEF Spoken!Draft
  <1>3. /\ e.text = d.text /\ e.base = d.text /\ e.transcript = <<>> /\ e.cleanup = <<>>
        /\ e.status = "recording" /\ e.authority = "active" /\ e.suspended = d.suspended
        /\ e.names = d.names /\ e.origin = d.origin
        /\ e.frozen = Spoken!NoCue /\ e.proposed = Spoken!NoCue
        /\ e.consumed = (d.consumed \/ d.text # <<>>) /\ e.eligible = ~e.consumed
    BY <1>1 DEF Spoken!Start, Spoken!Draft
  <1>4. x5' = x5 /\ x6' = x5 /\ x7' = x7 /\ ~d.suspended
    BY DEF Spoken!Start, Spoken!Editing
  <1>5. d.text \in Seq(Spoken!Word) /\ x5 \in Seq(Spoken!Word)
    BY <1>1 DEF Spoken!IInv, Spoken!TypeOK, Spoken!Draft
  <1>6. d.text \o <<>> = d.text /\ x5 \o <<>> = x5
    BY <1>5
  <1>7. Spoken!Taken(d, d.text, x5, x7) /\ (~d.consumed => d.text = x5)
    BY DEF Spoken!IInv, Spoken!DraftOK, Spoken!FirstOnly
  <1> HIDE DEF d, e
  <1>8. Spoken!Taken(e, e.text, x5, x7)
    BY <1>3, <1>7 DEF Spoken!Taken
  <1>9. Spoken!Contributes(e, x5, x5, x7)
    BY <1>3, <1>6, <1>7, <1>8 DEF Spoken!Contributes
  <1>10. Spoken!Unlocks(e) /\ Spoken!SettledBy(e, x7) /\ Spoken!Restorable(e, x5)
    BY <1>3, <1>4
       DEF Spoken!Unlocks, Spoken!SettledBy, Spoken!Restorable, Spoken!Possible, Spoken!NoCue
  <1>11. Spoken!FirstOnly(e, x5, x5)
    <2>1. ~e.consumed => ~d.consumed /\ d.text = <<>>
      BY <1>3
    <2>2. e.eligible => ~e.consumed
      BY <1>3
    <2>3. ~e.consumed => x5 = <<>>
      BY <1>7, <2>1
    <2> QED BY <1>3, <1>7, <2>1, <2>2, <2>3 DEF Spoken!FirstOnly, Spoken!Pending
  <1>12. Spoken!DraftOK(e, x5, x5, x7)
    BY <1>8, <1>9, <1>10, <1>11 DEF Spoken!DraftOK
  <1>13. Spoken!TypeOK'
    BY <1>2 DEF Spoken!IInv, Spoken!TypeOK, Spoken!Start, e
  <1>14. Spoken!ReadOnce'
    BY <1>3 DEF Spoken!IInv, Spoken!ReadOnce, Spoken!Start, Spoken!Editing, d, e
  <1> QED BY <1>4, <1>12, <1>13, <1>14 DEF Spoken!IInv, e

LEMMA SpokenTranscriptUpdatePreserves ==
  ASSUME Spoken!IInv, NEW t \in Spoken!Transcript, Spoken!TranscriptUpdate(t)
  PROVE  Spoken!IInv'
  <1> DEFINE d == x1
             u == [d EXCEPT !.text = d.base \o t, !.transcript = t]
             e == Spoken!Refreshed(u, FALSE)
  <1>1. /\ d \in Spoken!Draft /\ d.status = "recording" /\ d.authority = "active"
        /\ x5' = x6 \o t /\ UNCHANGED <<x6, x7, x2, x3, x4>>
        /\ x1' = e /\ ~x3 /\ ~d.suspended
    BY DEF Spoken!IInv, Spoken!TypeOK, Spoken!TranscriptUpdate, Spoken!Context, Spoken!Editing
  <1>2. /\ d.base \in Seq(Spoken!Word) /\ x6 \in Seq(Spoken!Word) /\ t \in Seq(Spoken!Word)
        /\ d.base \o t \in Seq(Spoken!Word) /\ x6 \o t \in Seq(Spoken!Word)
    <2>1. d.base \in Seq(Spoken!Word) /\ x6 \in Seq(Spoken!Word)
      BY <1>1 DEF Spoken!IInv, Spoken!TypeOK, Spoken!Draft
    <2>2. t \in Seq(Spoken!Word)
      BY SpokenWordsOfTranscript
    <2> HIDE DEF d
    <2> QED BY <2>1, <2>2
  <1>3. u \in Spoken!Draft
    BY <1>1, <1>2 DEF Spoken!Draft
  <1>4. /\ u.text = d.base \o t /\ u.transcript = t /\ u.base = d.base
        /\ u.status = d.status /\ u.authority = d.authority /\ u.suspended = d.suspended
        /\ u.names = d.names /\ u.consumed = d.consumed /\ u.origin = d.origin
        /\ u.eligible = d.eligible /\ u.frozen = d.frozen /\ u.proposed = d.proposed
        /\ u.cleanup = d.cleanup
    BY <1>1 DEF Spoken!Draft
  <1>5. Spoken!DraftOK(d, x5, x6, x7)
    BY DEF Spoken!IInv
  <1> HIDE DEF d, u
  <1>6. /\ Spoken!Taken(d, d.base, x6, x7) /\ d.cleanup = <<>>
        /\ d.base # x6 => d.consumed
    BY <1>1, <1>5 DEF Spoken!DraftOK, Spoken!Contributes
  <1>7. Spoken!Taken(u, u.text, x6 \o t, x7)
    <2>1. CASE d.base = x6
      BY <1>4, <2>1 DEF Spoken!Taken
    <2>2. CASE d.base # x6
      <3>1. x6 # <<>> /\ Head(x6) \in Spoken!Cue /\ d.base = Tail(x6)
        BY <1>6, <2>2 DEF Spoken!Taken
      <3>2. /\ Tail(x6 \o t) = d.base \o t /\ Head(x6 \o t) = Head(x6)
            /\ x6 \o t # <<>>
        BY <1>2, <3>1, SpokenTailOfConcat
      <3> QED BY <1>4, <1>6, <2>2, <3>1, <3>2 DEF Spoken!Taken
    <2> QED BY <2>1, <2>2
  <1>8. Spoken!Contributes(u, x6 \o t, x6, x7)
    BY <1>4, <1>6 DEF Spoken!Contributes, Spoken!Taken
  <1>9. Spoken!Unlocks(u) /\ Spoken!Restorable(u, x6 \o t)
    BY <1>4, <1>5, <1>6 DEF Spoken!DraftOK, Spoken!Unlocks, Spoken!Restorable
  <1>10. Spoken!SettledBy(u, x7)
    BY <1>1, <1>4, <1>5
       DEF Spoken!DraftOK, Spoken!SettledBy, Spoken!FirstOnly, Spoken!NoCue, Spoken!Possible
  <1>11. Spoken!FirstOnly(u, x6 \o t, x6)
    <2>1. Spoken!Pending(u) => Spoken!Pending(d)
      BY <1>4 DEF Spoken!Pending
    <2>2. Spoken!Pending(u) => x6 = <<>>
      BY <1>1, <1>5, <2>1 DEF Spoken!DraftOK, Spoken!FirstOnly
    <2>3. Spoken!Pending(u) => \A i \in 2 .. Len(x6 \o t) : (x6 \o t)[i] \notin Spoken!Cue
      BY <1>2, <2>2, SpokenWordsOfTranscript
    <2>4. ~u.consumed => u.text = x6 \o t
      BY <1>4, <1>6
    <2> QED BY <1>1, <1>4, <1>5, <2>2, <2>3, <2>4 DEF Spoken!DraftOK, Spoken!FirstOnly
  <1>12. Spoken!DraftOK(u, x6 \o t, x6, x7)
    BY <1>7, <1>8, <1>9, <1>10, <1>11 DEF Spoken!DraftOK
  <1>13. e \in Spoken!Draft /\ SpokenRefreshes(u, e)
    BY <1>3, SpokenRefreshedFacts
  <1>14. Spoken!DraftOK(e, x6 \o t, x6, x7)
    BY <1>2, <1>3, <1>12, <1>13, SpokenRefreshPreserves
  <1>15. Spoken!TypeOK'
    BY <1>1, <1>2, <1>13 DEF Spoken!IInv, Spoken!TypeOK
  <1>16. e.names = d.names /\ e.eligible = d.eligible /\ e.authority = d.authority
    BY <1>4, <1>13 DEF SpokenRefreshes, SpokenKept, SpokenSettledKept
  <1>17. Spoken!ReadOnce'
    BY <1>1, <1>16 DEF Spoken!IInv, Spoken!ReadOnce, d
  <1> QED BY <1>1, <1>14, <1>15, <1>17 DEF Spoken!IInv

\* The recording's authority ends, in the transport or in the editor.
LEMMA SpokenRevokingPreserves ==
  ASSUME NEW d \in Spoken!Draft, NEW e \in Spoken!Draft, NEW said, NEW start, NEW known,
         Spoken!DraftOK(d, said, start, known), d.status # "idle",
         e.authority = "revoked", e.status \in {d.status, "stopping"},
         e.base = d.base, e.transcript = d.transcript, e.suspended = d.suspended,
         e.consumed = d.consumed, e.origin = d.origin, SpokenTextKept(d, e),
           SpokenSettledKept(d, e)
  PROVE  Spoken!DraftOK(e, said, start, known)
  <1> USE DEF SpokenTextKept, SpokenSettledKept
  <1>1. e.status # "idle" /\ ~e.suspended
    BY DEF Spoken!DraftOK, Spoken!Unlocks
  <1>2. Spoken!Taken(e, e.text, said, known) /\ Spoken!Contributes(e, said, start, known)
    BY DEF Spoken!DraftOK, Spoken!Taken, Spoken!Contributes
  <1>3. Spoken!Unlocks(e) /\ Spoken!SettledBy(e, known) /\ Spoken!Restorable(e, said)
    BY <1>1 DEF Spoken!DraftOK, Spoken!Unlocks, Spoken!SettledBy, Spoken!Restorable
  <1>4. Spoken!FirstOnly(e, said, start)
    BY <1>1 DEF Spoken!DraftOK, Spoken!FirstOnly, Spoken!Pending
  <1> QED BY <1>2, <1>3, <1>4 DEF Spoken!DraftOK

LEMMA SpokenLoseAuthorityPreserves ==
  ASSUME Spoken!IInv, Spoken!LoseAuthority
  PROVE  Spoken!IInv'
  <1> DEFINE d == x1
             e == [d EXCEPT !.authority = "revoked"]
  <1>1. /\ d \in Spoken!Draft /\ d.authority = "active" /\ x1' = e /\ x7' = d.names
        /\ UNCHANGED <<x5, x6, x2, x3, x4>>
    BY DEF Spoken!IInv, Spoken!TypeOK, Spoken!LoseAuthority, Spoken!Context
  <1>2. e \in Spoken!Draft
    BY <1>1 DEF Spoken!Draft
  <1>3. /\ e.authority = "revoked" /\ e.status = d.status /\ e.base = d.base
        /\ e.transcript = d.transcript /\ e.suspended = d.suspended /\ e.names = d.names
        /\ e.consumed = d.consumed /\ e.origin = d.origin
    BY <1>1 DEF Spoken!Draft
  <1>4. SpokenTextKept(d, e) /\ SpokenSettledKept(d, e)
    BY <1>1 DEF Spoken!Draft, SpokenTextKept, SpokenSettledKept
  <1>5. Spoken!DraftOK(d, x5, x6, x7)
    BY DEF Spoken!IInv
  <1> HIDE DEF d, e
  <1>6. d.status # "idle" /\ ~x3
    BY <1>1, <1>5 DEF Spoken!IInv, Spoken!ReadOnce, Spoken!DraftOK, Spoken!Unlocks, d
  <1>7. x7 = Spoken!Unread \/ d.names = x7
    BY DEF Spoken!IInv, Spoken!ReadOnce, d
  <1>8. Spoken!DraftOK(d, x5, x6, d.names)
    BY <1>1, <1>5, <1>7, SpokenEvidencePreserves
  <1>9. Spoken!DraftOK(e, x5, x6, d.names)
    BY <1>1, <1>2, <1>3, <1>4, <1>6, <1>8, SpokenRevokingPreserves
  <1>10. d.names \in [Spoken!Cue -> Spoken!Finding]
    BY <1>1 DEF Spoken!Draft
  <1>11. Spoken!TypeOK'
    BY <1>1, <1>2, <1>10 DEF Spoken!IInv, Spoken!TypeOK
  <1>12. Spoken!ReadOnce'
    BY <1>1, <1>3, <1>6 DEF Spoken!IInv, Spoken!ReadOnce, d
  <1> QED BY <1>1, <1>9, <1>11, <1>12 DEF Spoken!IInv

LEMMA SpokenStopPreserves ==
  ASSUME Spoken!IInv, Spoken!Stop
  PROVE  Spoken!IInv'
  <1> DEFINE d == x1
             r == [d EXCEPT !.authority = "revoked", !.status = "stopping"]
             f == Spoken!Frozen(d)
             e == [f EXCEPT !.authority = "revoked", !.status = "stopping"]
             known == IF d.authority = "active" THEN d.names ELSE x7
  <1>1. /\ d \in Spoken!Draft /\ d.status = "recording" /\ x1' = e /\ x7' = known
        /\ UNCHANGED <<x5, x6, x2, x3, x4>> /\ ~x3
    BY DEF Spoken!IInv, Spoken!TypeOK, Spoken!Stop, Spoken!Context, Spoken!Editing
  <1>2. r \in Spoken!Draft
    BY <1>1, ZenonT(60) DEF Spoken!Draft
  <1>3. /\ r.authority = "revoked" /\ r.status = "stopping" /\ r.base = d.base
        /\ r.transcript = d.transcript /\ r.suspended = d.suspended /\ r.names = d.names
        /\ r.consumed = d.consumed /\ r.origin = d.origin
    BY <1>1 DEF Spoken!Draft
  <1>4. SpokenTextKept(d, r) /\ SpokenSettledKept(d, r)
    BY <1>1 DEF Spoken!Draft, SpokenTextKept, SpokenSettledKept
  <1>5. Spoken!DraftOK(d, x5, x6, x7)
    BY DEF Spoken!IInv
  <1>6. /\ f \in Spoken!Draft /\ SpokenKept(d, f) /\ SpokenTextKept(d, f)
        /\ f.origin = d.origin /\ ~f.eligible
        /\ ~d.eligible => SpokenSettledKept(d, f)
        /\ f.frozen = d.frozen
           \/ (f.frozen = Spoken!Prefix(d.transcript) /\ Spoken!Confirms(d.names, Spoken!Prefix(d.transcript)))
        /\ f.proposed = d.proposed
           \/ (f.proposed = Spoken!Prefix(d.transcript) /\ Spoken!Prefix(d.transcript) \in Spoken!Single)
    BY <1>1, SpokenFrozenFacts
  <1> HIDE DEF f
  <1>7. e \in Spoken!Draft
    BY <1>6, ZenonT(60) DEF Spoken!Draft
  <1>8. /\ e.authority = "revoked" /\ e.status = "stopping" /\ e.base = f.base
        /\ e.transcript = f.transcript /\ e.suspended = f.suspended /\ e.names = f.names
        /\ e.consumed = f.consumed /\ e.origin = f.origin
    BY <1>6 DEF Spoken!Draft
  <1>9. SpokenTextKept(f, e) /\ SpokenSettledKept(f, e)
    BY <1>6 DEF Spoken!Draft, SpokenTextKept, SpokenSettledKept
  <1> HIDE DEF d, r, e
  <1>10. known = x7 \/ (x7 = Spoken!Unread /\ known = d.names)
    BY DEF Spoken!IInv, Spoken!ReadOnce, d
  <1>11. d.eligible => known = d.names
    BY <1>1, <1>5
       DEF Spoken!IInv, Spoken!ReadOnce, Spoken!DraftOK, Spoken!Unlocks, Spoken!Draft, d
  <1>12. Spoken!DraftOK(d, x5, x6, known)
    BY <1>1, <1>5, <1>10, SpokenEvidencePreserves
  <1> HIDE DEF known
  <1>13. Spoken!DraftOK(r, x5, x6, known)
    BY <1>1, <1>2, <1>3, <1>4, <1>12, SpokenRevokingPreserves
  <1>14. x5 \in Seq(Spoken!Word) /\ x6 \in Seq(Spoken!Word)
    BY DEF Spoken!IInv, Spoken!TypeOK
  <1>15. SpokenKept(r, e) /\ SpokenTextKept(r, e) /\ (~r.eligible => SpokenSettledKept(r, e))
    BY <1>3, <1>4, <1>6, <1>8, <1>9 DEF SpokenKept, SpokenTextKept, SpokenSettledKept
  <1>16. /\ r.authority # "active" /\ e.origin = r.origin /\ ~e.eligible
         /\ r.eligible => known = r.names
    BY <1>3, <1>4, <1>6, <1>8, <1>9, <1>11 DEF SpokenSettledKept
  <1>17. /\ e.frozen = r.frozen
            \/ (e.frozen = Spoken!Prefix(r.transcript) /\ Spoken!Confirms(r.names, Spoken!Prefix(r.transcript)))
         /\ e.proposed = r.proposed
            \/ (e.proposed = Spoken!Prefix(r.transcript) /\ Spoken!Prefix(r.transcript) \in Spoken!Single)
    BY <1>3, <1>4, <1>6, <1>9 DEF SpokenSettledKept
  <1>18. Spoken!DraftOK(e, x5, x6, known)
    BY <1>2, <1>7, <1>13, <1>14, <1>15, <1>16, <1>17, SpokenFreezingPreserves
  <1>19. known \in [Spoken!Cue -> Spoken!Finding]
    BY <1>1 DEF Spoken!IInv, Spoken!TypeOK, known, d, Spoken!Draft
  <1>20. Spoken!TypeOK'
    BY <1>1, <1>7, <1>19 DEF Spoken!IInv, Spoken!TypeOK
  <1>21. e.names = d.names /\ ~e.eligible
    BY <1>6, <1>8, <1>9 DEF SpokenKept, SpokenSettledKept
  <1>22. Spoken!ReadOnce'
    BY <1>1, <1>10, <1>21 DEF Spoken!IInv, Spoken!ReadOnce, d
  <1> QED BY <1>1, <1>18, <1>20, <1>22 DEF Spoken!IInv

\* The editor unlocks: what the recording contributed belongs to the draft.
LEMMA SpokenUnlockingPreserves ==
  ASSUME NEW d \in Spoken!Draft, NEW e \in Spoken!Draft, NEW said, NEW start, NEW known,
         Spoken!DraftOK(d, said, start, known), ~d.eligible, ~d.suspended,
         d.status # "idle", e.status = "idle", e.authority = "none", ~e.suspended,
         e.transcript = d.transcript, e.origin = d.origin, SpokenTextKept(d, e),
           SpokenSettledKept(d, e),
         e.consumed <=> d.consumed \/ d.transcript # <<>>
  PROVE  Spoken!DraftOK(e, said, start, known)
  <1> USE DEF SpokenTextKept, SpokenSettledKept
  <1>1. Spoken!Taken(e, e.text, said, known) /\ Spoken!Contributes(e, said, start, known)
    BY DEF Spoken!DraftOK, Spoken!Taken, Spoken!Contributes
  <1>2. Spoken!Unlocks(e) /\ Spoken!SettledBy(e, known) /\ Spoken!Restorable(e, said)
    BY DEF Spoken!DraftOK, Spoken!Unlocks, Spoken!SettledBy, Spoken!Restorable
  <1>3. Spoken!FirstOnly(e, said, start)
    BY DEF Spoken!DraftOK, Spoken!FirstOnly, Spoken!Pending
  <1> QED BY <1>1, <1>2, <1>3 DEF Spoken!DraftOK

LEMMA SpokenRecordingEndedPreserves ==
  ASSUME Spoken!IInv, Spoken!RecordingEnded
  PROVE  Spoken!IInv'
  <1> DEFINE d == x1
             r == [d EXCEPT !.authority = "revoked", !.status = "stopping"]
             f == Spoken!Frozen(d)
             g == [f EXCEPT !.authority = "revoked", !.status = "stopping"]
             c == Spoken!CleanedIf(f, f.loaded /\ Spoken!Confirms(f.names, f.frozen))
             p == c.consumed \/ f.transcript # <<>>
             u == [f EXCEPT !.authority = "none", !.base = <<>>, !.status = "idle",
                            !.focused = FALSE, !.consumed = p]
             e == [c EXCEPT !.authority = "none", !.base = <<>>, !.status = "idle",
                            !.focused = FALSE, !.consumed = p]
             known == IF d.authority = "active" THEN d.names ELSE x7
  <1>1. /\ d \in Spoken!Draft /\ d.authority # "none" /\ x1' = e /\ x7' = known
        /\ UNCHANGED <<x5, x6, x2, x3, x4>>
    BY DEF Spoken!IInv, Spoken!TypeOK, Spoken!RecordingEnded, Spoken!Context
  <1>2. r \in Spoken!Draft
    BY <1>1, ZenonT(60) DEF Spoken!Draft
  <1>3. /\ r.authority = "revoked" /\ r.status = "stopping" /\ r.base = d.base
        /\ r.transcript = d.transcript /\ r.suspended = d.suspended /\ r.names = d.names
        /\ r.consumed = d.consumed /\ r.origin = d.origin
    BY <1>1 DEF Spoken!Draft
  <1>4. SpokenTextKept(d, r) /\ SpokenSettledKept(d, r)
    BY <1>1 DEF Spoken!Draft, SpokenTextKept, SpokenSettledKept
  <1>5. Spoken!DraftOK(d, x5, x6, x7)
    BY DEF Spoken!IInv
  <1>6. /\ f \in Spoken!Draft /\ SpokenKept(d, f) /\ SpokenTextKept(d, f)
        /\ f.origin = d.origin /\ ~f.eligible
        /\ ~d.eligible => SpokenSettledKept(d, f)
        /\ f.frozen = d.frozen
           \/ (f.frozen = Spoken!Prefix(d.transcript) /\ Spoken!Confirms(d.names, Spoken!Prefix(d.transcript)))
        /\ f.proposed = d.proposed
           \/ (f.proposed = Spoken!Prefix(d.transcript) /\ Spoken!Prefix(d.transcript) \in Spoken!Single)
    BY <1>1, SpokenFrozenFacts
  <1> HIDE DEF f
  <1>7. g \in Spoken!Draft
    BY <1>6, ZenonT(60) DEF Spoken!Draft
  <1>8. /\ g.authority = "revoked" /\ g.status = "stopping" /\ g.base = f.base
        /\ g.transcript = f.transcript /\ g.suspended = f.suspended /\ g.names = f.names
        /\ g.consumed = f.consumed /\ g.origin = f.origin
    BY <1>6 DEF Spoken!Draft
  <1>9. SpokenTextKept(f, g) /\ SpokenSettledKept(f, g)
    BY <1>6 DEF Spoken!Draft, SpokenTextKept, SpokenSettledKept
  <1>10. /\ c \in Spoken!Draft /\ SpokenKept(f, c) /\ SpokenSettledKept(f, c)
         /\ c.origin = f.origin
         /\ SpokenTextKept(f, c) \/ (SpokenCueTaken(f, c) /\ f.frozen # Spoken!NoCue)
    <2>1. CASE f.loaded /\ Spoken!Confirms(f.names, f.frozen)
      BY <1>6, <2>1, SpokenCleanedFacts DEF Spoken!CleanedIf, Spoken!Confirms
    <2>2. CASE ~(f.loaded /\ Spoken!Confirms(f.names, f.frozen))
      BY <1>6, <2>2 DEF Spoken!CleanedIf, SpokenKept, SpokenSettledKept, SpokenTextKept
    <2> QED BY <2>1, <2>2
  <1> HIDE DEF c
  <1>11. p \in BOOLEAN
    BY <1>10 DEF Spoken!Draft
  <1>12. p <=> d.consumed \/ d.transcript # <<>>
    BY <1>6, <1>10 DEF SpokenKept
  <1> HIDE DEF p
  <1>13. u \in Spoken!Draft /\ e \in Spoken!Draft
    <2>1. u \in Spoken!Draft
      BY <1>6, <1>11, SpokenEmptyText, ZenonT(60) DEF Spoken!Draft
    <2>2. e \in Spoken!Draft
      BY <1>10, <1>11, SpokenEmptyText, ZenonT(120) DEF Spoken!Draft
    <2> QED BY <2>1, <2>2
  <1>14. /\ u.authority = "none" /\ u.base = <<>> /\ u.status = "idle" /\ u.consumed = p
         /\ u.transcript = f.transcript /\ u.suspended = f.suspended /\ u.names = f.names
         /\ u.origin = f.origin
    BY <1>6 DEF Spoken!Draft
  <1>15. SpokenTextKept(f, u) /\ SpokenSettledKept(f, u)
    BY <1>6 DEF Spoken!Draft, SpokenTextKept, SpokenSettledKept
  <1>16. /\ e.authority = "none" /\ e.base = <<>> /\ e.status = "idle" /\ e.consumed = p
         /\ e.transcript = c.transcript /\ e.suspended = c.suspended /\ e.names = c.names
         /\ e.origin = c.origin
    BY <1>10 DEF Spoken!Draft
  <1>17. SpokenTextKept(c, e) /\ SpokenSettledKept(c, e)
    BY <1>10 DEF Spoken!Draft, SpokenTextKept, SpokenSettledKept
  <1> HIDE DEF d, r, g, u, e
  <1>18. /\ d.status # "idle" /\ ~d.suspended
         /\ d.authority # "active" => d.authority = "revoked"
    BY <1>1, <1>5 DEF Spoken!DraftOK, Spoken!Unlocks, Spoken!Draft
  <1>19. known = x7 \/ (x7 = Spoken!Unread /\ known = d.names)
    BY DEF Spoken!IInv, Spoken!ReadOnce, d
  <1>20. d.eligible => known = d.names
    BY <1>18 DEF Spoken!IInv, Spoken!ReadOnce, d
  <1>21. known \in [Spoken!Cue -> Spoken!Finding] /\ x5 \in Seq(Spoken!Word)
         /\ x6 \in Seq(Spoken!Word)
    BY <1>1 DEF Spoken!IInv, Spoken!TypeOK, known, d, Spoken!Draft
  <1>22. Spoken!DraftOK(d, x5, x6, known)
    BY <1>1, <1>5, <1>19, SpokenEvidencePreserves
  <1> HIDE DEF known
  <1>23. Spoken!DraftOK(r, x5, x6, known)
    BY <1>1, <1>2, <1>3, <1>4, <1>18, <1>22, SpokenRevokingPreserves
  <1>24. Spoken!DraftOK(g, x5, x6, known)
    <2>1. SpokenKept(r, g) /\ SpokenTextKept(r, g) /\ (~r.eligible => SpokenSettledKept(r, g))
      BY <1>3, <1>4, <1>6, <1>8, <1>9 DEF SpokenKept, SpokenTextKept, SpokenSettledKept
    <2>2. /\ r.authority # "active" /\ g.origin = r.origin /\ ~g.eligible
          /\ r.eligible => known = r.names
      BY <1>3, <1>4, <1>6, <1>8, <1>9, <1>20 DEF SpokenSettledKept
    <2>3. /\ g.frozen = r.frozen
             \/ (g.frozen = Spoken!Prefix(r.transcript) /\ Spoken!Confirms(r.names, Spoken!Prefix(r.transcript)))
          /\ g.proposed = r.proposed
             \/ (g.proposed = Spoken!Prefix(r.transcript) /\ Spoken!Prefix(r.transcript) \in Spoken!Single)
      BY <1>3, <1>4, <1>6, <1>9 DEF SpokenSettledKept
    <2> QED BY <1>2, <1>7, <1>21, <1>23, <2>1, <2>2, <2>3, SpokenFreezingPreserves
  <1>25. Spoken!DraftOK(u, x5, x6, known)
    <2>1. SpokenTextKept(g, u) /\ SpokenSettledKept(g, u)
      BY <1>9, <1>15 DEF SpokenTextKept, SpokenSettledKept
    <2>2. /\ ~g.eligible /\ ~g.suspended /\ g.status # "idle" /\ ~u.suspended
          /\ u.transcript = g.transcript /\ u.origin = g.origin
      BY <1>6, <1>8, <1>9, <1>14, <1>18 DEF SpokenKept, SpokenSettledKept
    <2>3. u.consumed <=> g.consumed \/ g.transcript # <<>>
      BY <1>6, <1>8, <1>12, <1>14 DEF SpokenKept
    <2> QED BY <1>7, <1>13, <1>14, <1>24, <2>1, <2>2, <2>3, SpokenUnlockingPreserves
  <1>26. Spoken!DraftOK(e, x5, x6, known)
    <2>1. SpokenKept(u, e) /\ SpokenSettledKept(u, e) /\ e.origin = u.origin
      BY <1>10, <1>14, <1>15, <1>16, <1>17 DEF SpokenKept, SpokenSettledKept
    <2>2. SpokenTextKept(u, e) \/ (SpokenCueTaken(u, e) /\ u.frozen # Spoken!NoCue)
      BY <1>10, <1>14, <1>15, <1>16, <1>17
         DEF SpokenKept, SpokenTextKept, SpokenCueTaken, SpokenSettledKept
    <2>3. SpokenRefreshes(u, e)
      BY <1>14, <2>1, <2>2 DEF SpokenRefreshes
    <2> QED BY <1>13, <1>21, <1>25, <2>3, SpokenRefreshPreserves
  <1>27. Spoken!TypeOK'
    BY <1>1, <1>13, <1>21 DEF Spoken!IInv, Spoken!TypeOK
  <1>28. ~e.eligible /\ e.names = d.names /\ e.status = "idle" /\ ~e.suspended
    BY <1>6, <1>10, <1>16, <1>17, <1>18 DEF SpokenKept, SpokenSettledKept
  <1>29. Spoken!ReadOnce'
    BY <1>1, <1>19, <1>28 DEF Spoken!IInv, Spoken!ReadOnce, d
  <1> QED BY <1>1, <1>26, <1>27, <1>29 DEF Spoken!IInv

\* The names arrive, or not, perhaps after the end of a recording's authority.
LEMMA SpokenFrozenIfEndedFacts ==
  ASSUME Spoken!IInv
  PROVE  LET f == Spoken!FrozenIfEnded(x1)
         IN /\ f \in Spoken!Draft /\ Spoken!DraftOK(f, x5, x6, x7)
            /\ f.names = x1.names /\ f.status = x1.status /\ f.suspended = x1.suspended
            /\ f.origin = x1.origin /\ f.authority = x1.authority
            /\ f.authority = "revoked" => ~f.eligible
            /\ SpokenTextKept(x1, f)
  <1> DEFINE d == x1
             f == Spoken!Frozen(d)
  <1>1. /\ d \in Spoken!Draft /\ Spoken!DraftOK(d, x5, x6, x7)
        /\ x5 \in Seq(Spoken!Word) /\ x6 \in Seq(Spoken!Word)
    BY DEF Spoken!IInv, Spoken!TypeOK
  <1>2. CASE d.authority # "revoked"
    BY <1>1, <1>2 DEF Spoken!FrozenIfEnded, SpokenTextKept
  <1>3. CASE d.authority = "revoked"
    <2>1. Spoken!FrozenIfEnded(d) = f
      BY <1>3 DEF Spoken!FrozenIfEnded
    <2>2. /\ f \in Spoken!Draft /\ SpokenKept(d, f) /\ SpokenTextKept(d, f)
          /\ f.origin = d.origin /\ ~f.eligible
          /\ ~d.eligible => SpokenSettledKept(d, f)
          /\ f.frozen = d.frozen
             \/ (f.frozen = Spoken!Prefix(d.transcript) /\ Spoken!Confirms(d.names, Spoken!Prefix(d.transcript)))
          /\ f.proposed = d.proposed
             \/ (f.proposed = Spoken!Prefix(d.transcript) /\ Spoken!Prefix(d.transcript) \in Spoken!Single)
      BY <1>1, SpokenFrozenFacts
    <2>3. d.eligible => x7 = d.names
      BY <1>3 DEF Spoken!IInv, Spoken!ReadOnce
    <2> HIDE DEF d, f
    <2>4. Spoken!DraftOK(f, x5, x6, x7)
      BY <1>1, <1>3, <2>2, <2>3, SpokenFreezingPreserves
    <2> QED BY <2>1, <2>2, <2>4 DEF SpokenKept, d
  <1> QED BY <1>2, <1>3

LEMMA SpokenElsewherePreserves ==
  ASSUME NEW d \in Spoken!Draft, NEW e \in Spoken!Draft, NEW said, NEW start, NEW known,
         Spoken!DraftOK(d, said, start, known),
         e.base = d.base, e.transcript = d.transcript, e.status = d.status,
         e.authority = d.authority, e.consumed = d.consumed,
         SpokenTextKept(d, e), SpokenSettledKept(d, e), e.suspended => e.status = "idle",
         d.origin = "explicit" => e.origin = "explicit"
  PROVE  Spoken!DraftOK(e, said, start, known)
  <1> USE DEF SpokenTextKept, SpokenSettledKept
  <1>1. Spoken!Taken(e, e.text, said, known) /\ Spoken!Contributes(e, said, start, known)
    BY DEF Spoken!DraftOK, Spoken!Taken, Spoken!Contributes
  <1>2. Spoken!Unlocks(e) /\ Spoken!SettledBy(e, known) /\ Spoken!Restorable(e, said)
    BY DEF Spoken!DraftOK, Spoken!Unlocks, Spoken!SettledBy, Spoken!Restorable
  <1>3. Spoken!FirstOnly(e, said, start)
    BY DEF Spoken!DraftOK, Spoken!FirstOnly, Spoken!Pending
  <1> QED BY <1>1, <1>2, <1>3 DEF Spoken!DraftOK

LEMMA SpokenSubjectsLoadedPreserves ==
  ASSUME Spoken!IInv, NEW names \in Spoken!Names, Spoken!SubjectsLoaded(names)
  PROVE  Spoken!IInv'
  <1> DEFINE d == x1
             f == Spoken!FrozenIfEnded(d)
             g == [f EXCEPT !.names = names, !.loaded = TRUE]
             e == Spoken!Refreshed(g, TRUE)
  <1>1. /\ x2 # "done" /\ x2' = "done" /\ x1' = IF Spoken!Wanted THEN e ELSE d
        /\ UNCHANGED <<x3, x4, x5, x6, x7>>
    BY DEF Spoken!SubjectsLoaded, Spoken!History
  <1>2. names \in [Spoken!Cue -> Spoken!Finding]
    BY DEF Spoken!Names, Spoken!Unread, Spoken!Finding
  <1>3. /\ f \in Spoken!Draft /\ Spoken!DraftOK(f, x5, x6, x7)
        /\ f.names = d.names /\ f.status = d.status /\ f.suspended = d.suspended
        /\ f.authority = d.authority
        /\ f.authority = "revoked" => ~f.eligible
    BY SpokenFrozenIfEndedFacts
  <1> HIDE DEF f
  <1>4. g \in Spoken!Draft
    BY <1>2, <1>3 DEF Spoken!Draft
  <1>5. /\ g.base = f.base /\ g.transcript = f.transcript /\ g.status = f.status
        /\ g.authority = f.authority /\ g.consumed = f.consumed
        /\ g.suspended = f.suspended /\ g.origin = f.origin /\ g.names = names
    BY <1>3 DEF Spoken!Draft
  <1>6. SpokenTextKept(f, g) /\ SpokenSettledKept(f, g)
    BY <1>3 DEF Spoken!Draft, SpokenTextKept, SpokenSettledKept
  <1> HIDE DEF g
  <1>7. g.suspended => g.status = "idle"
    BY <1>3, <1>5 DEF Spoken!DraftOK, Spoken!Unlocks
  <1>8. Spoken!DraftOK(g, x5, x6, x7)
    BY <1>3, <1>4, <1>5, <1>6, <1>7, SpokenElsewherePreserves
  <1>9. e \in Spoken!Draft /\ SpokenRefreshes(g, e)
    BY <1>4, SpokenRefreshedFacts
  <1> HIDE DEF e
  <1>10. x5 \in Seq(Spoken!Word) /\ x6 \in Seq(Spoken!Word)
    BY DEF Spoken!IInv, Spoken!TypeOK
  <1>11. Spoken!DraftOK(e, x5, x6, x7)
    BY <1>4, <1>8, <1>9, <1>10, SpokenRefreshPreserves
  <1>12. CASE Spoken!Wanted
    <2>1. x1' = e /\ x3 = FALSE
      BY <1>1, <1>12 DEF Spoken!Wanted, Spoken!IInv, Spoken!TypeOK
    <2>2. Spoken!TypeOK'
      BY <1>1, <1>9, <2>1 DEF Spoken!IInv, Spoken!TypeOK
    <2>3. x7 = Spoken!Unread
      BY <1>1 DEF Spoken!IInv, Spoken!ReadOnce
    <2>4. e.authority = "revoked" => ~e.eligible
      BY <1>3, <1>5, <1>6, <1>9 DEF SpokenRefreshes, SpokenKept, SpokenSettledKept
    <2>5. Spoken!ReadOnce'
      BY <1>1, <2>1, <2>3, <2>4 DEF Spoken!ReadOnce
    <2> QED BY <1>1, <1>11, <2>1, <2>2, <2>5 DEF Spoken!IInv
  <1>13. CASE ~Spoken!Wanted
    BY <1>1, <1>13 DEF Spoken!IInv, Spoken!TypeOK, Spoken!ReadOnce, d
  <1> QED BY <1>12, <1>13

LEMMA SpokenSubjectsFailedPreserves ==
  ASSUME Spoken!IInv, Spoken!SubjectsFailed
  PROVE  Spoken!IInv'
  <1> DEFINE d == x1
             f == Spoken!FrozenIfEnded(d)
  <1>1. /\ x2 # "done" /\ x2' = "done" /\ x1' = IF Spoken!Wanted THEN f ELSE d
        /\ UNCHANGED <<x3, x4, x5, x6, x7>>
    BY DEF Spoken!SubjectsFailed, Spoken!History
  <1>2. /\ f \in Spoken!Draft /\ Spoken!DraftOK(f, x5, x6, x7)
        /\ f.names = d.names /\ f.authority = "revoked" => ~f.eligible
    BY SpokenFrozenIfEndedFacts
  <1> HIDE DEF f
  <1>3. CASE Spoken!Wanted
    <2>1. x1' = f /\ x3 = FALSE
      BY <1>1, <1>3 DEF Spoken!Wanted, Spoken!IInv, Spoken!TypeOK
    <2>2. Spoken!TypeOK'
      BY <1>1, <1>2, <2>1 DEF Spoken!IInv, Spoken!TypeOK
    <2>3. x7 = Spoken!Unread
      BY <1>1 DEF Spoken!IInv, Spoken!ReadOnce
    <2>4. f.authority = "revoked" => ~f.eligible
      BY SpokenFrozenIfEndedFacts DEF f
    <2>5. Spoken!ReadOnce'
      BY <1>1, <2>1, <2>3, <2>4 DEF Spoken!ReadOnce
    <2> QED BY <1>1, <1>2, <2>1, <2>2, <2>5 DEF Spoken!IInv
  <1>4. CASE ~Spoken!Wanted
    BY <1>1, <1>4 DEF Spoken!IInv, Spoken!TypeOK, Spoken!ReadOnce, d
  <1> QED BY <1>3, <1>4

\* The keys. An unlocked draft: nothing is looked for any more.
LEMMA SpokenUnlockedFacts ==
  ASSUME Spoken!IInv, x1.status = "idle"
  PROVE  /\ x1 \in Spoken!Draft /\ Spoken!DraftOK(x1, x5, x6, x7)
         /\ x5 \in Seq(Spoken!Word) /\ x6 \in Seq(Spoken!Word) /\ ~x1.eligible
         /\ x1.text \in Seq(Spoken!Word) /\ x1.cleanup \in Seq(Spoken!Word)
         /\ x1.transcript \in Spoken!Transcript
  BY DEF Spoken!IInv, Spoken!TypeOK, Spoken!DraftOK, Spoken!FirstOnly, Spoken!Draft

\* A word is added at the end, or taken away there, of the text and of what was said.
LEMMA SpokenEndPreserves ==
  ASSUME NEW d \in Spoken!Draft, NEW e \in Spoken!Draft, NEW said \in Seq(Spoken!Word),
             NEW later \in Seq(Spoken!Word),
         NEW start, NEW known, Spoken!DraftOK(d, said, start, known), d.status = "idle",
             SpokenKept(d, e),
         SpokenSettledKept(d, e), e.origin = d.origin, e.cleanup = d.cleanup,
         d.text = said => e.text = later,
         d.text # said => /\ later # <<>> /\ Head(later) = Head(said)
                          /\ e.text = Tail(later),
         \A i \in 2 .. Len(later) : (i \in 2 .. Len(said) /\ later[i] = said[i])
                                    \/ later[i] \notin Spoken!Cue
  PROVE  Spoken!DraftOK(e, later, start, known)
  <1> USE DEF SpokenKept, SpokenSettledKept
  <1>1. Spoken!Taken(e, e.text, later, known)
    BY DEF Spoken!DraftOK, Spoken!Taken
  <1>2. Spoken!Contributes(e, later, start, known)
    BY DEF Spoken!Contributes
  <1>3. Spoken!Unlocks(e) /\ Spoken!SettledBy(e, known)
    BY DEF Spoken!DraftOK, Spoken!Unlocks, Spoken!SettledBy
  <1>4. Spoken!FirstOnly(e, later, start)
    <2>1. Spoken!Pending(e) => Spoken!Pending(d)
      BY DEF Spoken!Pending
    <2>2. Spoken!Pending(e) => \A i \in 2 .. Len(later) : later[i] \notin Spoken!Cue
      BY <2>1 DEF Spoken!DraftOK, Spoken!FirstOnly
    <2> QED BY <2>2 DEF Spoken!DraftOK, Spoken!FirstOnly
  <1>5. Spoken!Restorable(e, later)
    <2>1. d.text # said => e.text # later
      BY SpokenHeadAndTail
    <2>2. d.cleanup # <<>> => d.text # said
      BY DEF Spoken!DraftOK, Spoken!Restorable
    <2> QED BY <2>1, <2>2 DEF Spoken!DraftOK, Spoken!Restorable
  <1> QED BY <1>1, <1>2, <1>3, <1>4, <1>5 DEF Spoken!DraftOK

LEMMA SpokenTypePreserves ==
  ASSUME Spoken!IInv, Spoken!Type
  PROVE  Spoken!IInv'
  <1> DEFINE d == x1
             t == Append(d.text, "typed")
             s == Append(x5, "typed")
             e == [d EXCEPT !.text = t]
  <1>1. /\ d.status = "idle" /\ ~x3 /\ ~d.suspended /\ x1' = e /\ x5' = s
        /\ UNCHANGED <<x6, x7, x2, x3, x4>>
    BY DEF Spoken!Type, Spoken!Editing, Spoken!Locked, Spoken!Context
  <1>2. /\ d \in Spoken!Draft /\ Spoken!DraftOK(d, x5, x6, x7) /\ x5 \in Seq(Spoken!Word)
        /\ ~d.eligible /\ d.text \in Seq(Spoken!Word)
    BY <1>1, SpokenUnlockedFacts
  <1>3. "typed" \in Spoken!Word /\ "typed" \notin Spoken!Cue
    BY DEF Spoken!Word, Spoken!Cue
  <1> HIDE DEF d
  <1>4. t \in Seq(Spoken!Word) /\ s \in Seq(Spoken!Word)
    BY <1>2, <1>3
  <1>5. d.text # x5 => x5 # <<>> /\ d.text = Tail(x5)
    BY <1>2 DEF Spoken!DraftOK, Spoken!Taken
  <1>6. d.text # x5 => s # <<>> /\ Head(s) = Head(x5) /\ t = Tail(s)
    BY <1>2, <1>3, <1>5, SpokenTailOfAppend
  <1>7. \A i \in 2 .. Len(s) : (i \in 2 .. Len(x5) /\ s[i] = x5[i]) \/ s[i] \notin Spoken!Cue
    <2>1. Len(x5) \in Nat /\ Len(s) = Len(x5) + 1 /\ s[Len(x5) + 1] = "typed"
          /\ \A i \in 1 .. Len(x5) : s[i] = x5[i]
      BY <1>2
    <2> HIDE DEF s
    <2> QED BY <1>3, <2>1
  <1> HIDE DEF t
  <1>8. e \in Spoken!Draft
    BY <1>2, <1>4 DEF Spoken!Draft
  <1>9. e.text = t /\ e.cleanup = d.cleanup /\ e.origin = d.origin
    BY <1>2 DEF Spoken!Draft
  <1>10. SpokenKept(d, e) /\ SpokenSettledKept(d, e)
    BY <1>2 DEF Spoken!Draft, SpokenKept, SpokenSettledKept
  <1>11. d.text = x5 => t = s
    BY DEF t
  <1> HIDE DEF e, s
  <1>12. Spoken!DraftOK(e, s, x6, x7)
    BY <1>1, <1>2, <1>4, <1>6, <1>7, <1>8, <1>9, <1>10, <1>11, SpokenEndPreserves
  <1>13. Spoken!TypeOK'
    BY <1>1, <1>4, <1>8 DEF Spoken!IInv, Spoken!TypeOK
  <1>14. Spoken!ReadOnce'
    BY <1>1, <1>2, <1>10 DEF Spoken!IInv, Spoken!ReadOnce, SpokenKept, SpokenSettledKept, d
  <1> QED BY <1>1, <1>12, <1>13, <1>14 DEF Spoken!IInv

LEMMA SpokenBackspacePreserves ==
  ASSUME Spoken!IInv, Spoken!Backspace
  PROVE  Spoken!IInv'
  <1> DEFINE d == x1
             t == SubSeq(d.text, 1, Len(d.text) - 1)
             s == SubSeq(x5, 1, Len(x5) - 1)
             e == [d EXCEPT !.text = t]
  <1>1. /\ d.status = "idle" /\ ~x3 /\ ~d.suspended /\ x1' = e /\ x5' = s
        /\ UNCHANGED <<x6, x7, x2, x3, x4>> /\ d.text # <<>>
    BY DEF Spoken!Backspace, Spoken!Editing, Spoken!Locked, Spoken!Context
  <1>2. /\ d \in Spoken!Draft /\ Spoken!DraftOK(d, x5, x6, x7) /\ x5 \in Seq(Spoken!Word)
        /\ ~d.eligible /\ d.text \in Seq(Spoken!Word)
    BY <1>1, SpokenUnlockedFacts
  <1> HIDE DEF d
  <1>3. d.text # x5 => x5 # <<>> /\ d.text = Tail(x5)
    BY <1>2 DEF Spoken!DraftOK, Spoken!Taken
  <1>4. x5 # <<>> /\ (d.text # x5 => Len(x5) >= 2)
    BY <1>1, <1>2, <1>3, SpokenHeadAndTail
  <1>5. t \in Seq(Spoken!Word)
    BY <1>1, <1>2, SubSeqProperties
  <1>6. /\ s \in Seq(Spoken!Word) /\ Len(s) = Len(x5) - 1
        /\ \A i \in 1 .. Len(x5) - 1 : s[i] = x5[i]
    <2> DEFINE n == Len(x5) - 1
    <2>1. n \in Nat /\ \A i \in 1 .. n : x5[i] \in Spoken!Word
      BY <1>2, <1>4
    <2>2. s = SubSeq(x5, 1, n)
      BY DEF s
    <2> HIDE DEF n
    <2>3. 1 \in Int /\ n \in Int
      BY <2>1
    <2>4. /\ s \in Seq(Spoken!Word) /\ Len(s) = IF 1 <= n THEN n - 1 + 1 ELSE 0
          /\ \A i \in 1 .. n - 1 + 1 : s[i] = x5[1 + i - 1]
      BY <2>1, <2>2, <2>3, SubSeqProperties
    <2>5. Len(s) = n /\ \A i \in 1 .. n : s[i] = x5[i]
      BY <2>1, <2>4
    <2> QED BY <2>4, <2>5 DEF n
  <1>7. d.text # x5 => s # <<>> /\ Head(s) = Head(x5) /\ t = Tail(s)
    BY <1>2, <1>3, <1>4, SpokenTailOfFront
  <1>8. d.text = x5 => t = s
    OBVIOUS
  <1> HIDE DEF t, s
  <1>9. \A i \in 2 .. Len(s) : (i \in 2 .. Len(x5) /\ s[i] = x5[i]) \/ s[i] \notin Spoken!Cue
    BY <1>2, <1>6
  <1>10. e \in Spoken!Draft
    BY <1>2, <1>5, ZenonT(60) DEF Spoken!Draft
  <1>11. e.text = t /\ e.cleanup = d.cleanup /\ e.origin = d.origin
    BY <1>2 DEF Spoken!Draft
  <1>12. SpokenKept(d, e) /\ SpokenSettledKept(d, e)
    BY <1>2 DEF Spoken!Draft, SpokenKept, SpokenSettledKept
  <1> HIDE DEF e
  <1>13. Spoken!DraftOK(e, s, x6, x7)
    BY <1>1, <1>2, <1>6, <1>7, <1>8, <1>9, <1>10, <1>11, <1>12, SpokenEndPreserves
  <1>14. Spoken!TypeOK'
    BY <1>1, <1>6, <1>10 DEF Spoken!IInv, Spoken!TypeOK
  <1>15. Spoken!ReadOnce'
    BY <1>1, <1>2, <1>12 DEF Spoken!IInv, Spoken!ReadOnce, SpokenKept, SpokenSettledKept, d
  <1> QED BY <1>1, <1>13, <1>14, <1>15 DEF Spoken!IInv

LEMMA SpokenRestorePreserves ==
  ASSUME Spoken!IInv, Spoken!Restore
  PROVE  Spoken!IInv'
  <1> DEFINE d == x1
             w == Spoken!RestoredWhole
             u == [d EXCEPT !.text = w, !.cleanup = <<>>, !.frozen = Spoken!NoCue,
                            !.proposed = Spoken!NoCue, !.eligible = FALSE, !.consumed = TRUE]
             e == Spoken!Withdrawn(u)
  <1>1. /\ d.status = "idle" /\ ~x3 /\ ~d.suspended /\ x1' = e /\ d.cleanup # <<>>
        /\ UNCHANGED <<x5, x6, x7, x2, x3, x4>>
    BY
       DEF Spoken!Restore, Spoken!Unchanging, Spoken!Editing, Spoken!Locked, Spoken!Context,
           Spoken!History
  <1>2. /\ d \in Spoken!Draft /\ Spoken!DraftOK(d, x5, x6, x7) /\ x5 \in Seq(Spoken!Word)
        /\ d.transcript \in Spoken!Transcript
    BY <1>1, SpokenUnlockedFacts
  <1>3. /\ x5 # <<>> /\ d.text = Tail(x5) /\ Head(x5) = Head(d.transcript)
        /\ Len(d.transcript) >= 2 /\ d.cleanup = Tail(d.transcript)
    BY <1>1, <1>2 DEF Spoken!DraftOK, Spoken!Taken, Spoken!Restorable
  <1>4. <<Head(d.transcript)>> \o d.text = x5
    BY <1>2, <1>3, SpokenHeadAndTail
  <1>5. w = x5
    <2>1. CASE d.text = d.cleanup
      <3>1. d.transcript \in Seq(Spoken!Word) /\ d.transcript # <<>>
        BY <1>2, <1>3, SpokenWordsOfTranscript
      <3>2. <<Head(d.transcript)>> \o Tail(d.transcript) = d.transcript
        BY <3>1, SpokenHeadAndTail
      <3> QED BY <1>3, <1>4, <2>1, <3>2 DEF Spoken!RestoredWhole
    <2>2. CASE d.text # d.cleanup
      BY <1>4, <2>2 DEF Spoken!RestoredWhole
    <2> QED BY <2>1, <2>2
  <1> HIDE DEF w
  <1>6. u \in Spoken!Draft
    <2>1. w \in Seq(Spoken!Word) /\ Spoken!NoCue \in Spoken!Cue \cup {Spoken!NoCue}
          /\ TRUE \in BOOLEAN /\ FALSE \in BOOLEAN
      BY <1>2, <1>5
    <2> HIDE DEF d
    <2> QED BY <1>2, <2>1, SpokenEmptyText, ZenonT(60) DEF Spoken!Draft
  <1>7. /\ u.text = x5 /\ u.cleanup = <<>> /\ u.frozen = Spoken!NoCue /\ u.proposed = Spoken!NoCue
        /\ ~u.eligible /\ u.consumed /\ u.names = d.names
        /\ u.status = d.status /\ u.authority = d.authority /\ u.suspended = d.suspended
    BY <1>2, <1>5 DEF Spoken!Draft
  <1> HIDE DEF d, u
  <1>8. Spoken!Taken(u, u.text, x5, x7) /\ Spoken!Contributes(u, x5, x6, x7)
    BY <1>1, <1>7 DEF Spoken!Taken, Spoken!Contributes
  <1>9. /\ Spoken!Unlocks(u) /\ Spoken!FirstOnly(u, x5, x6) /\ Spoken!SettledBy(u, x7)
        /\ Spoken!Restorable(u, x5)
    BY <1>1, <1>2, <1>7
       DEF Spoken!DraftOK, Spoken!Unlocks, Spoken!FirstOnly, Spoken!Pending, Spoken!SettledBy,
           Spoken!Restorable, Spoken!Possible, Spoken!NoCue
  <1>10. Spoken!DraftOK(u, x5, x6, x7)
    BY <1>8, <1>9 DEF Spoken!DraftOK
  <1>11. e \in Spoken!Draft /\ SpokenKept(u, e) /\ SpokenTextKept(u, e) /\ SpokenSettledKept(u, e)
         /\ (u.origin = "explicit" => e.origin = "explicit")
    BY <1>6, SpokenWithdrawnFacts
  <1>12. x6 \in Seq(Spoken!Word)
    BY DEF Spoken!IInv, Spoken!TypeOK
  <1> HIDE DEF e
  <1>13. Spoken!DraftOK(e, x5, x6, x7)
    BY <1>2, <1>6, <1>10, <1>11, <1>12, SpokenRefreshPreserves DEF SpokenRefreshes
  <1>14. Spoken!TypeOK'
    BY <1>1, <1>11 DEF Spoken!IInv, Spoken!TypeOK
  <1>15. e.names = d.names /\ ~e.eligible
    BY <1>7, <1>11 DEF SpokenKept, SpokenSettledKept
  <1>16. Spoken!ReadOnce'
    BY <1>1, <1>15 DEF Spoken!IInv, Spoken!ReadOnce, d
  <1> QED BY <1>1, <1>13, <1>14, <1>16 DEF Spoken!IInv

LEMMA SpokenFocusPreserves ==
  ASSUME Spoken!IInv, Spoken!Focus
  PROVE  Spoken!IInv'
  <1> DEFINE d == x1
             b == ~d.focused
             e == [d EXCEPT !.focused = b]
  <1>1. /\ d.status = "idle" /\ ~x3 /\ ~d.suspended
        /\ UNCHANGED <<x5, x6, x7, x2, x3, x4>>
    BY
       DEF Spoken!Focus, Spoken!Unchanging, Spoken!Editing, Spoken!Locked, Spoken!Context,
           Spoken!History
  <1>2. d \in Spoken!Draft /\ Spoken!DraftOK(d, x5, x6, x7) /\ ~d.eligible
    BY <1>1, SpokenUnlockedFacts
  <1>3. x1' = e
    BY DEF Spoken!Focus
  <1>4. b \in BOOLEAN
    OBVIOUS
  <1> HIDE DEF b
  <1>5. e \in Spoken!Draft
    BY <1>2, <1>4 DEF Spoken!Draft
  <1>6. e.origin = d.origin /\ e.suspended = d.suspended /\ e.names = d.names
    BY <1>2 DEF Spoken!Draft
  <1>7. SpokenKept(d, e) /\ SpokenTextKept(d, e) /\ SpokenSettledKept(d, e)
    BY <1>2 DEF Spoken!Draft, SpokenKept, SpokenTextKept, SpokenSettledKept
  <1> HIDE DEF d, e
  <1>8. Spoken!DraftOK(e, x5, x6, x7)
    BY <1>1, <1>2, <1>5, <1>6, <1>7, SpokenElsewherePreserves DEF SpokenKept
  <1>9. Spoken!TypeOK'
    BY <1>1, <1>3, <1>5 DEF Spoken!IInv, Spoken!TypeOK
  <1>10. Spoken!ReadOnce'
    BY <1>1, <1>2, <1>3, <1>6, <1>7 DEF Spoken!IInv, Spoken!ReadOnce, SpokenSettledKept, d
  <1> QED BY <1>1, <1>3, <1>8, <1>9, <1>10 DEF Spoken!IInv

LEMMA SpokenEditQueryPreserves ==
  ASSUME Spoken!IInv, Spoken!EditQuery
  PROVE  Spoken!IInv'
  <1>1. PICK query \in {"", "other"} :
          x1' = [x1 EXCEPT !.query = query, !.origin = "explicit", !.subject = "none"]
    BY DEF Spoken!EditQuery
  <1> DEFINE d == x1
             e == [d EXCEPT !.query = query, !.origin = "explicit", !.subject = "none"]
  <1>2. /\ d.status = "idle" /\ ~x3 /\ ~d.suspended
        /\ UNCHANGED <<x5, x6, x7, x2, x3, x4>>
    BY
       DEF Spoken!EditQuery, Spoken!Choosing, Spoken!Unchanging, Spoken!Editing, Spoken!Locked,
           Spoken!Context, Spoken!History
  <1>3. d \in Spoken!Draft /\ Spoken!DraftOK(d, x5, x6, x7) /\ ~d.eligible
    BY <1>2, SpokenUnlockedFacts
  <1>4. e \in Spoken!Draft
    BY <1>3, ZenonT(60) DEF Spoken!Draft
  <1>5. e.origin = "explicit" /\ e.suspended = d.suspended /\ e.names = d.names
    BY <1>3 DEF Spoken!Draft
  <1>6. SpokenKept(d, e) /\ SpokenTextKept(d, e) /\ SpokenSettledKept(d, e)
    BY <1>3 DEF Spoken!Draft, SpokenKept, SpokenTextKept, SpokenSettledKept
  <1>7. x1' = e
    BY <1>1
  <1> HIDE DEF d, e
  <1>8. Spoken!DraftOK(e, x5, x6, x7)
    BY <1>2, <1>3, <1>4, <1>5, <1>6, SpokenElsewherePreserves DEF SpokenKept
  <1>9. Spoken!TypeOK'
    BY <1>2, <1>4, <1>7 DEF Spoken!IInv, Spoken!TypeOK
  <1>10. Spoken!ReadOnce'
    BY <1>2, <1>3, <1>5, <1>6, <1>7 DEF Spoken!IInv, Spoken!ReadOnce, SpokenSettledKept, d
  <1> QED BY <1>2, <1>7, <1>8, <1>9, <1>10 DEF Spoken!IInv

LEMMA SpokenCreatePreserves ==
  ASSUME Spoken!IInv, Spoken!Create
  PROVE  Spoken!IInv'
  <1> DEFINE d == x1
             e == [d EXCEPT !.origin = "explicit", !.suspended = TRUE]
  <1>1. /\ d.status = "idle" /\ ~x3 /\ x1' = e
        /\ UNCHANGED <<x5, x6, x7, x2, x3, x4>>
    BY
       DEF Spoken!Create, Spoken!Choosing, Spoken!Unchanging, Spoken!Editing, Spoken!Locked,
           Spoken!Context, Spoken!History
  <1>2. d \in Spoken!Draft /\ Spoken!DraftOK(d, x5, x6, x7) /\ ~d.eligible
    BY <1>1, SpokenUnlockedFacts
  <1>3. e \in Spoken!Draft
    <2>1. TRUE \in BOOLEAN
      OBVIOUS
    <2> HIDE DEF d
    <2> QED BY <1>2, <2>1, ZenonT(60) DEF Spoken!Draft
  <1>4. /\ e.origin = "explicit" /\ e.names = d.names /\ e.base = d.base
        /\ e.transcript = d.transcript /\ e.status = d.status /\ e.authority = d.authority
        /\ e.consumed = d.consumed
    BY <1>2 DEF Spoken!Draft
  <1>5. SpokenTextKept(d, e) /\ SpokenSettledKept(d, e)
    BY <1>2 DEF Spoken!Draft, SpokenTextKept, SpokenSettledKept
  <1> HIDE DEF d, e
  <1>6. Spoken!DraftOK(e, x5, x6, x7)
    BY <1>1, <1>2, <1>3, <1>4, <1>5, SpokenElsewherePreserves
  <1>7. Spoken!TypeOK'
    BY <1>1, <1>3 DEF Spoken!IInv, Spoken!TypeOK
  <1>8. Spoken!ReadOnce'
    BY <1>1, <1>2, <1>4, <1>5 DEF Spoken!IInv, Spoken!ReadOnce, SpokenSettledKept, d
  <1> QED BY <1>1, <1>6, <1>7, <1>8 DEF Spoken!IInv

\* The draft returns to its editor.
LEMMA SpokenReturnedFacts ==
  ASSUME Spoken!IInv, x1.suspended
  PROVE  LET e == [x1 EXCEPT !.suspended = FALSE]
         IN /\ e \in Spoken!Draft /\ Spoken!DraftOK(e, x5, x6, x7)
            /\ e.status = "idle" /\ ~e.suspended /\ ~e.eligible /\ e.names = x1.names
            /\ e.origin = x1.origin /\ e.subject = x1.subject
            /\ ~x3
  <1> DEFINE d == x1
             e == [d EXCEPT !.suspended = FALSE]
  <1>1. d.status = "idle" /\ ~x3
    BY DEF Spoken!IInv, Spoken!DraftOK, Spoken!Unlocks, Spoken!ReadOnce
  <1>2. d \in Spoken!Draft /\ Spoken!DraftOK(d, x5, x6, x7) /\ ~d.eligible
    BY <1>1, SpokenUnlockedFacts
  <1>3. e \in Spoken!Draft
    <2>1. FALSE \in BOOLEAN
      OBVIOUS
    <2> HIDE DEF d
    <2> QED BY <1>2, <2>1 DEF Spoken!Draft
  <1>4. /\ e.origin = d.origin /\ e.names = d.names /\ e.base = d.base
        /\ e.transcript = d.transcript /\ e.status = d.status /\ e.authority = d.authority
        /\ e.consumed = d.consumed /\ e.subject = d.subject /\ ~e.suspended
    BY <1>2 DEF Spoken!Draft
  <1>5. SpokenTextKept(d, e) /\ SpokenSettledKept(d, e)
    BY <1>2 DEF Spoken!Draft, SpokenTextKept, SpokenSettledKept
  <1> HIDE DEF d, e
  <1>6. Spoken!DraftOK(e, x5, x6, x7)
    BY <1>1, <1>2, <1>3, <1>4, <1>5, SpokenElsewherePreserves
  <1> QED BY <1>1, <1>2, <1>3, <1>4, <1>5, <1>6 DEF SpokenSettledKept, d, e

LEMMA SpokenReturnEmptyPreserves ==
  ASSUME Spoken!IInv, Spoken!ReturnEmpty
  PROVE  Spoken!IInv'
  <1> DEFINE e == [x1 EXCEPT !.suspended = FALSE]
  <1>1. /\ x1.suspended /\ x1' = e
        /\ UNCHANGED <<x5, x6, x7, x2, x3, x4>>
    BY DEF Spoken!ReturnEmpty, Spoken!Unchanging, Spoken!Context, Spoken!History
  <1>2. /\ e \in Spoken!Draft /\ Spoken!DraftOK(e, x5, x6, x7)
        /\ e.status = "idle" /\ ~e.suspended /\ ~e.eligible /\ e.names = x1.names
        /\ ~x3
    BY <1>1, SpokenReturnedFacts
  <1> HIDE DEF e
  <1>3. Spoken!TypeOK'
    BY <1>1, <1>2 DEF Spoken!IInv, Spoken!TypeOK
  <1>4. Spoken!ReadOnce'
    BY <1>1, <1>2 DEF Spoken!IInv, Spoken!ReadOnce
  <1> QED BY <1>1, <1>2, <1>3, <1>4 DEF Spoken!IInv

\* A Subject the user chooses settles a proposal, and the cue of one may be taken.
LEMMA SpokenChosenFacts ==
  ASSUME NEW d \in Spoken!Draft, NEW said \in Seq(Spoken!Word), NEW start \in Seq(Spoken!Word),
             NEW known,
         Spoken!DraftOK(d, said, start, known), d.status = "idle"
  PROVE  LET e == Spoken!Chosen(d)
         IN /\ e \in Spoken!Draft /\ Spoken!DraftOK(e, said, start, known) /\ e.names = d.names
            /\ e.suspended = d.suspended /\ e.eligible = d.eligible /\ e.status = "idle"
            /\ e.origin = "explicit" /\ e.subject = "picked"
  <1> DEFINE y == [d EXCEPT !.origin = "explicit", !.subject = "picked", !.query = "picked",
                            !.focused = FALSE]
             z == [y EXCEPT !.proposed = Spoken!NoCue, !.proposedName = Spoken!NoCue]
             e == Spoken!CleanedIf(z, y.proposed # Spoken!NoCue \/ y.frozen # Spoken!NoCue)
  <1>1. Spoken!Chosen(d) = e
    BY DEF Spoken!Chosen, Spoken!Confirmed
  <1>2. y \in Spoken!Draft
    <2>1. /\ FALSE \in BOOLEAN /\ "explicit" \in {"unset", "explicit", "automatic"}
          /\ "picked" \in Spoken!Cue \cup {"none", "picked"}
          /\ "picked" \in Spoken!Cue \cup {"", "other", "picked"}
      OBVIOUS
    <2> QED BY <2>1, ZenonT(40) DEF Spoken!Draft
  <1>3. y.origin = "explicit" /\ y.subject = "picked" /\ y.status = d.status
    BY DEF Spoken!Draft
  <1>4. SpokenKept(d, y) /\ SpokenTextKept(d, y) /\ SpokenSettledKept(d, y)
    BY DEF Spoken!Draft, SpokenKept, SpokenTextKept, SpokenSettledKept
  <1> HIDE DEF y
  <1>5. z \in Spoken!Draft
    BY <1>2, ZenonT(60) DEF Spoken!Draft
  <1>6. /\ z.origin = y.origin /\ z.subject = y.subject /\ z.status = y.status
        /\ z.eligible = y.eligible /\ z.frozen = y.frozen /\ z.proposed = Spoken!NoCue
    BY <1>2 DEF Spoken!Draft
  <1>7. SpokenKept(y, z) /\ SpokenTextKept(y, z)
    BY <1>2 DEF Spoken!Draft, SpokenKept, SpokenTextKept
  <1> HIDE DEF z
  <1>8. /\ e \in Spoken!Draft /\ SpokenKept(z, e) /\ SpokenSettledKept(z, e)
        /\ e.origin = z.origin
        /\ e.subject = z.subject
        /\ \/ SpokenTextKept(z, e)
           \/ SpokenCueTaken(z, e) /\ (y.proposed # Spoken!NoCue \/ y.frozen # Spoken!NoCue)
    <2>1. CASE y.proposed # Spoken!NoCue \/ y.frozen # Spoken!NoCue
      BY <1>5, <2>1, SpokenCleanedFacts DEF Spoken!CleanedIf
    <2>2. CASE ~(y.proposed # Spoken!NoCue \/ y.frozen # Spoken!NoCue)
      BY <1>5, <2>2 DEF Spoken!CleanedIf, SpokenKept, SpokenSettledKept, SpokenTextKept
    <2> QED BY <2>1, <2>2
  <1> HIDE DEF e
  <1>9. SpokenKept(d, e) /\ e.eligible = d.eligible /\ e.frozen = d.frozen
        /\ e.proposed = Spoken!NoCue
    BY <1>4, <1>6, <1>7, <1>8 DEF SpokenKept, SpokenSettledKept
  <1>10. \/ SpokenTextKept(d, e)
         \/ SpokenCueTaken(d, e) /\ (d.proposed # Spoken!NoCue \/ d.frozen # Spoken!NoCue)
    BY <1>4, <1>7, <1>8 DEF SpokenKept, SpokenTextKept, SpokenSettledKept, SpokenCueTaken
  <1>11. e.origin = "explicit" /\ e.subject = "picked"
    BY <1>3, <1>6, <1>8
  <1>12. Spoken!DraftOK(e, said, start, known)
    BY <1>8, <1>9, <1>10, <1>11, SpokenTakingPreserves
  <1> QED BY <1>1, <1>8, <1>9, <1>11, <1>12 DEF SpokenKept

LEMMA SpokenPickPreserves ==
  ASSUME Spoken!IInv, Spoken!Pick
  PROVE  Spoken!IInv'
  <1> DEFINE e == Spoken!Chosen(x1)
  <1>1. /\ x1.status = "idle" /\ ~x3 /\ ~x1.suspended /\ x1' = e
        /\ UNCHANGED <<x5, x6, x7, x2, x3, x4>>
    BY
       DEF Spoken!Pick, Spoken!Choosing, Spoken!Unchanging, Spoken!Editing, Spoken!Locked,
           Spoken!Context, Spoken!History
  <1>2. /\ x1 \in Spoken!Draft /\ Spoken!DraftOK(x1, x5, x6, x7) /\ ~x1.eligible
        /\ x5 \in Seq(Spoken!Word) /\ x6 \in Seq(Spoken!Word)
    BY <1>1, SpokenUnlockedFacts
  <1>3. /\ e \in Spoken!Draft /\ Spoken!DraftOK(e, x5, x6, x7) /\ e.names = x1.names
        /\ ~e.suspended /\ ~e.eligible /\ e.status = "idle"
    BY <1>1, <1>2, SpokenChosenFacts
  <1> HIDE DEF e
  <1>4. Spoken!TypeOK'
    BY <1>1, <1>3 DEF Spoken!IInv, Spoken!TypeOK
  <1>5. Spoken!ReadOnce'
    BY <1>1, <1>3 DEF Spoken!IInv, Spoken!ReadOnce
  <1> QED BY <1>1, <1>3, <1>4, <1>5 DEF Spoken!IInv

LEMMA SpokenReturnWithSubjectPreserves ==
  ASSUME Spoken!IInv, Spoken!ReturnWithSubject
  PROVE  Spoken!IInv'
  <1> DEFINE d == [x1 EXCEPT !.suspended = FALSE]
             e == Spoken!Chosen(d)
  <1>1. /\ x1.suspended /\ x1' = e
        /\ x2' = IF x2 = "pending" THEN "wanted" ELSE x2
        /\ UNCHANGED <<x5, x6, x7, x3, x4>>
    BY DEF Spoken!ReturnWithSubject, Spoken!History
  <1>2. /\ d \in Spoken!Draft /\ Spoken!DraftOK(d, x5, x6, x7)
        /\ d.status = "idle" /\ ~d.suspended /\ ~d.eligible /\ d.names = x1.names
        /\ ~x3
    BY <1>1, SpokenReturnedFacts
  <1>3. x5 \in Seq(Spoken!Word) /\ x6 \in Seq(Spoken!Word)
    BY DEF Spoken!IInv, Spoken!TypeOK
  <1> HIDE DEF d
  <1>4. /\ e \in Spoken!Draft /\ Spoken!DraftOK(e, x5, x6, x7) /\ e.names = d.names
        /\ ~e.suspended /\ ~e.eligible /\ e.status = "idle"
    BY <1>2, <1>3, SpokenChosenFacts
  <1> HIDE DEF e
  <1>5. Spoken!TypeOK'
    BY <1>1, <1>4 DEF Spoken!IInv, Spoken!TypeOK
  <1>6. Spoken!ReadOnce'
    BY <1>1, <1>2, <1>4 DEF Spoken!IInv, Spoken!ReadOnce
  <1> QED BY <1>1, <1>4, <1>5, <1>6 DEF Spoken!IInv

LEMMA SpokenSavePreserves ==
  ASSUME Spoken!IInv, Spoken!Save \/ Spoken!SaveFails
  PROVE  Spoken!IInv'
  <1>1. /\ UNCHANGED <<x1, x5, x6, x7, x4>>
        /\ x3' \in BOOLEAN /\ x2' \in {"pending", "wanted", "done"}
        /\ x2 = "done" => x2' = "done"
        /\ x3' => x1.status = "idle" /\ ~x1.suspended
    BY
       DEF Spoken!Save, Spoken!SaveFails, Spoken!IInv, Spoken!TypeOK, Spoken!History,
           Spoken!Editing, Spoken!Locked
  <1>2. Spoken!TypeOK'
    BY <1>1 DEF Spoken!IInv, Spoken!TypeOK
  <1>3. Spoken!ReadOnce'
    BY <1>1 DEF Spoken!IInv, Spoken!ReadOnce
  <1> QED BY <1>1, <1>2, <1>3 DEF Spoken!IInv

LEMMA SpokenNextPreserves ==
  ASSUME Spoken!IInv, Spoken!Next \/ UNCHANGED Spoken!vars
  PROVE  Spoken!IInv'
  <1>1. CASE UNCHANGED Spoken!vars
    BY <1>1 DEF Spoken!IInv, Spoken!TypeOK, Spoken!ReadOnce, Spoken!vars
  <1>2. CASE Spoken!Next
    BY <1>2, SpokenStartPreserves, SpokenLoseAuthorityPreserves, SpokenStopPreserves,
       SpokenRecordingEndedPreserves, SpokenTranscriptUpdatePreserves,
       SpokenSubjectsLoadedPreserves, SpokenSubjectsFailedPreserves, SpokenTypePreserves,
       SpokenBackspacePreserves, SpokenRestorePreserves, SpokenFocusPreserves,
       SpokenPickPreserves, SpokenEditQueryPreserves, SpokenCreatePreserves,
       SpokenReturnWithSubjectPreserves, SpokenReturnEmptyPreserves, SpokenSavePreserves
       DEF Spoken!Next
  <1> QED BY <1>1, <1>2

\* The parts of a handler leave a choice of the user alone.
SpokenChoiceKept(d, e) ==
  d.origin = "explicit" => e.origin = "explicit" /\ e.subject = d.subject

LEMMA SpokenFrozenKeepsChoice ==
  ASSUME NEW d \in Spoken!Draft
  PROVE  SpokenChoiceKept(d, Spoken!Frozen(d))
  <1> DEFINE c == Spoken!Prefix(d.transcript)
             f == IF Spoken!Confirms(d.names, c) THEN c ELSE d.frozen
             p == IF ~Spoken!Confirms(d.names, c) /\ c \in Spoken!Single /\ d.proposedName = c
                     /\ d.loaded /\ Spoken!Matches(d.names, c) = "unknown"
                  THEN c ELSE d.proposed
             e == [d EXCEPT !.eligible = FALSE, !.frozen = f, !.proposed = p]
  <1>1. Spoken!Frozen(d) = d \/ Spoken!Frozen(d) = e
    BY DEF Spoken!Frozen
  <1> HIDE DEF f, p
  <1>2. e.origin = d.origin /\ e.subject = d.subject
    BY DEF Spoken!Draft
  <1> HIDE DEF e
  <1> QED BY <1>1, <1>2 DEF SpokenChoiceKept

LEMMA SpokenRefreshedKeepsChoice ==
  ASSUME NEW d \in Spoken!Draft, NEW changed \in BOOLEAN
  PROVE  SpokenChoiceKept(d, Spoken!Refreshed(d, changed))
  <1> SUFFICES ASSUME d.origin = "explicit"
               PROVE  SpokenChoiceKept(d, Spoken!Refreshed(d, changed))
    BY DEF SpokenChoiceKept
  <1>1. Spoken!Refreshed(d, changed) \in {d, Spoken!Cleaned(d)}
    BY DEF Spoken!Refreshed, Spoken!DeferredCleanup, Spoken!CleanedIf
  <1> QED BY <1>1, SpokenCleanedFacts DEF SpokenChoiceKept

LEMMA SpokenWithdrawnKeepsChoice ==
  ASSUME NEW d \in Spoken!Draft
  PROVE  SpokenChoiceKept(d, Spoken!Withdrawn(d))
  BY DEF SpokenChoiceKept, Spoken!Withdrawn, Spoken!Draft

\* Each step keeps a choice of the user, or is one.
LEMMA SpokenStepKeepsChoice ==
  ASSUME Spoken!IInv, Spoken!Next
  PROVE  Spoken!ChoiceIsKept
  <1> DEFINE d == x1
  <1>1. d \in Spoken!Draft
    BY DEF Spoken!IInv, Spoken!TypeOK
  <1>2. SpokenChoiceKept(d, x1') => Spoken!ChoiceIsKept
    BY DEF SpokenChoiceKept, Spoken!ChoiceIsKept
  <1>3. CASE Spoken!Start
    BY <1>1, <1>2, <1>3 DEF Spoken!Start, SpokenChoiceKept, Spoken!Draft
  <1>4. CASE Spoken!LoseAuthority
    BY <1>1, <1>2, <1>4 DEF Spoken!LoseAuthority, SpokenChoiceKept, Spoken!Draft
  <1>5. CASE Spoken!Stop
    <2> DEFINE f == Spoken!Frozen(d)
               e == [f EXCEPT !.authority = "revoked", !.status = "stopping"]
    <2>1. f \in Spoken!Draft /\ SpokenChoiceKept(d, f)
      BY <1>1, SpokenFrozenFacts, SpokenFrozenKeepsChoice
    <2> HIDE DEF f
    <2>2. e.origin = f.origin /\ e.subject = f.subject
      BY <2>1 DEF Spoken!Draft
    <2>3. x1' = e
      BY <1>5 DEF Spoken!Stop, f
    <2> QED BY <1>2, <2>1, <2>2, <2>3 DEF SpokenChoiceKept
  <1>6. CASE Spoken!RecordingEnded
    <2> DEFINE f == Spoken!Frozen(d)
               c == Spoken!CleanedIf(f, f.loaded /\ Spoken!Confirms(f.names, f.frozen))
               p == c.consumed \/ f.transcript # <<>>
               e == [c EXCEPT !.authority = "none", !.base = <<>>, !.status = "idle",
                              !.focused = FALSE, !.consumed = p]
    <2>1. f \in Spoken!Draft /\ SpokenChoiceKept(d, f)
      BY <1>1, SpokenFrozenFacts, SpokenFrozenKeepsChoice
    <2>2. x1' = e
      BY <1>6 DEF Spoken!RecordingEnded
    <2> HIDE DEF f
    <2>3. c \in Spoken!Draft /\ SpokenChoiceKept(f, c)
      <3>1. c = f \/ c = Spoken!Cleaned(f)
        BY DEF Spoken!CleanedIf
      <3> HIDE DEF c
      <3> QED BY <2>1, <3>1, SpokenCleanedFacts DEF SpokenChoiceKept
    <2> HIDE DEF c, p
    <2>4. e.origin = c.origin /\ e.subject = c.subject
      BY <2>3 DEF Spoken!Draft
    <2> HIDE DEF e
    <2> QED BY <1>2, <2>1, <2>2, <2>3, <2>4 DEF SpokenChoiceKept
  <1>7. CASE \E t \in Spoken!Transcript : Spoken!TranscriptUpdate(t)
    <2>1. PICK t \in Spoken!Transcript : Spoken!TranscriptUpdate(t)
      BY <1>7
    <2> DEFINE w == d.base \o t
               u == [d EXCEPT !.text = w, !.transcript = t]
    <2>2. w \in Seq(Spoken!Word)
      <3>1. d.base \in Seq(Spoken!Word) /\ t \in Seq(Spoken!Word)
        BY <1>1, SpokenWordsOfTranscript DEF Spoken!Draft
      <3> HIDE DEF d
      <3> QED BY <3>1
    <2>3. x1' = Spoken!Refreshed(u, FALSE)
      BY <2>1 DEF Spoken!TranscriptUpdate
    <2> HIDE DEF w
    <2>4. u \in Spoken!Draft
      BY <1>1, <2>2 DEF Spoken!Draft
    <2>5. u.origin = d.origin /\ u.subject = d.subject
      BY <1>1 DEF Spoken!Draft
    <2> HIDE DEF u
    <2>6. SpokenChoiceKept(u, Spoken!Refreshed(u, FALSE))
      BY <2>4, SpokenRefreshedKeepsChoice
    <2> QED BY <1>2, <2>3, <2>5, <2>6 DEF SpokenChoiceKept
  <1>8. CASE \E names \in Spoken!Names : Spoken!SubjectsLoaded(names)
    <2>1. PICK names \in Spoken!Names : Spoken!SubjectsLoaded(names)
      BY <1>8
    <2> DEFINE f == Spoken!FrozenIfEnded(d)
               g == [f EXCEPT !.names = names, !.loaded = TRUE]
    <2>2. x1' = Spoken!Refreshed(g, TRUE) \/ x1' = d
      BY <2>1 DEF Spoken!SubjectsLoaded
    <2>3. f \in Spoken!Draft /\ SpokenChoiceKept(d, f)
      BY <1>1, SpokenFrozenFacts, SpokenFrozenKeepsChoice
         DEF Spoken!FrozenIfEnded, SpokenChoiceKept
    <2>4. names \in [Spoken!Cue -> Spoken!Finding]
      BY DEF Spoken!Names, Spoken!Unread, Spoken!Finding
    <2> HIDE DEF f
    <2>5. g \in Spoken!Draft
      BY <2>3, <2>4 DEF Spoken!Draft
    <2>6. g.origin = f.origin /\ g.subject = f.subject
      BY <2>3 DEF Spoken!Draft
    <2> HIDE DEF g
    <2>7. SpokenChoiceKept(g, Spoken!Refreshed(g, TRUE))
      BY <2>5, SpokenRefreshedKeepsChoice
    <2> QED BY <1>2, <2>2, <2>3, <2>6, <2>7 DEF SpokenChoiceKept
  <1>9. CASE Spoken!SubjectsFailed
    <2>1. x1' = d \/ x1' = Spoken!Frozen(d)
      BY <1>9 DEF Spoken!SubjectsFailed, Spoken!FrozenIfEnded
    <2>2. SpokenChoiceKept(d, Spoken!Frozen(d))
      BY <1>1, SpokenFrozenKeepsChoice
    <2> QED BY <1>2, <2>1, <2>2 DEF SpokenChoiceKept
  <1>10. CASE Spoken!Type \/ Spoken!Backspace \/ Spoken!Focus
    BY <1>1, <1>2, <1>10
       DEF Spoken!Type, Spoken!Backspace, Spoken!Focus, SpokenChoiceKept, Spoken!Draft
  <1>11. CASE Spoken!Restore
    <2> DEFINE w == Spoken!RestoredWhole
               u == [d EXCEPT !.text = w, !.cleanup = <<>>, !.frozen = Spoken!NoCue,
                              !.proposed = Spoken!NoCue, !.eligible = FALSE, !.consumed = TRUE]
    <2>1. x1' = Spoken!Withdrawn(u)
      BY <1>11 DEF Spoken!Restore
    <2> HIDE DEF w
    <2>2. u.origin = d.origin /\ u.subject = d.subject
      BY <1>1 DEF Spoken!Draft
    <2>3. d.origin = "explicit" => x1' = [u EXCEPT !.cue = Spoken!NoCue, !.proposedName = Spoken!NoCue]
      BY <2>1, <2>2 DEF Spoken!Withdrawn
    <2>4. LET e == [u EXCEPT !.cue = Spoken!NoCue, !.proposedName = Spoken!NoCue]
          IN e.origin = u.origin /\ e.subject = u.subject
      BY <1>1 DEF Spoken!Draft
    <2> HIDE DEF u
    <2> QED BY <1>2, <2>2, <2>3, <2>4 DEF SpokenChoiceKept
  <1>12. CASE Spoken!EditQuery \/ Spoken!Create
    BY <1>1, <1>12 DEF Spoken!EditQuery, Spoken!Create, Spoken!ChoiceIsKept, Spoken!Draft
  <1>13. CASE Spoken!Pick
    <2>1. d.status = "idle"
      BY <1>13 DEF Spoken!Pick, Spoken!Choosing, Spoken!Locked
    <2>2. Spoken!DraftOK(d, x5, x6, x7) /\ x5 \in Seq(Spoken!Word) /\ x6 \in Seq(Spoken!Word)
      BY DEF Spoken!IInv, Spoken!TypeOK
    <2> QED BY <1>1, <1>13, <2>1, <2>2, SpokenChosenFacts DEF Spoken!Pick, Spoken!ChoiceIsKept
  <1>14. CASE Spoken!ReturnWithSubject
    <2> DEFINE e == [x1 EXCEPT !.suspended = FALSE]
    <2>1. x1' = Spoken!Chosen(e) /\ x1.suspended
      BY <1>14 DEF Spoken!ReturnWithSubject
    <2>2. e \in Spoken!Draft /\ Spoken!DraftOK(e, x5, x6, x7) /\ e.status = "idle"
      BY <2>1, SpokenReturnedFacts
    <2>3. x5 \in Seq(Spoken!Word) /\ x6 \in Seq(Spoken!Word)
      BY DEF Spoken!IInv, Spoken!TypeOK
    <2> HIDE DEF e
    <2> QED BY <2>1, <2>2, <2>3, SpokenChosenFacts DEF Spoken!ChoiceIsKept
  <1>15. CASE Spoken!ReturnEmpty
    BY <1>2, <1>15, SpokenReturnedFacts DEF Spoken!ReturnEmpty, SpokenChoiceKept
  <1>16. CASE Spoken!Save \/ Spoken!SaveFails
    BY <1>2, <1>16 DEF Spoken!Save, Spoken!SaveFails, SpokenChoiceKept
  <1> QED BY <1>3, <1>4, <1>5, <1>6, <1>7, <1>8, <1>9, <1>10, <1>11, <1>12, <1>13, <1>14,
             <1>15, <1>16 DEF Spoken!Next

\* A draft handed over is not changed: its keys and its recording wait, and so do the names.
LEMMA SpokenStepKeepsSaved ==
  ASSUME Spoken!IInv, Spoken!Next
  PROVE  Spoken!SavedAsShown
  <1> SUFFICES ASSUME x3
               PROVE  x1'.text = x1.text /\ x1'.subject = x1.subject
    BY DEF Spoken!SavedAsShown
  <1>1. x1.authority = "none" /\ ~x1.suspended
    BY DEF Spoken!IInv, Spoken!ReadOnce, Spoken!DraftOK, Spoken!Unlocks
  <1>2. x1' = x1
    BY <1>1
       DEF Spoken!Next, Spoken!Start, Spoken!LoseAuthority, Spoken!Stop, Spoken!RecordingEnded,
           Spoken!TranscriptUpdate, Spoken!SubjectsLoaded, Spoken!SubjectsFailed, Spoken!Wanted,
           Spoken!Type, Spoken!Backspace, Spoken!Restore, Spoken!Focus, Spoken!Pick,
           Spoken!EditQuery, Spoken!Create, Spoken!Choosing, Spoken!ReturnWithSubject,
           Spoken!ReturnEmpty, Spoken!Save, Spoken!SaveFails, Spoken!Editing
  <1> QED BY <1>2

-----------------------------------------------------------------------------
(* The browser of Thoughts: x1 the store, x2 the screen, x3 the rows, x4   *)
(* whether they are stale, x5 what is waited for, x6 the detail, x7 the    *)
(* commands, x8 what the rows were read from, x9 the Thoughts created.     *)
(* First its lemmas about rows in their order and about batches.           *)

\* The cardinality that the screen counts its rows with is that of the library's theorems.
LEMMA ThoughtsCardinality == \A s : Thoughts!Cardinality(s) = Cardinality(s)
  BY DEF Thoughts!Cardinality, Cardinality

\* Rows in their order: the Create row first, then from the newest.
LEMMA ThoughtsFiniteRows ==
  ASSUME NEW s \in SUBSET (Thoughts!Thought \cup {0})
  PROVE  IsFiniteSet(s) /\ Cardinality(s) \in Nat
<1>1. IsFiniteSet(0 .. MaxThought)
  BY ThoughtsAssumption, FS_Interval
<1>2. s \in SUBSET (0 .. MaxThought)
  BY ThoughtsAssumption DEF Thoughts!Thought
<1> QED BY <1>1, <1>2, FS_Subset, FS_CardinalityType

ThoughtsBefore(t, u) == t # u /\ (t = 0 \/ (u # 0 /\ t > u))
ThoughtsUpTo(t, r) == {u \in Thoughts!Listed(r) : u = 0 \/ u >= t}

LEMMA ThoughtsListedType ==
  ASSUME NEW r \in Thoughts!Rows
  PROVE  Thoughts!Listed(r) \in SUBSET (Thoughts!Thought \cup {0})
  BY DEF Thoughts!Listed, Thoughts!Rows

LEMMA ThoughtsPlaceInOrder ==
  ASSUME NEW r, Thoughts!Listed(r) \in SUBSET (Thoughts!Thought \cup {0}),
         NEW t \in Thoughts!Listed(r), NEW u \in Thoughts!Listed(r), ThoughtsBefore(t, u)
  PROVE  Thoughts!Place(t, r) < Thoughts!Place(u, r)
<1>1. ThoughtsUpTo(u, r) \in SUBSET (Thoughts!Thought \cup {0})
      /\ ThoughtsUpTo(t, r) \in SUBSET (Thoughts!Thought \cup {0})
  BY DEF ThoughtsUpTo
<1>2. IsFiniteSet(ThoughtsUpTo(u, r)) /\ Cardinality(ThoughtsUpTo(u, r)) \in Nat
  BY <1>1, ThoughtsFiniteRows
<1>3. t \in Int /\ u \in Int /\ u # 0
  BY DEF ThoughtsBefore, Thoughts!Thought
<1>4. Thoughts!Place(u, r) = Cardinality(ThoughtsUpTo(u, r))
  BY <1>3, ThoughtsCardinality DEF Thoughts!Place, ThoughtsUpTo
<1>5. CASE t = 0
  <2>1. {0} \in SUBSET ThoughtsUpTo(u, r) /\ ThoughtsUpTo(u, r) # {0}
    BY <1>3, <1>5 DEF ThoughtsUpTo
  <2>2. Cardinality({0}) = 1
    BY FS_Singleton
  <2>3. 1 <= Cardinality(ThoughtsUpTo(u, r)) /\ Cardinality(ThoughtsUpTo(u, r)) # 1
    BY <1>2, <2>1, <2>2, FS_Subset
  <2>4. Thoughts!Place(t, r) = 1
    BY <1>5, ThoughtsCardinality DEF Thoughts!Place
  <2> QED BY <1>2, <1>4, <2>3, <2>4
<1>6. CASE t # 0
  <2>1. ThoughtsUpTo(t, r) \in SUBSET ThoughtsUpTo(u, r)
        /\ ThoughtsUpTo(t, r) # ThoughtsUpTo(u, r)
    <3>1. t > u /\ Thoughts!Listed(r) \in SUBSET Int
      BY <1>3, <1>6 DEF ThoughtsBefore, Thoughts!Thought
    <3> QED BY <1>3, <3>1 DEF ThoughtsUpTo
  <2>2. Cardinality(ThoughtsUpTo(t, r)) \in Nat
    BY <1>1, ThoughtsFiniteRows
  <2>3. Cardinality(ThoughtsUpTo(t, r)) <= Cardinality(ThoughtsUpTo(u, r))
        /\ Cardinality(ThoughtsUpTo(t, r)) # Cardinality(ThoughtsUpTo(u, r))
    BY <1>2, <2>1, FS_Subset
  <2>4. Thoughts!Place(t, r) = Cardinality(ThoughtsUpTo(t, r))
    BY <1>6, ThoughtsCardinality DEF Thoughts!Place, ThoughtsUpTo
  <2> QED BY <1>2, <1>4, <2>2, <2>3, <2>4
<1> QED BY <1>5, <1>6

LEMMA ThoughtsPlaceInRange ==
  ASSUME NEW r, Thoughts!Listed(r) \in SUBSET (Thoughts!Thought \cup {0}),
             NEW t \in Thoughts!Listed(r)
  PROVE  Thoughts!Place(t, r) \in 1 .. Cardinality(Thoughts!Listed(r))
<1>1. IsFiniteSet(Thoughts!Listed(r)) /\ Cardinality(Thoughts!Listed(r)) \in Nat
  BY ThoughtsFiniteRows
<1>2. {t} \in SUBSET Thoughts!Listed(r) /\ Cardinality({t}) = 1
  BY FS_Singleton
<1>3. 1 <= Cardinality(Thoughts!Listed(r))
  BY <1>1, <1>2, FS_Subset
<1>4. CASE t = 0
  BY <1>1, <1>3, <1>4, ThoughtsCardinality DEF Thoughts!Place
<1>5. CASE t # 0
  <2>1. ThoughtsUpTo(t, r) \in SUBSET Thoughts!Listed(r) /\ {t} \in SUBSET ThoughtsUpTo(t, r)
    BY DEF ThoughtsUpTo, Thoughts!Thought
  <2>2. IsFiniteSet(ThoughtsUpTo(t, r)) /\ Cardinality(ThoughtsUpTo(t, r)) \in Nat
        /\ Cardinality(ThoughtsUpTo(t, r)) <= Cardinality(Thoughts!Listed(r))
    BY <1>1, <2>1, FS_Subset, FS_CardinalityType
  <2>3. 1 <= Cardinality(ThoughtsUpTo(t, r))
    BY <1>2, <2>1, <2>2, FS_Subset
  <2>4. Thoughts!Place(t, r) = Cardinality(ThoughtsUpTo(t, r))
    BY <1>5, ThoughtsCardinality DEF Thoughts!Place, ThoughtsUpTo
  <2> QED BY <1>1, <2>2, <2>3, <2>4
<1> QED BY <1>4, <1>5

\* Each place has a row.
LEMMA ThoughtsPlaceIsTaken ==
  ASSUME NEW r, Thoughts!Listed(r) \in SUBSET (Thoughts!Thought \cup {0}),
             NEW i \in 1 .. Cardinality(Thoughts!Listed(r))
  PROVE  \E t \in Thoughts!Listed(r) : Thoughts!Place(t, r) = i
<1> DEFINE L == Thoughts!Listed(r)
           n == Cardinality(L)
           f == [t \in L |-> Thoughts!Place(t, r)]
<1>1. IsFiniteSet(L) /\ n \in Nat
  BY ThoughtsFiniteRows
<1>2. f \in [L -> 1 .. n]
  BY ThoughtsPlaceInRange
<1>3. \A t, u \in L : f[t] = f[u] => t = u
  <2> SUFFICES ASSUME NEW t \in L, NEW u \in L, t # u
               PROVE  f[t] # f[u]
    OBVIOUS
  <2>1. ThoughtsBefore(t, u) \/ ThoughtsBefore(u, t)
    BY DEF ThoughtsBefore, Thoughts!Thought
  <2>2. Thoughts!Place(t, r) < Thoughts!Place(u, r) \/ Thoughts!Place(u, r) < Thoughts!Place(t, r)
    BY <2>1, ThoughtsPlaceInOrder
  <2>3. Thoughts!Place(t, r) \in Int /\ Thoughts!Place(u, r) \in Int
    BY ThoughtsPlaceInRange
  <2>4. Thoughts!Place(t, r) # Thoughts!Place(u, r)
    BY <2>2, <2>3
  <2> QED BY <2>4
<1>4. f \in Injection(L, 1 .. n)
  BY <1>2, <1>3 DEF Injection, IsInjective
<1>5. IsFiniteSet(1 .. n) /\ Cardinality(1 .. n) = n
  <2> HIDE DEF n
  <2>1. 1 \in Int /\ n \in Int
    BY <1>1
  <2>2. IsFiniteSet(1 .. n) /\ Cardinality(1 .. n) = IF 1 > n THEN 0 ELSE n - 1 + 1
    BY <2>1, FS_Interval
  <2> QED BY <1>1, <2>2
<1>6. f \in Surjection(L, 1 .. n)
  BY <1>4, <1>5, FS_Injection
<1>7. \E t \in L : f[t] = i
  BY <1>6 DEF Surjection
<1> QED BY <1>7

LEMMA ThoughtsSelectedRow ==
  ASSUME NEW r, Thoughts!Listed(r) \in SUBSET (Thoughts!Thought \cup {0}),
         r.index \in 1 .. Cardinality(Thoughts!Listed(r))
  PROVE  Thoughts!Selected(r) \in Thoughts!Listed(r)
         /\ Thoughts!Place(Thoughts!Selected(r), r) = r.index
<1>1. \E t \in Thoughts!Listed(r) : Thoughts!Place(t, r) = r.index
  BY ThoughtsPlaceIsTaken
<1> QED BY <1>1 DEF Thoughts!Selected

\* The first row is the newest Thought, if it is one, and the last row the oldest.
LEMMA ThoughtsEdgeRows ==
  ASSUME NEW r, Thoughts!Listed(r) \in SUBSET (Thoughts!Thought \cup {0}),
         r.index \in 1 .. Cardinality(Thoughts!Listed(r)), Thoughts!Selected(r) # 0
  PROVE  /\ r.index = 1 => \A u \in Thoughts!Listed(r) : u <= Thoughts!Selected(r)
         /\ r.index = Cardinality(Thoughts!Listed(r)) => \A u \in Thoughts!Listed(r) : u # 0 => u >= Thoughts!Selected(r)
<1>1. Thoughts!Selected(r) \in Thoughts!Listed(r)
      /\ Thoughts!Place(Thoughts!Selected(r), r) = r.index
  BY ThoughtsSelectedRow
<1>2. Cardinality(Thoughts!Listed(r)) \in Nat
  BY ThoughtsFiniteRows
<1>3. ASSUME NEW u \in Thoughts!Listed(r)
      PROVE  u \in Int /\ Thoughts!Selected(r) \in Int
             /\ Thoughts!Place(u, r) \in 1 .. Cardinality(Thoughts!Listed(r))
  BY <1>1, ThoughtsPlaceInRange DEF Thoughts!Thought
<1>4. ASSUME NEW u \in Thoughts!Listed(r), r.index = 1
      PROVE  u <= Thoughts!Selected(r)
  <2>1. ~(Thoughts!Place(u, r) < Thoughts!Place(Thoughts!Selected(r), r))
    BY <1>1, <1>2, <1>3, <1>4
  <2>2. ~ThoughtsBefore(u, Thoughts!Selected(r))
    BY <1>1, <2>1, ThoughtsPlaceInOrder
  <2> QED BY <1>3, <2>2 DEF ThoughtsBefore
<1>5. ASSUME NEW u \in Thoughts!Listed(r), u # 0, r.index = Cardinality(Thoughts!Listed(r))
      PROVE  u >= Thoughts!Selected(r)
  <2>1. ~(Thoughts!Place(Thoughts!Selected(r), r) < Thoughts!Place(u, r))
    BY <1>1, <1>2, <1>3, <1>5
  <2>2. ~ThoughtsBefore(Thoughts!Selected(r), u)
    BY <1>1, <2>1, ThoughtsPlaceInOrder
  <2> QED BY <1>3, <1>5, <2>2 DEF ThoughtsBefore
<1> QED BY <1>4, <1>5

\* There is a newest and an oldest.
LEMMA ThoughtsExtremes ==
  ASSUME NEW S \in SUBSET Thoughts!Thought, S # {}
  PROVE  (\E t \in S : \A u \in S : t <= u) /\ (\E t \in S : \A u \in S : u <= t)
<1> DEFINE r == [create |-> FALSE, shown |-> S]
           c == Cardinality(S)
<1>1. Thoughts!Listed(r) = S /\ S \in SUBSET (Thoughts!Thought \cup {0})
  BY DEF Thoughts!Listed
<1>2. c \in Nat /\ c # 0
  BY <1>1, ThoughtsFiniteRows, FS_EmptySet
<1> HIDE DEF r
<1>3. \A i \in 1 .. c : \E t \in S : Thoughts!Place(t, r) = i
  BY <1>1, ThoughtsPlaceIsTaken
<1>4. \A t, u \in S : ThoughtsBefore(t, u) => Thoughts!Place(t, r) < Thoughts!Place(u, r)
  BY <1>1, ThoughtsPlaceInOrder
<1>5. \A t \in S : Thoughts!Place(t, r) \in 1 .. c
  BY <1>1, ThoughtsPlaceInRange
<1>6. \A t, u \in S : t \in Int /\ u \in Int /\ (t > u => ThoughtsBefore(t, u))
  BY DEF Thoughts!Thought, ThoughtsBefore
<1> HIDE DEF c
<1>7. PICK t \in S : Thoughts!Place(t, r) = c
  BY <1>2, <1>3
<1>8. PICK v \in S : Thoughts!Place(v, r) = 1
  BY <1>2, <1>3
<1>9. \A u \in S : t <= u /\ u <= v
  <2> SUFFICES ASSUME NEW u \in S
               PROVE  t <= u /\ u <= v
    OBVIOUS
  <2>1. ~(Thoughts!Place(t, r) < Thoughts!Place(u, r))
        /\ ~(Thoughts!Place(u, r) < Thoughts!Place(v, r))
    BY <1>2, <1>5, <1>7, <1>8
  <2>2. ~(t > u) /\ ~(u > v)
    BY <1>4, <1>6, <2>1
  <2> QED BY <1>6, <2>2
<1> QED BY <1>9

-----------------------------------------------------------------------------
\* A batch is next to its cursor: what lies behind the cursor and is not in it is farther.
LEMMA ThoughtsItemsOfBatch ==
  ASSUME NEW m \in Thoughts!Message
  PROVE  /\ Thoughts!Items(m) \in SUBSET Thoughts!Behind(m)
         /\ Thoughts!Behind(m) \in SUBSET m.seen
         /\ Thoughts!Items(m) \in SUBSET Thoughts!Thought
         /\ m.cursor # Thoughts!First => \A t \in Thoughts!Behind(m) : IF m.move < 0 THEN t > m.cursor ELSE t < m.cursor
         /\ \A t \in m.seen : m.cursor = Thoughts!First => t \in Thoughts!Behind(m)
         /\ \A t \in m.seen : (m.move < 0 /\ t > m.cursor) \/ (~(m.move < 0) /\ t < m.cursor) => t \in Thoughts!Behind(m)
         /\ \A t \in Thoughts!Behind(m) : t \in Thoughts!Items(m) \/ (Thoughts!More(m) /\ \A u \in Thoughts!Items(m) : Thoughts!Nearer(m, u, t))
         /\ Thoughts!More(m) => Thoughts!Items(m) # {}
<1> DEFINE Count(t) == {w \in Thoughts!Behind(m) : Thoughts!Nearer(m, w, t)}
<1>1. m.seen \in SUBSET Thoughts!Thought /\ Thoughts!Behind(m) \in SUBSET m.seen
      /\ Thoughts!Items(m) \in SUBSET Thoughts!Behind(m)
  BY ThoughtsCardinality DEF Thoughts!Message, Thoughts!Behind, Thoughts!Items
<1>2. m.cursor # Thoughts!First => \A t \in Thoughts!Behind(m) : IF m.move < 0 THEN t > m.cursor ELSE t < m.cursor
  BY DEF Thoughts!Behind
<1>3. \A t \in m.seen : m.cursor = Thoughts!First => t \in Thoughts!Behind(m)
  BY DEF Thoughts!Behind
<1>4. \A t \in m.seen : (m.move < 0 /\ t > m.cursor) \/ (~(m.move < 0) /\ t < m.cursor)
        => t \in Thoughts!Behind(m)
  BY DEF Thoughts!Behind
<1>5. ASSUME NEW t \in Thoughts!Behind(m), t \notin Thoughts!Items(m), NEW u \in Thoughts!Items(m)
      PROVE  Thoughts!Nearer(m, u, t)
  <2>1. t \in Int /\ u \in Int /\ u \in Thoughts!Behind(m)
    BY <1>1 DEF Thoughts!Thought
  <2>2. Count(t) \in SUBSET (Thoughts!Thought \cup {0})
        /\ Count(u) \in SUBSET (Thoughts!Thought \cup {0})
    BY <1>1
  <2>3. /\ IsFiniteSet(Count(u)) /\ Cardinality(Count(u)) \in Nat
        /\ Cardinality(Count(t)) \in Nat
    BY <2>2, ThoughtsFiniteRows
  <2>4. Cardinality(Count(u)) < Batch /\ ~(Cardinality(Count(t)) < Batch)
    BY <1>5, ThoughtsCardinality DEF Thoughts!Items
  <2>5. ~(Count(t) \in SUBSET Count(u))
    <3> HIDE DEF Count
    <3> QED BY <2>3, <2>4, FS_Subset, ThoughtsAssumption
  <2>6. PICK w \in Thoughts!Behind(m) : Thoughts!Nearer(m, w, t) /\ ~Thoughts!Nearer(m, w, u)
    BY <2>5
  <2>7. w \in Int
    BY <1>1 DEF Thoughts!Thought
  <2>8. m.move < 0 \/ ~(m.move < 0)
    OBVIOUS
  <2> QED BY <2>1, <2>6, <2>7, <2>8 DEF Thoughts!Nearer
<1>6. \A t \in Thoughts!Behind(m) : t \in Thoughts!Items(m) \/ (Thoughts!More(m) /\ \A u \in Thoughts!Items(m) : Thoughts!Nearer(m, u, t))
  BY <1>5 DEF Thoughts!More
<1>7. ASSUME Thoughts!More(m)
      PROVE  Thoughts!Items(m) # {}
  <2>1. Thoughts!Behind(m) # {} /\ Thoughts!Behind(m) \in SUBSET Thoughts!Thought
    BY <1>1, <1>7 DEF Thoughts!More
  <2>2. PICK t \in Thoughts!Behind(m) : \A u \in Thoughts!Behind(m) : ~Thoughts!Nearer(m, u, t)
    <3>1. CASE m.move < 0
      <4>1. PICK t \in Thoughts!Behind(m) : \A u \in Thoughts!Behind(m) : t <= u
        BY <2>1, ThoughtsExtremes
      <4>2. \A u \in Thoughts!Behind(m) : ~Thoughts!Nearer(m, u, t)
        BY <2>1, <3>1, <4>1 DEF Thoughts!Nearer, Thoughts!Thought
      <4> QED BY <4>2
    <3>2. CASE ~(m.move < 0)
      <4>1. PICK t \in Thoughts!Behind(m) : \A u \in Thoughts!Behind(m) : u <= t
        BY <2>1, ThoughtsExtremes
      <4>2. \A u \in Thoughts!Behind(m) : ~Thoughts!Nearer(m, u, t)
        BY <2>1, <3>2, <4>1 DEF Thoughts!Nearer, Thoughts!Thought
      <4> QED BY <4>2
    <3> QED BY <3>1, <3>2
  <2>3. Count(t) = {}
    BY <2>2
  <2>4. Cardinality(Count(t)) < Batch
    BY <2>3, FS_EmptySet, ThoughtsAssumption
  <2> QED BY <2>4, ThoughtsCardinality DEF Thoughts!Items
<1> QED BY <1>1, <1>2, <1>3, <1>4, <1>6, <1>7

\* The rows of an edge lie beyond all others, and are not all of them.
LEMMA ThoughtsEdgeOfRows ==
  ASSUME NEW r \in Thoughts!Rows, NEW n \in Nat, NEW newest \in BOOLEAN
  PROVE  /\ Thoughts!Edge(r, n, newest) \in SUBSET r.shown
         /\ \A t \in Thoughts!Edge(r, n, newest), u \in r.shown \ Thoughts!Edge(r, n, newest) :
              IF newest THEN t > u ELSE t < u
         /\ n < Cardinality(r.shown) => r.shown \ Thoughts!Edge(r, n, newest) # {}
<1> DEFINE Beyond(t) == {u \in r.shown : IF newest THEN u > t ELSE u < t}
<1>1. r.shown \in SUBSET Thoughts!Thought /\ Thoughts!Thought \in SUBSET Int
  BY DEF Thoughts!Rows, Thoughts!Thought
<1>2. Thoughts!Edge(r, n, newest) \in SUBSET r.shown
  BY ThoughtsCardinality DEF Thoughts!Edge
<1>3. \A t : Beyond(t) \in SUBSET r.shown /\ Beyond(t) \in SUBSET (Thoughts!Thought \cup {0})
  BY <1>1
<1>4. \A t : IsFiniteSet(Beyond(t)) /\ Cardinality(Beyond(t)) \in Nat
  BY <1>3, ThoughtsFiniteRows
<1>5. ASSUME NEW t \in Thoughts!Edge(r, n, newest),
                 NEW u \in r.shown \ Thoughts!Edge(r, n, newest)
      PROVE  IF newest THEN t > u ELSE t < u
  <2>1. t \in Int /\ u \in Int
    BY <1>1, <1>2
  <2>2. Cardinality(Beyond(t)) < n /\ ~(Cardinality(Beyond(u)) < n)
    BY <1>5, ThoughtsCardinality DEF Thoughts!Edge
  <2>3. ~(Beyond(u) \in SUBSET Beyond(t))
    <3>1. Cardinality(Beyond(t)) \in Nat /\ Cardinality(Beyond(u)) \in Nat
      BY <1>4
    <3>2. Beyond(u) \in SUBSET Beyond(t) => Cardinality(Beyond(u)) <= Cardinality(Beyond(t))
      BY <1>4, FS_Subset
    <3> HIDE DEF Beyond
    <3> QED BY <2>2, <3>1, <3>2
  <2>4. PICK w \in r.shown : w \in Beyond(u) /\ w \notin Beyond(t)
    BY <2>3
  <2>5. w \in Int
    BY <1>1
  <2> QED BY <2>1, <2>4, <2>5
<1>6. ASSUME n < Cardinality(r.shown)
      PROVE  r.shown \ Thoughts!Edge(r, n, newest) # {}
  <2> DEFINE s == [r EXCEPT !.create = FALSE]
             c == Cardinality(r.shown)
  <2>1. Thoughts!Listed(s) = r.shown
    BY DEF Thoughts!Listed, Thoughts!Rows
  <2>2. IsFiniteSet(r.shown) /\ c \in Nat
    BY <1>1, ThoughtsFiniteRows
  <2>3. PICK last \in r.shown : Thoughts!Place(last, s) = IF newest THEN c ELSE 1
    <3>1. 1 \in 1 .. c /\ c \in 1 .. c
      BY <1>6, <2>2
    <3>2. Thoughts!Listed(s) \in SUBSET (Thoughts!Thought \cup {0})
          /\ Cardinality(Thoughts!Listed(s)) = c
      BY <1>1, <2>1
    <3> HIDE DEF s, c
    <3>3. \A i \in 1 .. c : \E t \in Thoughts!Listed(s) : Thoughts!Place(t, s) = i
      BY <3>2, ThoughtsPlaceIsTaken
    <3> QED BY <2>1, <3>1, <3>3
  <2>4. last \in Int /\ last # 0 /\ 0 \notin r.shown
    BY <1>1 DEF Thoughts!Thought
  <2>5. Thoughts!Place(last, s) = Cardinality({u \in r.shown : u >= last})
    <3>1. {u \in Thoughts!Listed(s) : u = 0 \/ u >= last} = {u \in r.shown : u >= last}
      BY <2>1, <2>4
    <3> QED BY <2>4, <3>1, ThoughtsCardinality DEF Thoughts!Place
  <2>6. {u \in r.shown : u >= last} \in SUBSET r.shown
    OBVIOUS
  <2>7. Cardinality(Beyond(last)) = c - 1
    <3>1. CASE newest
      <4>1. {u \in r.shown : u >= last} = r.shown
        BY <2>2, <2>3, <2>5, <2>6, <3>1, FS_Subset
      <4>2. ASSUME NEW u \in r.shown
            PROVE  u \in Beyond(last) <=> u # last
        <5>1. u \in Int /\ u >= last
          BY <1>1, <4>1
        <5> QED BY <2>4, <3>1, <5>1
      <4>3. Beyond(last) = r.shown \ {last}
        <5> HIDE DEF Beyond
        <5> QED BY <1>3, <4>2, Zenon
      <4> QED BY <2>2, <2>3, <4>3, FS_RemoveElement
    <3>2. CASE ~newest
      <4>1. Cardinality({u \in r.shown : u >= last}) = 1
        BY <2>3, <2>5, <3>2
      <4>2. IsFiniteSet({u \in r.shown : u >= last})
        BY <2>2, <2>6, FS_Subset
      <4>3. last \in {u \in r.shown : u >= last}
        BY <2>3, <2>4
      <4>4. {u \in r.shown : u >= last} = {last}
        BY <4>1, <4>2, <4>3, FS_Singleton
      <4>5. ASSUME NEW u \in r.shown
            PROVE  u \in Beyond(last) <=> u # last
        <5>1. u \in Int /\ (u >= last <=> u = last)
          BY <1>1, <4>4
        <5> QED BY <2>4, <3>2, <5>1
      <4>6. Beyond(last) = r.shown \ {last}
        <5> HIDE DEF Beyond
        <5> QED BY <1>3, <4>5, Zenon
      <4> QED BY <2>2, <2>3, <4>6, FS_RemoveElement
    <3> QED BY <3>1, <3>2
  <2>8. ~(Cardinality(Beyond(last)) < n)
    <3> HIDE DEF Beyond
    <3> QED BY <1>6, <2>2, <2>7
  <2> QED BY <2>3, <2>8, ThoughtsCardinality DEF Thoughts!Edge
<1> QED BY <1>2, <1>5, <1>6

\* What an eviction leaves: an edge that can be read again.
LEMMA ThoughtsEvictedRows ==
  ASSUME NEW r \in Thoughts!Rows, NEW newest \in BOOLEAN, Thoughts!Listed(r) # {},
         NEW e, e = Thoughts!Evicted(r, newest)
  PROVE  /\ e \in Thoughts!Rows /\ e.current = r.current /\ e.badge = r.badge /\ e.index = r.index
         /\ e.shown \in SUBSET r.shown /\ Thoughts!Listed(e) # {}
         /\ r.older => e.older
         /\ r.newer /\ ~r.create => e.newer /\ ~e.create
         /\ (r.newer <=> ~r.create) => (e.newer <=> ~e.create)
         /\ r.shown # {} => e.shown # {}
         /\ \A t \in r.shown \ e.shown :
              \/ e.older /\ \A u \in e.shown : t < u
              \/ e.newer /\ ~e.create /\ \A u \in e.shown : t > u
<1> DEFINE n == Thoughts!Excess(r)
           g == Thoughts!Edge(r, n, newest)
           s == r.shown \ g
           new == [r EXCEPT !.shown = s, !.newer = TRUE, !.create = FALSE]
           old == [r EXCEPT !.shown = s, !.older = TRUE]
<1>1. r.shown \in SUBSET Thoughts!Thought
  BY DEF Thoughts!Rows
<1>2. Cardinality(r.shown) \in Nat /\ 3 * Batch \in Nat /\ 3 * Batch > 0
  BY <1>1, ThoughtsFiniteRows, ThoughtsAssumption
<1>3. n \in Nat /\ (n # 0 => n < Cardinality(r.shown))
  <2> DEFINE b == 3 * Batch
             c == Cardinality(r.shown)
  <2>1. n = IF c > b THEN c - b ELSE 0
    BY ThoughtsCardinality DEF Thoughts!Excess
  <2>2. c \in Nat /\ b \in Nat /\ b > 0
    BY <1>2
  <2> HIDE DEF b, c, n
  <2> QED BY <2>1, <2>2 DEF c
<1>4. CASE n = 0
  BY <1>4 DEF Thoughts!Evicted
<1>5. CASE n # 0
  <2> HIDE DEF n
  <2>1. /\ g \in SUBSET r.shown
        /\ \A t \in g, u \in s : IF newest THEN t > u ELSE t < u
        /\ s # {}
    BY <1>3, <1>5, ThoughtsEdgeOfRows
  <2>2. s \in SUBSET Thoughts!Thought /\ s \in SUBSET r.shown /\ r.shown \ s = g
    BY <1>1, <2>1
  <2>3. Thoughts!Evicted(r, newest) = IF newest THEN new ELSE old
    BY <1>5 DEF Thoughts!Evicted, n
  <2> HIDE DEF s, g
  <2>4. new \in Thoughts!Rows /\ old \in Thoughts!Rows
    BY <2>2 DEF Thoughts!Rows
  <2>5. /\ new.shown = s /\ new.newer /\ ~new.create /\ new.older = r.older
        /\ new.current = r.current /\ new.badge = r.badge /\ new.index = r.index
        /\ old.shown = s /\ old.older /\ old.newer = r.newer /\ old.create = r.create
        /\ old.current = r.current /\ old.badge = r.badge /\ old.index = r.index
    BY DEF Thoughts!Rows
  <2>6. Thoughts!Listed(new) # {} /\ Thoughts!Listed(old) # {}
    BY <2>1, <2>5 DEF Thoughts!Listed
  <2> HIDE DEF new, old
  <2>7. CASE newest
    BY <2>1, <2>2, <2>3, <2>4, <2>5, <2>6, <2>7
  <2>8. CASE ~newest
    BY <2>1, <2>2, <2>3, <2>4, <2>5, <2>6, <2>8
  <2> QED BY <2>7, <2>8
<1> QED BY <1>4, <1>5

\* A Thought that is a row, or lies behind an edge that can be read.
ThoughtsReached(t, r) ==
  \/ t \in r.shown
  \/ r.older /\ \A u \in r.shown : t < u
  \/ r.newer /\ ~r.create /\ \A u \in r.shown : t > u

LEMMA ThoughtsEvictedReached ==
  ASSUME NEW r \in Thoughts!Rows, NEW newest \in BOOLEAN, Thoughts!Listed(r) # {}, NEW t,
             ThoughtsReached(t, r)
  PROVE  ThoughtsReached(t, Thoughts!Evicted(r, newest))
<1> DEFINE e == Thoughts!Evicted(r, newest)
<1>1. /\ e.shown \in SUBSET r.shown
      /\ r.older => e.older
      /\ r.newer /\ ~r.create => e.newer /\ ~e.create
      /\ \A w \in r.shown \ e.shown : ThoughtsReached(w, e)
  <2>1. /\ \A w \in r.shown \ e.shown :
             \/ e.older /\ \A u \in e.shown : w < u
             \/ e.newer /\ ~e.create /\ \A u \in e.shown : w > u
        /\ e.shown \in SUBSET r.shown
        /\ r.older => e.older
        /\ r.newer /\ ~r.create => e.newer /\ ~e.create
    BY ThoughtsEvictedRows
  <2> HIDE DEF e
  <2> QED BY <2>1 DEF ThoughtsReached
<1> HIDE DEF e
<1>2. ThoughtsReached(t, e)
  BY <1>1 DEF ThoughtsReached
<1> QED BY <1>2 DEF e

\* What a batch makes of the rows.
LEMMA ThoughtsMergedRows ==
  ASSUME x3 \in Thoughts!Rows, Thoughts!Listed(x3) # {}, Thoughts!EdgesOK,
         NEW m \in Thoughts!Message, m.kind = "window", Thoughts!Continues(m)
  PROVE  LET r == Thoughts!Merged(m)
         IN /\ r \in Thoughts!Rows /\ Thoughts!Listed(r) # {}
            /\ (r.newer <=> ~r.create) /\ (r.older => r.shown # {})
            /\ Marked \in r.shown =>
                 r.badge = (IF Marked \in Thoughts!Items(m) THEN m.mark ELSE x3.badge)
            /\ m.cursor = Thoughts!First => r.shown = Thoughts!Items(m) /\ r.current
            /\ m.cursor # Thoughts!First =>
                 /\ r.current = x3.current
                 /\ r.shown \in SUBSET (x3.shown \cup Thoughts!Items(m))
<1> DEFINE joined == [x3 EXCEPT !.shown = @ \cup Thoughts!Items(m),
                                  !.badge = IF Marked \in Thoughts!Items(m) THEN m.mark ELSE @]
           up == [joined EXCEPT !.newer = Thoughts!More(m), !.create = @ \/ ~Thoughts!More(m)]
           down == [joined EXCEPT !.older = Thoughts!More(m)]
<1>1. Thoughts!Items(m) \in SUBSET Thoughts!Thought /\ m.mark \in BOOLEAN
      /\ Thoughts!More(m) \in BOOLEAN
      /\ (Thoughts!More(m) => Thoughts!Items(m) # {})
  BY ThoughtsItemsOfBatch DEF Thoughts!Message, Thoughts!More
<1>2. CASE m.cursor = Thoughts!First
  <2> DEFINE b == m.mark /\ Marked \in Thoughts!Items(m)
             r == [Thoughts!NoRows EXCEPT !.shown = Thoughts!Items(m), !.older = Thoughts!More(m), !.current = TRUE,
                                 !.badge = b]
  <2>1. Thoughts!Merged(m) = r
    BY <1>2 DEF Thoughts!Merged
  <2>4. b \in BOOLEAN
    OBVIOUS
  <2>2. r \in Thoughts!Rows /\ r.create /\ r.shown = Thoughts!Items(m) /\ r.current /\ r.badge = b
        /\ ~r.newer /\ r.older = Thoughts!More(m)
    <3> HIDE DEF b
    <3>1. 1 \in Nat \ {0}
      OBVIOUS
    <3>2. Thoughts!NoRows \in Thoughts!Rows /\ Thoughts!NoRows.create = TRUE
          /\ Thoughts!NoRows.newer = FALSE /\ TRUE \in BOOLEAN
      BY <3>1 DEF Thoughts!NoRows, Thoughts!Rows
    <3> QED BY <1>1, <2>4, <3>2 DEF Thoughts!Rows
  <2> HIDE DEF r
  <2>3. 0 \in Thoughts!Listed(r)
    BY <2>2 DEF Thoughts!Listed
  <2> QED BY <1>1, <1>2, <2>1, <2>2, <2>3
<1>3. CASE m.cursor # Thoughts!First
  <2>1. joined \in Thoughts!Rows /\ joined.shown = x3.shown \cup Thoughts!Items(m)
        /\ joined.current = x3.current
        /\ joined.badge = (IF Marked \in Thoughts!Items(m) THEN m.mark ELSE x3.badge)
        /\ joined.create = x3.create /\ joined.newer = x3.newer
    BY <1>1 DEF Thoughts!Rows
  <2>2. /\ up \in Thoughts!Rows /\ up.shown = joined.shown /\ up.current = joined.current
        /\ up.badge = joined.badge /\ up.create = (joined.create \/ ~Thoughts!More(m))
        /\ up.newer = Thoughts!More(m)
        /\ down \in Thoughts!Rows /\ down.shown = joined.shown /\ down.current = joined.current
        /\ down.badge = joined.badge /\ down.create = joined.create
        /\ down.newer = joined.newer
    <3> HIDE DEF joined
    <3> QED BY <1>1, <2>1 DEF Thoughts!Rows
  <2>3. Thoughts!Merged(m) = IF m.move < 0 THEN Thoughts!Evicted(up, FALSE) ELSE Thoughts!Evicted(down, TRUE)
    BY <1>3 DEF Thoughts!Merged
  <2> HIDE DEF joined, up, down
  <2>4. Thoughts!Listed(up) # {} /\ Thoughts!Listed(down) # {}
    BY <2>1, <2>2 DEF Thoughts!Listed
  <2>9. up.shown # {} /\ down.shown # {} /\ (down.newer <=> ~down.create)
        /\ (m.move < 0 => (up.newer <=> ~up.create))
    <3>1. m.cursor \in x3.shown /\ (m.move < 0 => x3.newer)
      BY <1>3 DEF Thoughts!Continues
    <3> QED BY <2>1, <2>2, <3>1 DEF Thoughts!EdgesOK, Thoughts!Rows
  <2>5. ASSUME NEW s \in Thoughts!Rows, NEW newest \in BOOLEAN, Thoughts!Listed(s) # {},
                   s.shown = joined.shown,
               s.current = joined.current, s.badge = joined.badge,
               (s.newer <=> ~s.create), s.shown # {},
               Thoughts!Merged(m) = Thoughts!Evicted(s, newest)
        PROVE  LET r == Thoughts!Merged(m)
               IN /\ r \in Thoughts!Rows /\ Thoughts!Listed(r) # {} /\ r.badge = joined.badge
                  /\ r.current = joined.current /\ r.shown \in SUBSET joined.shown
                  /\ (r.newer <=> ~r.create) /\ r.shown # {}
    <3>0. PICK e : e = Thoughts!Evicted(s, newest)
      OBVIOUS
    <3>1. e \in Thoughts!Rows /\ Thoughts!Listed(e) # {} /\ e.badge = s.badge
          /\ e.current = s.current
          /\ e.shown \in SUBSET s.shown /\ (e.newer <=> ~e.create) /\ e.shown # {}
      BY ZenonT(60), <2>5, <3>0, ThoughtsEvictedRows
    <3>2. Thoughts!Merged(m) = e
      BY <2>5, <3>0
    <3> QED BY <2>5, <3>1, <3>2
  <2>6. LET r == Thoughts!Merged(m)
        IN /\ r \in Thoughts!Rows /\ Thoughts!Listed(r) # {} /\ r.badge = joined.badge
           /\ r.current = joined.current /\ r.shown \in SUBSET joined.shown
           /\ (r.newer <=> ~r.create) /\ r.shown # {}
    <3>1. CASE m.move < 0
      <4>1. Thoughts!Merged(m) = Thoughts!Evicted(up, FALSE) /\ FALSE \in BOOLEAN
        BY <2>3, <3>1
      <4> QED BY <2>2, <2>4, <2>5, <2>9, <3>1, <4>1
    <3>2. CASE ~(m.move < 0)
      <4>1. Thoughts!Merged(m) = Thoughts!Evicted(down, TRUE) /\ TRUE \in BOOLEAN
        BY <2>3, <3>2
      <4> QED BY <2>2, <2>4, <2>5, <2>9, <3>1, <4>1
    <3> QED BY <3>1, <3>2
  <2> QED BY <1>3, <2>1, <2>6
<1> QED BY <1>2, <1>3

\* And that no Thought is lost in it.
LEMMA ThoughtsMergedReached ==
  ASSUME x3 \in Thoughts!Rows, Thoughts!Listed(x3) # {}, NEW m \in Thoughts!Message,
         m.kind = "window", Thoughts!Continues(m),
         NEW t \in m.seen, m.cursor # Thoughts!First => ThoughtsReached(t, x3)
  PROVE  ThoughtsReached(t, Thoughts!Merged(m))
<1> DEFINE joined == [x3 EXCEPT !.shown = @ \cup Thoughts!Items(m),
                                  !.badge = IF Marked \in Thoughts!Items(m) THEN m.mark ELSE @]
           up == [joined EXCEPT !.newer = Thoughts!More(m), !.create = @ \/ ~Thoughts!More(m)]
           down == [joined EXCEPT !.older = Thoughts!More(m)]
<1>1. Thoughts!Items(m) \in SUBSET Thoughts!Thought /\ m.mark \in BOOLEAN
      /\ Thoughts!More(m) \in BOOLEAN
  BY ThoughtsItemsOfBatch DEF Thoughts!Message, Thoughts!More
<1>2. /\ Thoughts!Items(m) \in SUBSET Thoughts!Behind(m)
      /\ m.cursor # Thoughts!First => \A u \in Thoughts!Behind(m) : IF m.move < 0 THEN u > m.cursor ELSE u < m.cursor
      /\ m.cursor = Thoughts!First => t \in Thoughts!Behind(m)
      /\ (m.move < 0 /\ t > m.cursor) \/ (~(m.move < 0) /\ t < m.cursor) => t \in Thoughts!Behind(m)
      /\ t \in Thoughts!Behind(m) => t \in Thoughts!Items(m) \/ (Thoughts!More(m) /\ \A u \in Thoughts!Items(m) : Thoughts!Nearer(m, u, t))
  BY ThoughtsItemsOfBatch
<1>3. t \in Int /\ m.cursor \in Int /\ x3.shown \in SUBSET Int /\ Thoughts!Items(m) \in SUBSET Int
      /\ m.move \in Int
  BY <1>1 DEF Thoughts!Message, Thoughts!Rows, Thoughts!Thought
<1>4. CASE m.cursor = Thoughts!First
  <2> DEFINE r == [Thoughts!NoRows EXCEPT !.shown = Thoughts!Items(m), !.older = Thoughts!More(m), !.current = TRUE,
                                 !.badge = m.mark /\ Marked \in Thoughts!Items(m)]
  <2>1. Thoughts!Merged(m) = r
    BY <1>4 DEF Thoughts!Merged
  <2>2. r.shown = Thoughts!Items(m) /\ r.older = Thoughts!More(m)
    BY DEF Thoughts!NoRows
  <2>3. m.move = 0
    <3>1. m.cursor \notin x3.shown
      BY <1>4 DEF Thoughts!Rows, Thoughts!Thought, Thoughts!First
    <3> QED BY <3>1 DEF Thoughts!Continues
  <2>4. t \in Thoughts!Items(m) \/ (Thoughts!More(m) /\ \A u \in Thoughts!Items(m) : t < u)
    BY <1>2, <1>3, <1>4, <2>3 DEF Thoughts!Nearer
  <2> HIDE DEF r
  <2> QED BY <2>1, <2>2, <2>4 DEF ThoughtsReached
<1>5. CASE m.cursor # Thoughts!First
  <2>1. /\ m.cursor \in x3.shown
        /\ \/ m.move = -1 /\ \A u \in x3.shown : u <= m.cursor
           \/ m.move = 1 /\ \A u \in x3.shown : u >= m.cursor
    BY <1>5 DEF Thoughts!Continues
  <2>2. joined \in Thoughts!Rows /\ joined.shown = x3.shown \cup Thoughts!Items(m)
        /\ joined.create = x3.create /\ joined.older = x3.older /\ joined.newer = x3.newer
    BY <1>1 DEF Thoughts!Rows
  <2>3. /\ up \in Thoughts!Rows /\ up.shown = joined.shown
        /\ up.create = (joined.create \/ ~Thoughts!More(m))
        /\ up.older = joined.older /\ up.newer = Thoughts!More(m)
        /\ down \in Thoughts!Rows /\ down.shown = joined.shown /\ down.create = joined.create
        /\ down.older = Thoughts!More(m) /\ down.newer = joined.newer
    <3> HIDE DEF joined
    <3> QED BY <1>1, <2>2 DEF Thoughts!Rows
  <2>4. Thoughts!Merged(m) = IF m.move < 0 THEN Thoughts!Evicted(up, FALSE) ELSE Thoughts!Evicted(down, TRUE)
    BY <1>5 DEF Thoughts!Merged
  <2> HIDE DEF joined, up, down
  <2>5. Thoughts!Listed(up) # {} /\ Thoughts!Listed(down) # {}
    BY <2>1, <2>2, <2>3 DEF Thoughts!Listed
  <2>6. ThoughtsReached(t, x3)
    BY <1>5
  <2>7. CASE m.move = -1
    <3>1. \A u \in Thoughts!Items(m) : u > m.cursor
      BY <1>2, <1>5, <2>7
    <3>2. t > m.cursor => t \in Thoughts!Items(m) \/ (Thoughts!More(m) /\ \A u \in Thoughts!Items(m) : t > u)
      BY <1>2, <1>3, <2>7 DEF Thoughts!Nearer
    <3>3. ThoughtsReached(t, up)
      <4>1. CASE t \in x3.shown
        BY <2>2, <2>3, <4>1 DEF ThoughtsReached
      <4>2. CASE x3.older /\ \A u \in x3.shown : t < u
        <5>1. \A u \in Thoughts!Items(m) : t < u
          BY <1>3, <2>1, <3>1, <4>2
        <5> QED BY <2>2, <2>3, <4>2, <5>1 DEF ThoughtsReached
      <4>3. CASE x3.newer /\ ~x3.create /\ \A u \in x3.shown : t > u
        BY <2>1, <2>2, <2>3, <3>2, <4>3 DEF ThoughtsReached
      <4> QED BY <2>6, <4>1, <4>2, <4>3 DEF ThoughtsReached
    <3>4. ThoughtsReached(t, Thoughts!Evicted(up, FALSE))
      <4>1. FALSE \in BOOLEAN
        OBVIOUS
      <4> QED BY <4>1, <2>3, <2>5, <3>3, ThoughtsEvictedReached
    <3>5. m.move < 0
      BY <2>7
    <3>6. Thoughts!Merged(m) = Thoughts!Evicted(up, FALSE)
      BY <2>4, <3>5, Zenon
    <3> QED BY <3>4, <3>6, Zenon
  <2>8. CASE m.move = 1
    <3>1. \A u \in Thoughts!Items(m) : u < m.cursor
      BY <1>2, <1>5, <2>8
    <3>2. t < m.cursor => t \in Thoughts!Items(m) \/ (Thoughts!More(m) /\ \A u \in Thoughts!Items(m) : t < u)
      BY <1>2, <1>3, <2>8 DEF Thoughts!Nearer
    <3>3. ThoughtsReached(t, down)
      <4>1. CASE t \in x3.shown
        BY <2>2, <2>3, <4>1 DEF ThoughtsReached
      <4>2. CASE x3.older /\ \A u \in x3.shown : t < u
        BY <2>1, <2>2, <2>3, <3>2, <4>2 DEF ThoughtsReached
      <4>3. CASE x3.newer /\ ~x3.create /\ \A u \in x3.shown : t > u
        <5>1. \A u \in Thoughts!Items(m) : t > u
          BY <1>3, <2>1, <3>1, <4>3
        <5> QED BY <2>2, <2>3, <4>3, <5>1 DEF ThoughtsReached
      <4> QED BY <2>6, <4>1, <4>2, <4>3 DEF ThoughtsReached
    <3>4. ThoughtsReached(t, Thoughts!Evicted(down, TRUE))
      <4>1. TRUE \in BOOLEAN
        OBVIOUS
      <4> QED BY <4>1, <2>3, <2>5, <3>3, ThoughtsEvictedReached
    <3>5. ~(m.move < 0)
      BY <2>8
    <3>6. Thoughts!Merged(m) = Thoughts!Evicted(down, TRUE)
      BY <2>4, <3>5, Zenon
    <3> QED BY <3>4, <3>6, Zenon
  <2> QED BY <2>1, <2>7, <2>8
<1> QED BY <1>4, <1>5

-----------------------------------------------------------------------------
LEMMA ThoughtsInitIInv == Thoughts!Init => Thoughts!IInv
<1> SUFFICES ASSUME Thoughts!Init PROVE Thoughts!IInv
  OBVIOUS
<1>1. 1 \in Nat \ {0} /\ {} \in SUBSET Thoughts!Thought /\ TRUE \in BOOLEAN /\ FALSE \in BOOLEAN
  OBVIOUS
<1>2. Thoughts!NoRows \in Thoughts!Rows /\ Thoughts!NoRows.shown = {} /\ Thoughts!NoRows.create
      /\ ~Thoughts!NoRows.current
      /\ Thoughts!NoRows.index = 1 /\ (Thoughts!NoRows.newer <=> ~Thoughts!NoRows.create)
      /\ ~Thoughts!NoRows.older
  BY <1>1 DEF Thoughts!NoRows, Thoughts!Rows
<1>3. Thoughts!Listed(Thoughts!NoRows) = {0}
  BY <1>2 DEF Thoughts!Listed
<1>4. Thoughts!TypeOK
  BY <1>1, <1>2, ThoughtsAssumption
     DEF Thoughts!Init, Thoughts!TypeOK, Thoughts!Idle, Thoughts!None, Thoughts!At
<1>5. Thoughts!RowsOK /\ Thoughts!EdgesOK
  <2>1. Cardinality({0}) = 1 /\ x3 = Thoughts!NoRows
    BY FS_Singleton DEF Thoughts!Init
  <2> QED BY <1>2, <1>3, <2>1, ThoughtsCardinality DEF Thoughts!RowsOK, Thoughts!EdgesOK
<1>6. Thoughts!Seen /\ Thoughts!OneAnswer /\ Thoughts!ReadsOK /\ Thoughts!CreatesOK
  BY ThoughtsAssumption
     DEF Thoughts!Init, Thoughts!Seen, Thoughts!OneAnswer, Thoughts!Idle, Thoughts!ReadsOK,
         Thoughts!CreatesOK
<1>7. Thoughts!BadgesOK /\ Thoughts!OwnOK /\ Thoughts!NothingIsLost /\ Thoughts!AwaitedIsComing
  BY <1>2
     DEF Thoughts!Init, Thoughts!BadgesOK, Thoughts!OwnOK, Thoughts!NothingIsLost,
         Thoughts!AwaitedIsComing, Thoughts!Idle, Thoughts!Truly
<1> QED BY <1>4, <1>5, <1>6, <1>7 DEF Thoughts!IInv

LEMMA ThoughtsCommandType ==
  ASSUME NEW kind \in Thoughts!Kind, NEW cursor \in Thoughts!Thought \cup {0},
             NEW move \in {-1, 0, 1}
  PROVE  LET m == Thoughts!Command(kind, cursor, move)
         IN /\ m \in Thoughts!Message /\ m.kind = kind /\ m.cursor = cursor /\ m.move = move
            /\ m.live /\ ~m.ran
<1>1. {} \in SUBSET Thoughts!Thought /\ TRUE \in BOOLEAN /\ FALSE \in BOOLEAN
  OBVIOUS
<1> QED BY <1>1 DEF Thoughts!Command, Thoughts!Message

LEMMA ThoughtsDeadReadType ==
  Thoughts!DeadRead \in Thoughts!Message /\ ~Thoughts!DeadRead.live
    /\ Thoughts!DeadRead.kind = "window"
<1>1. "window" \in Thoughts!Kind /\ Thoughts!First \in Thoughts!Thought \cup {0}
      /\ 0 \in {-1, 0, 1}
  BY DEF Thoughts!Kind, Thoughts!First
<1> DEFINE m == Thoughts!Command("window", Thoughts!First, 0)
<1>2. m \in Thoughts!Message /\ m.kind = "window"
  BY <1>1, ThoughtsCommandType
<1> HIDE DEF m
<1>3. TRUE \in BOOLEAN /\ FALSE \in BOOLEAN
  OBVIOUS
<1>4. [m EXCEPT !.live = FALSE, !.ran = TRUE] \in Thoughts!Message
      /\ ~[m EXCEPT !.live = FALSE, !.ran = TRUE].live
      /\ [m EXCEPT !.live = FALSE, !.ran = TRUE].kind = "window"
  BY <1>2, <1>3 DEF Thoughts!Message
<1> QED BY <1>4 DEF Thoughts!DeadRead, m

\* While no change of mindset and no creation is under way, superseded reads are all there is.
LEMMA ThoughtsOnlyReads ==
  ASSUME Thoughts!IInv, ~x5.mindset, x2.at # "create" \/ ~x5.read
  PROVE  /\ \A m \in x7 : m.kind \notin {"create", "mindset"}
         /\ Thoughts!Superseded \in SUBSET {Thoughts!DeadRead}
<1>1. ASSUME NEW m \in x7
      PROVE  m.kind \notin {"create", "mindset"}
  <2>1. m.kind # "mindset"
    BY DEF Thoughts!IInv, Thoughts!OneAnswer
  <2>2. m.kind = "create" => Thoughts!Live(m)
    BY DEF Thoughts!IInv, Thoughts!CreatesOK, Thoughts!Live
  <2>3. m.kind = "create" => x5.read /\ Thoughts!Awaits(m)
    BY <2>2 DEF Thoughts!IInv, Thoughts!OneAnswer, Thoughts!ReadsOK
  <2>4. m.kind = "create" => x2.at = "create"
    BY <2>3 DEF Thoughts!Awaits
  <2> QED BY <2>1, <2>3, <2>4
<1> QED BY <1>1 DEF Thoughts!Superseded

\* What is shown of the designation is right, but for an old one that was brought back.
ThoughtsBadges ==
  /\ x3.current /\ Marked \in x3.shown => Thoughts!Truly("rows", x3.badge)
  /\ x2.at = "detail" /\ x6.thought = Marked => Thoughts!Truly("detail", x6.badge)

\* The reads before it were superseded, and perhaps one is asked for.
LEMMA ThoughtsAskPreserves ==
  ASSUME Thoughts!IInv, ~x5.mindset, x2.at # "create" \/ ~x5.read,
         UNCHANGED <<x1, x8, x9, x10, x11>>,
         NEW M \in SUBSET Thoughts!Message, \A m, n \in M : m = n,
         \A m \in M : m.live /\ ~m.ran /\ m.kind # "mindset" /\ Thoughts!Awaits(m)' /\ Thoughts!Continues(m)',
         x7' = Thoughts!Superseded \cup M,
         x5' \in [read : BOOLEAN, mindset : BOOLEAN], ~x5'.mindset, x5'.read <=> M # {},
         x2' \in [at : Thoughts!At, all : BOOLEAN], x3' \in Thoughts!Rows, x4' \in BOOLEAN,
         x6' \in [thought : Thoughts!Thought \cup {0}, badge : BOOLEAN],
         Thoughts!RowsOK', Thoughts!EdgesOK', ThoughtsBadges', Thoughts!NothingIsLost',
           x3'.current /\ ~x4' => x9 \subseteq x8
  PROVE  Thoughts!IInv'
<1>1. /\ \A m \in x7 : m.kind \notin {"create", "mindset"}
      /\ Thoughts!Superseded \in SUBSET {Thoughts!DeadRead}
  BY ThoughtsOnlyReads
<1>2. x7' \in SUBSET Thoughts!Message /\ \A m \in x7' : m \in M \/ (~m.live /\ m.kind = "window")
  BY <1>1, ThoughtsDeadReadType
<1>3. Thoughts!TypeOK'
  BY <1>2 DEF Thoughts!IInv, Thoughts!TypeOK
<1>4. Thoughts!Seen'
  BY DEF Thoughts!IInv, Thoughts!Seen
<1>5. Thoughts!OneAnswer'
  BY <1>2 DEF Thoughts!OneAnswer, Thoughts!Live
<1>6. Thoughts!ReadsOK'
  BY <1>2 DEF Thoughts!ReadsOK, Thoughts!Live, Thoughts!SawStore
<1>7. Thoughts!CreatesOK' /\ Thoughts!BadgesOK'
  BY <1>2 DEF Thoughts!CreatesOK, Thoughts!BadgesOK, ThoughtsBadges, Thoughts!Truly
<1>8. Thoughts!OwnOK'
  BY DEF Thoughts!OwnOK
<1>9. Thoughts!AwaitedIsComing'
  <2> SUFFICES ASSUME x5'.read
               PROVE  \E m \in x7' : m.kind \in {"window", "list", "get", "create"} /\ m.live
    BY DEF Thoughts!AwaitedIsComing, Thoughts!Coming
  <2>1. PICK m \in M : TRUE
    OBVIOUS
  <2>2. m.kind \in Thoughts!Kind \ {"mindset"}
    BY DEF Thoughts!Message
  <2> QED BY <2>1, <2>2 DEF Thoughts!Kind
<1> QED BY <1>3, <1>4, <1>5, <1>6, <1>7, <1>8, <1>9 DEF Thoughts!IInv

\* The read or the creation that was waited for is answered or refused.
LEMMA ThoughtsAnswerPreserves ==
  ASSUME Thoughts!IInv, NEW m \in x7, Thoughts!Live(m), x7' = x7 \ {m}, UNCHANGED <<x1, x9, x10>>,
         x11' \in SUBSET Thoughts!Places,
         x5' = [x5 EXCEPT !.read = FALSE],
         x2' \in [at : Thoughts!At, all : BOOLEAN], x3' \in Thoughts!Rows, x4' \in BOOLEAN,
         x6' \in [thought : Thoughts!Thought \cup {0}, badge : BOOLEAN],
         x8' \in SUBSET x1.thoughts,
         Thoughts!RowsOK', Thoughts!EdgesOK', ThoughtsBadges', Thoughts!NothingIsLost',
           x3'.current /\ ~x4' => x9 \subseteq x8'
  PROVE  Thoughts!IInv'
<1>1. x5.read /\ ~x5.mindset /\ x5' \in [read : BOOLEAN, mindset : BOOLEAN]
      /\ ~x5'.read /\ ~x5'.mindset
  BY DEF Thoughts!IInv, Thoughts!OneAnswer, Thoughts!TypeOK
<1>2. \A n \in x7' : n \in x7 /\ ~n.live /\ n.kind \notin {"create", "mindset"}
  <2> SUFFICES ASSUME NEW n \in x7, n # m
               PROVE  ~n.live /\ n.kind \notin {"create", "mindset"}
    OBVIOUS
  <2>1. ~Thoughts!Live(n)
    BY DEF Thoughts!IInv, Thoughts!OneAnswer
  <2>2. n.kind # "mindset"
    BY <1>1 DEF Thoughts!IInv, Thoughts!OneAnswer
  <2> QED BY <2>1, <2>2 DEF Thoughts!IInv, Thoughts!CreatesOK, Thoughts!Live
<1>3. Thoughts!TypeOK'
  BY <1>1, <1>2 DEF Thoughts!IInv, Thoughts!TypeOK
<1>4. Thoughts!Seen'
  BY DEF Thoughts!IInv, Thoughts!Seen
<1>5. Thoughts!OneAnswer' /\ Thoughts!ReadsOK' /\ Thoughts!CreatesOK'
  BY <1>1, <1>2 DEF Thoughts!OneAnswer, Thoughts!ReadsOK, Thoughts!CreatesOK, Thoughts!Live
<1>6. Thoughts!BadgesOK' /\ Thoughts!OwnOK' /\ Thoughts!AwaitedIsComing'
  BY <1>1, <1>2
     DEF Thoughts!BadgesOK, ThoughtsBadges, Thoughts!OwnOK, Thoughts!AwaitedIsComing,
         Thoughts!Truly
<1> QED BY <1>3, <1>4, <1>5, <1>6 DEF Thoughts!IInv

\* Facts of a state in which no change of mindset is under way.
LEMMA ThoughtsQuiet ==
  ASSUME Thoughts!IInv, ~x5.mindset
  PROVE  /\ ThoughtsBadges
         /\ x2.at # "create" \/ ~x5.read =>
              (x3.current /\ ~x4 => x9 \subseteq x8)
<1>1. \A m \in x7 : m.kind # "mindset"
  BY DEF Thoughts!IInv, Thoughts!OneAnswer
<1>2. ThoughtsBadges
  BY <1>1 DEF Thoughts!IInv, Thoughts!BadgesOK, ThoughtsBadges, Thoughts!Truly
<1>3. ASSUME x2.at # "create" \/ ~x5.read
      PROVE  x3.current /\ ~x4 => x9 \subseteq x8
  <2>1. Thoughts!NoneTaken
    BY <1>3, ThoughtsOnlyReads DEF Thoughts!NoneTaken
  <2> QED BY <2>1 DEF Thoughts!IInv, Thoughts!OwnOK
<1> QED BY <1>2, <1>3

-----------------------------------------------------------------------------
LEMMA ThoughtsNoRowsType ==
  /\ Thoughts!NoRows \in Thoughts!Rows /\ ~Thoughts!NoRows.current
  /\ (Thoughts!NoRows.newer <=> ~Thoughts!NoRows.create) /\ ~Thoughts!NoRows.older
  /\ Thoughts!Listed(Thoughts!NoRows) = {0} /\ Thoughts!NoRows.index = 1
  /\ Cardinality({0}) = 1
<1>1. 1 \in Nat \ {0} /\ {} \in SUBSET Thoughts!Thought /\ TRUE \in BOOLEAN /\ FALSE \in BOOLEAN
  OBVIOUS
<1>2. Thoughts!NoRows \in Thoughts!Rows /\ Thoughts!NoRows.shown = {} /\ Thoughts!NoRows.create
      /\ ~Thoughts!NoRows.current
      /\ Thoughts!NoRows.index = 1 /\ (Thoughts!NoRows.newer <=> ~Thoughts!NoRows.create)
      /\ ~Thoughts!NoRows.older
  BY <1>1 DEF Thoughts!NoRows, Thoughts!Rows
<1> QED BY <1>2, FS_Singleton DEF Thoughts!Listed

LEMMA ThoughtsOtherSessionPreserves ==
  ASSUME Thoughts!IInv, Thoughts!OtherSession
  PROVE  Thoughts!IInv'
<1>1. PICK t \in Thoughts!Thought : x1' = [x1 EXCEPT !.thoughts = @ \cup {t}]
  BY DEF Thoughts!OtherSession
<1>2. /\ x1' \in [thoughts : SUBSET Thoughts!Thought, mark : BOOLEAN]
      /\ x1.thoughts \in SUBSET x1'.thoughts /\ x1'.mark = x1.mark
  BY <1>1 DEF Thoughts!IInv, Thoughts!TypeOK
<1>3. UNCHANGED <<x2, x3, x4, x5, x6, x7, x8, x9, x10, x11>>
  BY DEF Thoughts!OtherSession, Thoughts!NoneChanged
<1>4. Thoughts!TypeOK' /\ Thoughts!RowsOK' /\ Thoughts!EdgesOK' /\ Thoughts!Seen'
  BY <1>2, <1>3, ThoughtsCardinality
     DEF Thoughts!IInv, Thoughts!TypeOK, Thoughts!RowsOK, Thoughts!EdgesOK, Thoughts!Seen,
         Thoughts!Listed
<1>5. Thoughts!OneAnswer' /\ Thoughts!CreatesOK' /\ Thoughts!OwnOK' /\ Thoughts!NothingIsLost'
      /\ Thoughts!AwaitedIsComing'
  BY <1>3
     DEF Thoughts!IInv, Thoughts!OneAnswer, Thoughts!CreatesOK, Thoughts!OwnOK,
         Thoughts!NoneTaken, Thoughts!NothingIsLost, Thoughts!AwaitedIsComing, Thoughts!Coming
<1>6. Thoughts!ReadsOK'
  BY <1>2, <1>3
     DEF Thoughts!IInv, Thoughts!ReadsOK, Thoughts!Awaits, Thoughts!Continues, Thoughts!SawStore
<1>7. Thoughts!BadgesOK'
  BY <1>2, <1>3 DEF Thoughts!IInv, Thoughts!BadgesOK, Thoughts!Truly
<1> QED BY <1>4, <1>5, <1>6, <1>7 DEF Thoughts!IInv

\* The rows are dropped and read anew.
LEMMA ThoughtsAnewPreserves ==
  ASSUME Thoughts!IInv, ~x5.mindset, x2.at # "create" \/ ~x5.read, Thoughts!Store,
         x3' = Thoughts!NoRows,
         NEW kind \in {"window", "list"},
         x2' \in [at : Thoughts!At, all : BOOLEAN], x2'.at = "browse",
         kind = "window" => x2'.all,
         x5' = [x5 EXCEPT !.read = TRUE], Thoughts!Ask(Thoughts!Command(kind, Thoughts!First, 0)),
         x4' \in BOOLEAN, x6' \in [thought : Thoughts!Thought \cup {0}, badge : BOOLEAN]
  PROVE  Thoughts!IInv'
<1> DEFINE m == Thoughts!Command(kind, Thoughts!First, 0)
<1>1. /\ m \in Thoughts!Message /\ m.kind = kind /\ m.cursor = Thoughts!First /\ m.move = 0
      /\ m.live /\ ~m.ran
  <2>1. kind \in Thoughts!Kind /\ Thoughts!First \in Thoughts!Thought \cup {0} /\ 0 \in {-1, 0, 1}
    BY DEF Thoughts!Kind, Thoughts!First
  <2> QED BY <2>1, ThoughtsCommandType
<1>2. x7' = Thoughts!Superseded \cup {m}
  BY DEF Thoughts!Ask
<1> HIDE DEF m
<1>3. UNCHANGED <<x1, x8, x9, x10, x11>>
  BY DEF Thoughts!Store, Thoughts!NoneChanged
<1>4. x5' \in [read : BOOLEAN, mindset : BOOLEAN] /\ ~x5'.mindset /\ x5'.read
  BY DEF Thoughts!IInv, Thoughts!TypeOK
<1>5. Thoughts!Awaits(m)' /\ Thoughts!Continues(m)'
  BY <1>1 DEF Thoughts!Awaits, Thoughts!Continues
<1>6. x3' \in Thoughts!Rows /\ Thoughts!RowsOK' /\ Thoughts!EdgesOK' /\ ~x3'.current
  BY ThoughtsNoRowsType, ThoughtsCardinality DEF Thoughts!RowsOK, Thoughts!EdgesOK
<1>7. ThoughtsBadges' /\ Thoughts!NothingIsLost'
  BY <1>6 DEF ThoughtsBadges, Thoughts!NothingIsLost, Thoughts!Truly
<1>8. \A x \in {m} : x.live /\ ~x.ran /\ x.kind # "mindset" /\ Thoughts!Awaits(x)' /\ Thoughts!Continues(x)'
  BY <1>1, <1>5
<1>9. {m} \in SUBSET Thoughts!Message /\ (\A x, y \in {m} : x = y) /\ (x5'.read <=> {m} # {})
  BY <1>1, <1>4
<1> QED BY <1>1, <1>2, <1>3, <1>4, <1>5, <1>6, <1>7, <1>8, <1>9, ThoughtsAskPreserves

LEMMA ThoughtsOpenPreserves ==
  ASSUME Thoughts!IInv, Thoughts!Open
  PROVE  Thoughts!IInv'
<1>1. PICK all \in BOOLEAN :
        /\ x2' = [at |-> "browse", all |-> all] /\ x3' = Thoughts!NoRows
        /\ x5' = [x5 EXCEPT !.read = TRUE]
        /\ Thoughts!Ask(Thoughts!Command(IF all THEN "window" ELSE "list", Thoughts!First, 0))
  BY DEF Thoughts!Open
<1> DEFINE kind == IF all THEN "window" ELSE "list"
<1>2. kind \in {"window", "list"} /\ (kind = "window" => all)
  OBVIOUS
<1>3. Thoughts!Ask(Thoughts!Command(kind, Thoughts!First, 0))
  BY <1>1
<1> HIDE DEF kind
<1>4. x2' \in [at : Thoughts!At, all : BOOLEAN] /\ x2'.at = "browse" /\ x2'.all = all
  BY <1>1 DEF Thoughts!At
<1>5. ~x5.mindset /\ x2.at # "create" /\ Thoughts!Store /\ x4' \in BOOLEAN
      /\ x6' \in [thought : Thoughts!Thought \cup {0}, badge : BOOLEAN]
  BY DEF Thoughts!Open, Thoughts!IInv, Thoughts!OneAnswer, Thoughts!TypeOK
<1> QED BY <1>1, <1>2, <1>3, <1>4, <1>5, ThoughtsAnewPreserves

\* No read is asked for, and the rows are left as they were.
LEMMA ThoughtsSettlePreserves ==
  ASSUME Thoughts!IInv, ~x5.mindset, x2.at # "create" \/ ~x5.read, Thoughts!Store,
         x7' = Thoughts!Superseded,
         x5' \in [read : BOOLEAN, mindset : BOOLEAN], ~x5'.mindset, ~x5'.read,
         x2' \in [at : Thoughts!At, all : BOOLEAN], x2'.at # "detail",
         x3' = x3, x4' = x4,
         x6' \in [thought : Thoughts!Thought \cup {0}, badge : BOOLEAN]
  PROVE  Thoughts!IInv'
<1> DEFINE M == {x \in Thoughts!Message : FALSE}
<1>1. M = {} /\ M \in SUBSET Thoughts!Message /\ x7' = Thoughts!Superseded \cup M
  OBVIOUS
<1> HIDE DEF M
<1>2. x3' \in Thoughts!Rows /\ Thoughts!RowsOK' /\ Thoughts!EdgesOK' /\ x4' \in BOOLEAN
      /\ UNCHANGED <<x1, x8, x9, x10, x11>>
  BY ThoughtsCardinality
     DEF Thoughts!IInv, Thoughts!TypeOK, Thoughts!RowsOK, Thoughts!EdgesOK, Thoughts!Listed,
         Thoughts!Store, Thoughts!NoneChanged
<1>3. ThoughtsBadges' /\ (x3'.current /\ ~x4' => x9 \subseteq x8)
  BY ThoughtsQuiet, <1>2 DEF ThoughtsBadges, Thoughts!Truly
<1>4. Thoughts!NothingIsLost'
  BY <1>2 DEF Thoughts!IInv, Thoughts!NothingIsLost
<1> QED BY <1>1, <1>2, <1>3, <1>4, ThoughtsAskPreserves

LEMMA ThoughtsLeavePreserves ==
  ASSUME Thoughts!IInv, Thoughts!Leave
  PROVE  Thoughts!IInv'
<1> DEFINE M == {x \in Thoughts!Message : FALSE}
<1>1. M = {} /\ M \in SUBSET Thoughts!Message /\ x7' = Thoughts!Superseded \cup M
  BY DEF Thoughts!Leave
<1> HIDE DEF M
<1>2. ~x5.mindset /\ x2.at # "create" /\ UNCHANGED <<x1, x8, x9, x10, x11>>
      /\ x4' \in BOOLEAN
  BY DEF Thoughts!Leave, Thoughts!Store, Thoughts!NoneChanged
<1>3. /\ x5' \in [read : BOOLEAN, mindset : BOOLEAN] /\ ~x5'.mindset /\ ~x5'.read
      /\ x2' \in [at : Thoughts!At, all : BOOLEAN] /\ x2'.at = "away"
      /\ x6' \in [thought : Thoughts!Thought \cup {0}, badge : BOOLEAN]
  BY DEF Thoughts!Leave, Thoughts!Idle, Thoughts!None, Thoughts!At
<1>4. x3' \in Thoughts!Rows /\ Thoughts!RowsOK' /\ Thoughts!EdgesOK' /\ ~x3'.current
  BY ThoughtsNoRowsType, ThoughtsCardinality DEF Thoughts!Leave, Thoughts!RowsOK, Thoughts!EdgesOK
<1>5. ThoughtsBadges' /\ Thoughts!NothingIsLost'
  BY <1>3, <1>4 DEF ThoughtsBadges, Thoughts!NothingIsLost, Thoughts!Truly
<1> QED BY <1>1, <1>2, <1>3, <1>4, <1>5, ThoughtsAskPreserves

\* A read is asked for with the rows as they are.
LEMMA ThoughtsReadPreserves ==
  ASSUME Thoughts!IInv, Thoughts!Store, ~x5.mindset, x2.at # "create" \/ ~x5.read,
         NEW m \in Thoughts!Message, m.live, ~m.ran, m.kind # "mindset",
         x5' = [x5 EXCEPT !.read = TRUE], Thoughts!Ask(m), x3' = x3, x4' = x4,
         x2' \in [at : Thoughts!At, all : BOOLEAN],
         x2'.at = "detail" => x2.at = "detail" /\ x6' = x6,
         x6' \in [thought : Thoughts!Thought \cup {0}, badge : BOOLEAN],
         Thoughts!Awaits(m)', Thoughts!Continues(m)
  PROVE  Thoughts!IInv'
<1>1. x7' = Thoughts!Superseded \cup {m}
  BY DEF Thoughts!Ask
<1>2. x3' \in Thoughts!Rows /\ Thoughts!RowsOK' /\ Thoughts!EdgesOK' /\ x4' \in BOOLEAN
      /\ UNCHANGED <<x1, x8, x9, x10, x11>>
  BY ThoughtsCardinality
     DEF Thoughts!IInv, Thoughts!TypeOK, Thoughts!RowsOK, Thoughts!EdgesOK, Thoughts!Listed,
         Thoughts!Store, Thoughts!NoneChanged
<1>3. x5' \in [read : BOOLEAN, mindset : BOOLEAN] /\ ~x5'.mindset /\ x5'.read
  BY DEF Thoughts!IInv, Thoughts!TypeOK
<1>4. ThoughtsBadges' /\ (x3'.current /\ ~x4' => x9 \subseteq x8)
  BY ThoughtsQuiet, <1>2 DEF ThoughtsBadges, Thoughts!Truly
<1>5. Thoughts!NothingIsLost'
  BY <1>2 DEF Thoughts!IInv, Thoughts!NothingIsLost
<1>6. Thoughts!Continues(m)'
  BY DEF Thoughts!Continues
<1>7. \A x \in {m} : x.live /\ ~x.ran /\ x.kind # "mindset" /\ Thoughts!Awaits(x)' /\ Thoughts!Continues(x)'
  BY <1>6
<1>8. {m} \in SUBSET Thoughts!Message /\ (\A x, y \in {m} : x = y) /\ (x5'.read <=> {m} # {})
  BY <1>3
<1> QED BY <1>1, <1>2, <1>3, <1>4, <1>5, <1>6, <1>7, <1>8, ThoughtsAskPreserves

\* What a key leaves as it was.
LEMMA ThoughtsUnchangedTypes ==
  ASSUME Thoughts!IInv
  PROVE  /\ x2 \in [at : Thoughts!At, all : BOOLEAN] /\ x4 \in BOOLEAN
         /\ x6 \in [thought : Thoughts!Thought \cup {0}, badge : BOOLEAN]
         /\ x3 \in Thoughts!Rows /\ x5 \in [read : BOOLEAN, mindset : BOOLEAN]
         /\ Thoughts!Listed(x3) \in SUBSET (Thoughts!Thought \cup {0}) /\ Thoughts!Listed(x3) # {}
         /\ x3.index \in 1 .. Cardinality(Thoughts!Listed(x3))
<1>1. x3 \in Thoughts!Rows
  BY DEF Thoughts!IInv, Thoughts!TypeOK
<1>2. Thoughts!Listed(x3) \in SUBSET (Thoughts!Thought \cup {0})
  BY <1>1, ThoughtsListedType
<1>3. Cardinality(Thoughts!Listed(x3)) \in Nat /\ x3.index \in Nat \ {0}
      /\ x3.index <= Cardinality(Thoughts!Listed(x3))
  BY <1>1, <1>2, ThoughtsFiniteRows, ThoughtsCardinality
     DEF Thoughts!IInv, Thoughts!RowsOK, Thoughts!Rows
<1> QED BY <1>1, <1>2, <1>3, ThoughtsCardinality
           DEF Thoughts!IInv, Thoughts!TypeOK, Thoughts!RowsOK

LEMMA ThoughtsReloadPreserves ==
  ASSUME Thoughts!IInv, ~x5.mindset, x2.at # "create" \/ ~x5.read, Thoughts!Store,
         IF x2.all THEN Thoughts!ReloadWindow ELSE Thoughts!ReloadList,
         x2' \in [at : Thoughts!At, all : BOOLEAN], x2'.at = "browse", x2'.all = x2.all,
         x4' = x4, x6' \in [thought : Thoughts!Thought \cup {0}, badge : BOOLEAN]
  PROVE  Thoughts!IInv'
<1>1. x4' \in BOOLEAN
  BY ThoughtsUnchangedTypes
<1>2. CASE x2.all
  <2>1. "window" \in {"window", "list"} /\ Thoughts!ReloadWindow
    BY <1>2
  <2> QED BY <1>1, <1>2, <2>1, ThoughtsAnewPreserves DEF Thoughts!ReloadWindow
<1>3. CASE ~x2.all
  <2> DEFINE m == Thoughts!Command("list", Thoughts!First, 0)
  <2>1. "list" \in Thoughts!Kind /\ Thoughts!First \in Thoughts!Thought \cup {0}
        /\ 0 \in {-1, 0, 1}
    BY DEF Thoughts!Kind, Thoughts!First
  <2>2. m \in Thoughts!Message /\ m.kind = "list" /\ m.live /\ ~m.ran
    BY <2>1, ThoughtsCommandType
  <2>3. x5' = [x5 EXCEPT !.read = TRUE] /\ Thoughts!Ask(m) /\ x3' = x3
    BY <1>3 DEF Thoughts!ReloadList
  <2> HIDE DEF m
  <2>4. Thoughts!Awaits(m)' /\ Thoughts!Continues(m)
    BY <2>2 DEF Thoughts!Awaits, Thoughts!Continues
  <2> QED BY <2>2, <2>3, <2>4, ThoughtsReadPreserves
<1> QED BY <1>2, <1>3

LEMMA ThoughtsRefreshPreserves ==
  ASSUME Thoughts!IInv, Thoughts!Refresh
  PROVE  Thoughts!IInv'
  BY ThoughtsUnchangedTypes, ThoughtsReloadPreserves DEF Thoughts!Refresh, Thoughts!Keys

LEMMA ThoughtsMovePreserves ==
  ASSUME Thoughts!IInv, Thoughts!Move
  PROVE  Thoughts!IInv'
<1>1. /\ x2.at = "browse" /\ x2.all /\ ~x5.mindset /\ ~x5.read /\ Thoughts!Store
      /\ UNCHANGED <<x2, x4, x6>>
  BY ThoughtsCardinality DEF Thoughts!Move, Thoughts!Ready, Thoughts!Keys
<1> DEFINE n == Cardinality(Thoughts!Listed(x3))
<1>2. PICK move \in {-1, 1} :
        \/ /\ (x3.index + move < 1 /\ x3.newer) \/ (x3.index + move > n /\ x3.older)
           /\ x5' = [x5 EXCEPT !.read = TRUE]
           /\ Thoughts!Ask(Thoughts!Command("window", Thoughts!Selected(x3), move))
           /\ UNCHANGED x3
        \/ /\ x3.index + move \in 1 .. n
           /\ x3' = [x3 EXCEPT !.index = x3.index + move]
           /\ UNCHANGED <<x5, x7>>
  BY ThoughtsCardinality DEF Thoughts!Move
<1>3. CASE /\ (x3.index + move < 1 /\ x3.newer) \/ (x3.index + move > n /\ x3.older)
           /\ x5' = [x5 EXCEPT !.read = TRUE]
           /\ Thoughts!Ask(Thoughts!Command("window", Thoughts!Selected(x3), move))
           /\ UNCHANGED x3
  <2>1. Thoughts!Selected(x3) \in Thoughts!Listed(x3)
        /\ Thoughts!Listed(x3) \in SUBSET (Thoughts!Thought \cup {0})
    BY ThoughtsUnchangedTypes, ThoughtsSelectedRow
  <2>2. "window" \in Thoughts!Kind /\ move \in {-1, 0, 1}
    BY DEF Thoughts!Kind
  <2>3. PICK m \in Thoughts!Message :
          /\ m = Thoughts!Command("window", Thoughts!Selected(x3), move) /\ m.kind = "window"
          /\ m.cursor = Thoughts!Selected(x3) /\ m.move = move /\ m.live /\ ~m.ran
    BY <2>1, <2>2, ThoughtsCommandType
  <2>4. x3.index \in 1 .. n /\ n \in Nat
    BY ThoughtsUnchangedTypes, ThoughtsFiniteRows
  <2>5. (move = -1 /\ x3.index = 1 /\ x3.newer) \/ (move = 1 /\ x3.index = n /\ x3.older)
    <3> HIDE DEF n
    <3> QED BY <1>3, <2>4
  <2>6. Thoughts!Selected(x3) \in x3.shown => Thoughts!Continues(m)
    <3> SUFFICES ASSUME Thoughts!Selected(x3) \in x3.shown
                 PROVE  Thoughts!Continues(m)
      OBVIOUS
    <3>1. 0 \notin x3.shown /\ x3.shown \in SUBSET Thoughts!Listed(x3)
      BY ThoughtsUnchangedTypes DEF Thoughts!Rows, Thoughts!Thought, Thoughts!Listed
    <3>2. /\ x3.index = 1 => \A u \in Thoughts!Listed(x3) : u <= Thoughts!Selected(x3)
          /\ x3.index = n => \A u \in Thoughts!Listed(x3) : u # 0 => u >= Thoughts!Selected(x3)
      BY <3>1, ThoughtsUnchangedTypes, ThoughtsEdgeRows
    <3> HIDE DEF n
    <3> QED BY <2>3, <2>5, <3>1, <3>2 DEF Thoughts!Continues
  <2>7. Thoughts!Selected(x3) \in x3.shown
    <3>1. Thoughts!Selected(x3) = 0 => x3.create /\ x3.older /\ n = 1 /\ 0 \in Thoughts!Listed(x3)
      <4>1. Thoughts!Selected(x3) = 0 => x3.create /\ x3.index = 1
        <5>1. Thoughts!Place(Thoughts!Selected(x3), x3) = x3.index /\ 0 \notin x3.shown
          BY ThoughtsUnchangedTypes, ThoughtsSelectedRow DEF Thoughts!Rows, Thoughts!Thought
        <5> QED BY <2>1, <5>1, ThoughtsCardinality DEF Thoughts!Place, Thoughts!Listed
      <4>2. Thoughts!Selected(x3) = 0 => ~x3.newer
        BY <4>1 DEF Thoughts!IInv, Thoughts!EdgesOK
      <4> QED BY <2>1, <2>5, <4>1, <4>2
    <3>2. Thoughts!Selected(x3) = 0 => FALSE
      <4> SUFFICES ASSUME Thoughts!Selected(x3) = 0
                   PROVE  FALSE
        OBVIOUS
      <4>1. PICK u \in x3.shown : TRUE
        BY <3>1 DEF Thoughts!IInv, Thoughts!EdgesOK
      <4>2. u \in Thoughts!Listed(x3) /\ u # 0
        BY <4>1, ThoughtsUnchangedTypes DEF Thoughts!Listed, Thoughts!Rows, Thoughts!Thought
      <4>3. Thoughts!Place(0, x3) < Thoughts!Place(u, x3)
        BY <3>1, <4>2, ThoughtsUnchangedTypes, ThoughtsPlaceInOrder DEF ThoughtsBefore
      <4>4. Thoughts!Place(u, x3) \in 1 .. n /\ Thoughts!Place(0, x3) \in 1 .. n
        BY <3>1, <4>2, ThoughtsUnchangedTypes, ThoughtsPlaceInRange
      <4> HIDE DEF n
      <4> QED BY <3>1, <4>3, <4>4
    <3> QED BY <2>1, <3>2 DEF Thoughts!Listed
  <2>8. Thoughts!Awaits(m)'
    <3>1. x2' = x2
      BY <1>1
    <3> QED BY <1>1, <2>3, <3>1 DEF Thoughts!Awaits
  <2> QED BY <1>1, <1>3, <2>3, <2>6, <2>7, <2>8, ThoughtsUnchangedTypes, ThoughtsReadPreserves
<1>4. CASE /\ x3.index + move \in 1 .. n
           /\ x3' = [x3 EXCEPT !.index = x3.index + move]
           /\ UNCHANGED <<x5, x7>>
  <2>1. x3' \in Thoughts!Rows /\ x3'.index \in 1 .. n /\ x3'.shown = x3.shown
        /\ x3'.create = x3.create /\ x3'.older = x3.older /\ x3'.newer = x3.newer
        /\ x3'.current = x3.current /\ x3'.badge = x3.badge
    <3>1. n \in Nat
      BY ThoughtsUnchangedTypes, ThoughtsFiniteRows
    <3>2. x3.index + move \in 1 .. n /\ x3.index + move \in Nat \ {0}
      BY <1>4, <3>1
    <3> HIDE DEF n
    <3> QED BY <1>4, <3>2, ThoughtsUnchangedTypes DEF Thoughts!Rows
  <2>2. Thoughts!Listed(x3') = Thoughts!Listed(x3)
    BY <2>1 DEF Thoughts!Listed
  <2>3. n \in Nat /\ UNCHANGED <<x1, x8, x9, x10, x11>>
    BY ThoughtsUnchangedTypes, ThoughtsFiniteRows, <1>1 DEF Thoughts!Store, Thoughts!NoneChanged
  <2>4. Thoughts!RowsOK' /\ Thoughts!EdgesOK' /\ Thoughts!TypeOK'
    BY <1>1, <1>4, <2>1, <2>2, <2>3, ThoughtsCardinality
       DEF Thoughts!IInv, Thoughts!RowsOK, Thoughts!EdgesOK, Thoughts!TypeOK
  <2>5. Thoughts!Seen' /\ Thoughts!OneAnswer' /\ Thoughts!CreatesOK' /\ Thoughts!AwaitedIsComing'
    BY <1>1, <1>4, <2>3
       DEF Thoughts!IInv, Thoughts!Seen, Thoughts!OneAnswer, Thoughts!CreatesOK,
           Thoughts!AwaitedIsComing, Thoughts!Coming
  <2>6. Thoughts!ReadsOK'
    BY <1>1, <1>4, <2>1, <2>3
       DEF Thoughts!IInv, Thoughts!ReadsOK, Thoughts!Awaits, Thoughts!Continues,
           Thoughts!SawStore
  <2>7. Thoughts!BadgesOK' /\ Thoughts!OwnOK' /\ Thoughts!NothingIsLost'
    BY <1>1, <1>4, <2>1, <2>3
       DEF Thoughts!IInv, Thoughts!BadgesOK, Thoughts!OwnOK, Thoughts!NoneTaken,
           Thoughts!NothingIsLost, Thoughts!Truly
  <2> QED BY <2>4, <2>5, <2>6, <2>7 DEF Thoughts!IInv
<1> QED BY <1>2, <1>3, <1>4

LEMMA ThoughtsEnterRowPreserves ==
  ASSUME Thoughts!IInv, Thoughts!EnterRow
  PROVE  Thoughts!IInv'
<1>1. /\ x2.at = "browse" /\ ~x5.mindset /\ ~x5.read /\ Thoughts!Store
  BY DEF Thoughts!EnterRow, Thoughts!Ready, Thoughts!Keys
<1>2. PICK t \in Thoughts!Row \ {0} : Thoughts!GetThought(t)
  BY DEF Thoughts!EnterRow
<1>3. t \in Thoughts!Thought
  <2>1. Thoughts!Selected(x3) \in Thoughts!Listed(x3)
        /\ Thoughts!Listed(x3) \in SUBSET (Thoughts!Thought \cup {0})
    BY ThoughtsUnchangedTypes, ThoughtsSelectedRow
  <2> QED BY <1>2, <2>1, ThoughtsUnchangedTypes DEF Thoughts!Row, Thoughts!Rows
<1>4. PICK m \in Thoughts!Message : m = Thoughts!Command("get", t, 0) /\ m.kind = "get" /\ m.live
           /\ ~m.ran
  <2>1. "get" \in Thoughts!Kind /\ 0 \in {-1, 0, 1}
    BY DEF Thoughts!Kind
  <2> QED BY <1>3, <2>1, ThoughtsCommandType
<1>5. /\ x5' = [x5 EXCEPT !.read = TRUE] /\ Thoughts!Ask(m)
      /\ UNCHANGED <<x2, x3, x4, x6>>
  BY <1>2, <1>4 DEF Thoughts!GetThought
<1>6. Thoughts!Awaits(m)' /\ Thoughts!Continues(m)
  BY <1>1, <1>4, <1>5 DEF Thoughts!Awaits, Thoughts!Continues
<1> QED BY <1>1, <1>4, <1>5, <1>6, ThoughtsUnchangedTypes, ThoughtsReadPreserves

LEMMA ThoughtsReloadDetailPreserves ==
  ASSUME Thoughts!IInv, Thoughts!ReloadDetail
  PROVE  Thoughts!IInv'
<1>1. /\ x2.at = "detail" /\ ~x5.mindset /\ ~x5.read /\ Thoughts!Store
  BY DEF Thoughts!ReloadDetail, Thoughts!Ready, Thoughts!Keys
<1>2. x6.thought \in Thoughts!Thought \cup {0}
  BY ThoughtsUnchangedTypes
<1>3. PICK m \in Thoughts!Message :
        m = Thoughts!Command("get", x6.thought, 0) /\ m.kind = "get" /\ m.live /\ ~m.ran
  <2>1. "get" \in Thoughts!Kind /\ 0 \in {-1, 0, 1}
    BY DEF Thoughts!Kind
  <2> QED BY <1>2, <2>1, ThoughtsCommandType
<1>4. /\ x5' = [x5 EXCEPT !.read = TRUE] /\ Thoughts!Ask(m)
      /\ UNCHANGED <<x2, x3, x4, x6>>
  BY <1>3 DEF Thoughts!ReloadDetail, Thoughts!GetThought
<1>5. Thoughts!Awaits(m)' /\ Thoughts!Continues(m)
  BY <1>1, <1>3, <1>4 DEF Thoughts!Awaits, Thoughts!Continues
<1> QED BY <1>1, <1>3, <1>4, <1>5, ThoughtsUnchangedTypes, ThoughtsReadPreserves

LEMMA ThoughtsSavePreserves ==
  ASSUME Thoughts!IInv, Thoughts!Save
  PROVE  Thoughts!IInv'
<1>1. /\ x2.at = "create" /\ ~x5.mindset /\ ~x5.read /\ Thoughts!Store
  BY DEF Thoughts!Save, Thoughts!Ready, Thoughts!Keys
<1>2. PICK m \in Thoughts!Message :
        m = Thoughts!Command("create", Thoughts!First, 0) /\ m.kind = "create" /\ m.live /\ ~m.ran
  <2>1. "create" \in Thoughts!Kind /\ 0 \in {-1, 0, 1}
        /\ Thoughts!First \in Thoughts!Thought \cup {0}
    BY DEF Thoughts!Kind, Thoughts!First
  <2> QED BY <2>1, ThoughtsCommandType
<1>3. /\ x5' = [x5 EXCEPT !.read = TRUE] /\ Thoughts!Ask(m)
      /\ UNCHANGED <<x2, x3, x4, x6>>
  BY <1>2 DEF Thoughts!Save
<1>4. Thoughts!Awaits(m)' /\ Thoughts!Continues(m)
  BY <1>1, <1>2, <1>3 DEF Thoughts!Awaits, Thoughts!Continues
<1> QED BY <1>1, <1>2, <1>3, <1>4, ThoughtsUnchangedTypes, ThoughtsReadPreserves

LEMMA ThoughtsEnterCreatePreserves ==
  ASSUME Thoughts!IInv, Thoughts!EnterCreate
  PROVE  Thoughts!IInv'
<1>1. x2' \in [at : Thoughts!At, all : BOOLEAN] /\ x2'.at # "detail"
  BY ThoughtsUnchangedTypes DEF Thoughts!EnterCreate, Thoughts!At
<1> QED BY <1>1, ThoughtsUnchangedTypes, ThoughtsSettlePreserves
           DEF Thoughts!EnterCreate, Thoughts!Ready, Thoughts!Keys

LEMMA ThoughtsDiscardPreserves ==
  ASSUME Thoughts!IInv, Thoughts!Discard
  PROVE  Thoughts!IInv'
<1>1. x2' \in [at : Thoughts!At, all : BOOLEAN] /\ x2'.at # "detail"
  BY ThoughtsUnchangedTypes DEF Thoughts!Discard, Thoughts!At
<1> QED BY <1>1, ThoughtsUnchangedTypes, ThoughtsSettlePreserves
           DEF Thoughts!Discard, Thoughts!Ready, Thoughts!Keys

LEMMA ThoughtsLeaveDetailPreserves ==
  ASSUME Thoughts!IInv, Thoughts!LeaveDetail
  PROVE  Thoughts!IInv'
<1>1. x2' \in [at : Thoughts!At, all : BOOLEAN] /\ x2'.at = "browse" /\ x2'.all = x2.all
      /\ x6' \in [thought : Thoughts!Thought \cup {0}, badge : BOOLEAN]
  BY ThoughtsUnchangedTypes DEF Thoughts!LeaveDetail, Thoughts!At, Thoughts!None
<1>2. x2.at = "detail" /\ ~x5.mindset /\ Thoughts!Store /\ x4' = x4
  BY DEF Thoughts!LeaveDetail, Thoughts!Keys
<1>3. CASE ~x4
  <2>1. x7' = Thoughts!Superseded /\ x3' = x3
    BY <1>3 DEF Thoughts!LeaveDetail
  <2>2. x5' \in [read : BOOLEAN, mindset : BOOLEAN] /\ ~x5'.mindset /\ ~x5'.read
    BY <1>2, <1>3, ThoughtsUnchangedTypes DEF Thoughts!LeaveDetail
  <2> QED BY <1>1, <1>2, <2>1, <2>2, ThoughtsSettlePreserves
<1>4. CASE x4
  BY <1>1, <1>2, <1>4, ThoughtsReloadPreserves DEF Thoughts!LeaveDetail
<1> QED BY <1>3, <1>4

LEMMA ThoughtsSetMindsetPreserves ==
  ASSUME Thoughts!IInv, Thoughts!SetMindset
  PROVE  Thoughts!IInv'
<1> DEFINE shown == IF x2.at = "detail" THEN x6.badge ELSE x3.badge
<1>1. /\ x2.at \in {"browse", "detail"} /\ ~x5.mindset /\ ~x5.read
      /\ UNCHANGED <<x1, x8, x9, x10, x11, x2, x3, x4, x6>>
      /\ x5' = [x5 EXCEPT !.mindset = TRUE]
      /\ x7' = x7 \cup {[Thoughts!Command("mindset", Thoughts!First, 0) EXCEPT !.mark = ~shown]}
  BY DEF Thoughts!SetMindset, Thoughts!MayMark, Thoughts!Store, Thoughts!NoneChanged
<1>2. PICK m \in Thoughts!Message :
        /\ m = [Thoughts!Command("mindset", Thoughts!First, 0) EXCEPT !.mark = ~shown]
        /\ m.kind = "mindset" /\ m.live /\ ~m.ran
  <2>1. "mindset" \in Thoughts!Kind /\ 0 \in {-1, 0, 1}
        /\ Thoughts!First \in Thoughts!Thought \cup {0}
    BY DEF Thoughts!Kind, Thoughts!First
  <2>2. PICK c \in Thoughts!Message :
          c = Thoughts!Command("mindset", Thoughts!First, 0) /\ c.kind = "mindset" /\ c.live
            /\ ~c.ran
    BY <2>1, ThoughtsCommandType
  <2>5. shown \in BOOLEAN
    BY ThoughtsUnchangedTypes DEF Thoughts!Rows
  <2> HIDE DEF shown
  <2>3. (~shown) \in BOOLEAN
    BY <2>5
  <2>4. [c EXCEPT !.mark = ~shown] \in Thoughts!Message
        /\ [c EXCEPT !.mark = ~shown].kind = "mindset"
        /\ [c EXCEPT !.mark = ~shown].live /\ ~[c EXCEPT !.mark = ~shown].ran
    BY <2>2, <2>3 DEF Thoughts!Message
  <2> QED BY <2>2, <2>4
<1>3. x7' = x7 \cup {m}
  BY <1>1, <1>2
<1>4. \A n \in x7 : n.kind # "mindset" /\ ~Thoughts!Live(n) /\ n.kind # "create"
  BY <1>1, ThoughtsOnlyReads DEF Thoughts!IInv, Thoughts!OneAnswer
<1>5. x5' \in [read : BOOLEAN, mindset : BOOLEAN] /\ x5'.mindset /\ ~x5'.read
  BY <1>1, ThoughtsUnchangedTypes
<1>6. Thoughts!TypeOK' /\ Thoughts!RowsOK' /\ Thoughts!EdgesOK' /\ Thoughts!Seen'
  BY <1>1, <1>3, <1>5, ThoughtsCardinality
     DEF Thoughts!IInv, Thoughts!TypeOK, Thoughts!RowsOK, Thoughts!EdgesOK, Thoughts!Seen,
         Thoughts!Listed
<1>7. Thoughts!OneAnswer'
  BY <1>1, <1>2, <1>3, <1>4, <1>5 DEF Thoughts!OneAnswer, Thoughts!Live
<1>8. Thoughts!ReadsOK' /\ Thoughts!CreatesOK'
  BY <1>2, <1>3, <1>4 DEF Thoughts!ReadsOK, Thoughts!CreatesOK, Thoughts!Live
<1>9. Thoughts!NothingIsLost' /\ Thoughts!AwaitedIsComing'
  BY <1>1, <1>2, <1>3, <1>5
     DEF Thoughts!IInv, Thoughts!NothingIsLost, Thoughts!AwaitedIsComing, Thoughts!Coming
<1>10. Thoughts!BadgesOK' /\ Thoughts!OwnOK'
  <2>1. ThoughtsBadges /\ (x3.current /\ ~x4 => x9 \subseteq x8)
    BY <1>1, ThoughtsQuiet
  <2> QED BY <1>1, <1>2, <1>3, <1>4, <2>1
             DEF ThoughtsBadges, Thoughts!BadgesOK, Thoughts!OwnOK, Thoughts!Truly
<1> QED BY <1>6, <1>7, <1>8, <1>9, <1>10 DEF Thoughts!IInv

-----------------------------------------------------------------------------
LEMMA ThoughtsDropPreserves ==
  ASSUME Thoughts!IInv, NEW m \in x7, Thoughts!Drop(m)
  PROVE  Thoughts!IInv'
<1>1. /\ x7' = x7 \ {m}
      /\ UNCHANGED <<x1, x2, x3, x4, x5, x6, x8, x9, x10, x11>>
  BY DEF Thoughts!Drop, Thoughts!NoneChanged
<1>2. ~m.live /\ m.kind # "mindset" /\ m.kind # "create"
  <2>1. m.kind # "mindset" /\ (m.kind # "window" => ~m.live)
        /\ (m.kind = "window" => ~m.live \/ ~x2.all)
    BY DEF Thoughts!Drop, Thoughts!Owned
  <2>2. m.kind = "window" /\ m.live => x2.all
    BY DEF Thoughts!IInv, Thoughts!ReadsOK, Thoughts!Live, Thoughts!Awaits
  <2> QED BY <2>1, <2>2 DEF Thoughts!IInv, Thoughts!CreatesOK
<1>3. Thoughts!TypeOK' /\ Thoughts!RowsOK' /\ Thoughts!EdgesOK' /\ Thoughts!Seen'
      /\ Thoughts!NothingIsLost'
  BY <1>1, ThoughtsCardinality
     DEF Thoughts!IInv, Thoughts!TypeOK, Thoughts!RowsOK, Thoughts!EdgesOK, Thoughts!Seen,
         Thoughts!Listed, Thoughts!NothingIsLost
<1>4. Thoughts!OneAnswer' /\ Thoughts!CreatesOK'
  BY <1>1 DEF Thoughts!IInv, Thoughts!OneAnswer, Thoughts!CreatesOK
<1>5. Thoughts!ReadsOK'
  BY <1>1
     DEF Thoughts!IInv, Thoughts!ReadsOK, Thoughts!Awaits, Thoughts!Continues, Thoughts!SawStore
<1>6. Thoughts!BadgesOK' /\ Thoughts!OwnOK'
  BY <1>1, <1>2
     DEF Thoughts!IInv, Thoughts!BadgesOK, Thoughts!OwnOK, Thoughts!NoneTaken, Thoughts!Truly
<1>7. Thoughts!AwaitedIsComing'
  BY <1>1, <1>2 DEF Thoughts!IInv, Thoughts!AwaitedIsComing, Thoughts!Coming
<1> QED BY <1>3, <1>4, <1>5, <1>6, <1>7 DEF Thoughts!IInv

\* A command that ran is as far as the others can tell still under way.
LEMMA ThoughtsRanPreserves ==
  ASSUME Thoughts!IInv, NEW m \in x7, ~m.ran, NEW a \in Thoughts!Message,
         x7' = (x7 \ {m}) \cup {a},
         a.kind = m.kind, a.move = m.move, a.live = m.live, a.ran,
         a.kind # "create" => a.cursor = m.cursor,
         UNCHANGED <<x2, x3, x4, x5, x6, x8, x10, x11>>,
         x1' \in [thoughts : SUBSET Thoughts!Thought, mark : BOOLEAN],
           x9' \in SUBSET Thoughts!Thought,
         x1.thoughts \in SUBSET x1'.thoughts, x9' \in SUBSET x1'.thoughts,
         Thoughts!Live(m) => Thoughts!SawStore(a)',
         \A n \in x7 \ {m} : Thoughts!Live(n) => x9' = x9 /\ x1'.mark = x1.mark,
         x9' = x9 \/ m.kind = "create",
         IF m.kind = "mindset" THEN x1'.mark = a.mark ELSE x1'.mark = x1.mark
  PROVE  Thoughts!IInv'
<1>1. Thoughts!TypeOK' /\ Thoughts!RowsOK' /\ Thoughts!EdgesOK' /\ Thoughts!Seen'
      /\ Thoughts!NothingIsLost'
  BY ThoughtsCardinality
     DEF Thoughts!IInv, Thoughts!TypeOK, Thoughts!RowsOK, Thoughts!EdgesOK, Thoughts!Seen,
         Thoughts!Listed, Thoughts!NothingIsLost
<1>2. Thoughts!OneAnswer'
  BY DEF Thoughts!IInv, Thoughts!OneAnswer, Thoughts!Live
<1>3. Thoughts!ReadsOK'
  <2> SUFFICES ASSUME NEW n \in x7', Thoughts!Live(n)
               PROVE  Thoughts!Awaits(n)' /\ Thoughts!Continues(n)' /\ Thoughts!SawStore(n)'
    BY DEF Thoughts!ReadsOK, Thoughts!Live
  <2>1. CASE n = a
    <3>1. Thoughts!Live(m)
      BY <2>1 DEF Thoughts!Live
    <3>2. Thoughts!Awaits(m) /\ Thoughts!Continues(m)
      BY <3>1 DEF Thoughts!IInv, Thoughts!ReadsOK
    <3>3. Thoughts!Awaits(n)'
      BY <2>1, <3>2 DEF Thoughts!Awaits
    <3>4. Thoughts!Continues(n)'
      BY <2>1, <3>2 DEF Thoughts!Continues
    <3> QED BY <2>1, <3>1, <3>3, <3>4
  <2>2. CASE n \in x7 \ {m}
    <3>1. Thoughts!Awaits(n) /\ Thoughts!Continues(n) /\ Thoughts!SawStore(n)
      BY <2>2 DEF Thoughts!IInv, Thoughts!ReadsOK
    <3>2. x9' = x9 /\ x1'.mark = x1.mark
      BY <2>2
    <3> QED BY <3>1, <3>2 DEF Thoughts!Awaits, Thoughts!Continues, Thoughts!SawStore
  <2> QED BY <2>1, <2>2
<1>4. Thoughts!CreatesOK'
  BY DEF Thoughts!IInv, Thoughts!CreatesOK
<1>5. Thoughts!BadgesOK'
  <2>1. CASE m.kind = "mindset"
    <3>1. \A n \in x7' : n.kind = "mindset" => n = a
      BY <2>1 DEF Thoughts!IInv, Thoughts!OneAnswer
    <3> QED BY <2>1, <3>1 DEF Thoughts!BadgesOK, Thoughts!Truly
  <2>2. CASE m.kind # "mindset"
    BY <2>2 DEF Thoughts!IInv, Thoughts!BadgesOK, Thoughts!Truly
  <2> QED BY <2>1, <2>2
<1>6. Thoughts!OwnOK'
  BY DEF Thoughts!IInv, Thoughts!OwnOK, Thoughts!NoneTaken
<1>7. Thoughts!AwaitedIsComing'
  BY DEF Thoughts!IInv, Thoughts!AwaitedIsComing, Thoughts!Coming
<1> QED BY <1>1, <1>2, <1>3, <1>4, <1>5, <1>6, <1>7 DEF Thoughts!IInv

\* The answer that a command becomes.
ThoughtsRanAs(a, c) ==
  /\ a = [c EXCEPT !.ran = TRUE] /\ a.ran
  /\ a.kind = c.kind /\ a.move = c.move /\ a.live = c.live /\ a.cursor = c.cursor
  /\ a.seen = c.seen /\ a.mark = c.mark

LEMMA ThoughtsRanType ==
  ASSUME NEW c \in Thoughts!Message
  PROVE  \E a \in Thoughts!Message : ThoughtsRanAs(a, c)
<1> DEFINE a == [c EXCEPT !.ran = TRUE]
<1>1. TRUE \in BOOLEAN
  OBVIOUS
<1>2. a \in Thoughts!Message
  BY <1>1 DEF Thoughts!Message
<1>3. ThoughtsRanAs(a, c)
  BY Zenon DEF Thoughts!Message, ThoughtsRanAs
<1> QED BY <1>2, <1>3

LEMMA ThoughtsRunPreserves ==
  ASSUME Thoughts!IInv, NEW m \in x7, Thoughts!Run(m)
  PROVE  Thoughts!IInv'
<1>1. /\ ~m.ran /\ UNCHANGED <<x2, x3, x4, x5, x6, x8, x10, x11>>
      /\ m \in Thoughts!Message
      /\ x1 \in [thoughts : SUBSET Thoughts!Thought, mark : BOOLEAN]
      /\ x9 \in SUBSET Thoughts!Thought
      /\ x8 \subseteq x1.thoughts /\ x9 \subseteq x1.thoughts
      /\ Marked \in x1.thoughts
  BY DEF Thoughts!Run, Thoughts!NoneChanged, Thoughts!IInv, Thoughts!TypeOK, Thoughts!Seen
<1>2. TRUE \in BOOLEAN
  OBVIOUS
<1>3. CASE /\ m.kind \in {"window", "list"} /\ UNCHANGED <<x1, x9>>
           /\ Thoughts!Ran(m, [m EXCEPT !.seen = x1.thoughts, !.mark = x1.mark])
  <2> DEFINE c == [m EXCEPT !.seen = x1.thoughts, !.mark = x1.mark]
  <2>1. c \in Thoughts!Message /\ c.kind = m.kind /\ c.move = m.move /\ c.live = m.live
        /\ c.cursor = m.cursor /\ c.seen = x1.thoughts /\ c.mark = x1.mark
    BY <1>1 DEF Thoughts!Message
  <2>2. x7' = (x7 \ {m}) \cup {[c EXCEPT !.ran = TRUE]}
    BY <1>3 DEF Thoughts!Ran
  <2> HIDE DEF c
  <2>3. PICK a \in Thoughts!Message : ThoughtsRanAs(a, c)
    BY ThoughtsRanType, <2>1, <2>2
  <2>4. Thoughts!SawStore(a)'
    BY <1>1, <1>3, <2>1, <2>3 DEF Thoughts!SawStore, ThoughtsRanAs
  <2> QED BY <1>1, <1>3, <2>1, <2>2, <2>3, <2>4, ThoughtsRanPreserves DEF ThoughtsRanAs
<1>4. CASE /\ m.kind = "get" /\ UNCHANGED <<x1, x9>>
           /\ Thoughts!Ran(m, [m EXCEPT !.mark = x1.mark])
  <2> DEFINE c == [m EXCEPT !.mark = x1.mark]
  <2>1. c \in Thoughts!Message /\ c.kind = m.kind /\ c.move = m.move /\ c.live = m.live
        /\ c.cursor = m.cursor /\ c.mark = x1.mark
    BY <1>1 DEF Thoughts!Message
  <2>2. x7' = (x7 \ {m}) \cup {[c EXCEPT !.ran = TRUE]}
    BY <1>4 DEF Thoughts!Ran
  <2> HIDE DEF c
  <2>3. PICK a \in Thoughts!Message : ThoughtsRanAs(a, c)
    BY ThoughtsRanType, <2>1, <2>2
  <2>4. Thoughts!SawStore(a)'
    BY <1>1, <1>4, <2>1, <2>3 DEF Thoughts!SawStore, ThoughtsRanAs
  <2> QED BY <1>1, <1>4, <2>1, <2>2, <2>3, <2>4, ThoughtsRanPreserves DEF ThoughtsRanAs
<1>5. CASE /\ m.kind = "create"
           /\ \E t \in Thoughts!Thought \ x1.thoughts :
                /\ x1' = [x1 EXCEPT !.thoughts = @ \cup {t}]
                /\ x9' = x9 \cup {t}
                /\ Thoughts!Ran(m, [m EXCEPT !.cursor = t])
  <2>1. PICK t \in Thoughts!Thought \ x1.thoughts :
                /\ x1' = [x1 EXCEPT !.thoughts = @ \cup {t}]
                /\ x9' = x9 \cup {t}
                /\ Thoughts!Ran(m, [m EXCEPT !.cursor = t])
    BY <1>5
  <2> DEFINE c == [m EXCEPT !.cursor = t]
  <2>2. c \in Thoughts!Message /\ c.kind = m.kind /\ c.move = m.move /\ c.live = m.live
        /\ c.cursor = t
    BY <1>1 DEF Thoughts!Message
  <2>3. x7' = (x7 \ {m}) \cup {[c EXCEPT !.ran = TRUE]}
    BY <2>1 DEF Thoughts!Ran
  <2> HIDE DEF c
  <2>4. PICK a \in Thoughts!Message : ThoughtsRanAs(a, c)
    BY ThoughtsRanType, <2>1, <2>2
  <2>5. Thoughts!SawStore(a)'
    BY <1>1, <1>5, <2>2, <2>4 DEF Thoughts!SawStore, ThoughtsRanAs
  <2>6. Thoughts!Live(m)
    BY <1>5 DEF Thoughts!IInv, Thoughts!CreatesOK, Thoughts!Live
  <2>7. \A n \in x7 \ {m} : ~Thoughts!Live(n)
    BY <2>6 DEF Thoughts!IInv, Thoughts!OneAnswer
  <2>8. x1' \in [thoughts : SUBSET Thoughts!Thought, mark : BOOLEAN] /\ x1'.mark = x1.mark
        /\ x1.thoughts \in SUBSET x1'.thoughts /\ t \in x1'.thoughts
    BY <1>1, <2>1
  <2>9. x9' \in SUBSET Thoughts!Thought /\ x9' \in SUBSET x1'.thoughts
    BY <1>1, <2>1, <2>8
  <2> QED BY <1>1, <1>5, <2>2, <2>3, <2>4, <2>5, <2>7, <2>8, <2>9, ThoughtsRanPreserves
             DEF ThoughtsRanAs
<1>6. CASE /\ m.kind = "mindset" /\ UNCHANGED x9
           /\ x1' = [x1 EXCEPT !.mark = m.mark]
           /\ Thoughts!Ran(m, m)
  <2>1. x7' = (x7 \ {m}) \cup {[m EXCEPT !.ran = TRUE]}
    BY <1>6 DEF Thoughts!Ran
  <2>2. PICK a \in Thoughts!Message : ThoughtsRanAs(a, m)
    BY ThoughtsRanType, <1>1
  <2>3. ~Thoughts!Live(m) /\ \A n \in x7 : ~Thoughts!Live(n)
    BY <1>6 DEF Thoughts!IInv, Thoughts!OneAnswer, Thoughts!Live
  <2>4. x1' \in [thoughts : SUBSET Thoughts!Thought, mark : BOOLEAN] /\ x1'.mark = m.mark
        /\ x1'.thoughts = x1.thoughts
    BY <1>1, <1>6 DEF Thoughts!Message
  <2> QED BY <1>1, <1>6, <2>1, <2>2, <2>3, <2>4, ThoughtsRanPreserves DEF ThoughtsRanAs
<1> QED BY <1>3, <1>4, <1>5, <1>6 DEF Thoughts!Run

LEMMA ThoughtsAnswered ==
  ASSUME Thoughts!IInv, NEW m \in x7, Thoughts!Take(m), m.kind # "mindset"
  PROVE  /\ Thoughts!Live(m) /\ m \in Thoughts!Message /\ x5.read /\ ~x5.mindset
         /\ Thoughts!Awaits(m) /\ Thoughts!Continues(m)
         /\ Thoughts!SawStore(m) /\ x7' = x7 \ {m} /\ ThoughtsBadges /\ m.ran
         /\ m.kind # "create" => (x3.current /\ ~x4 => x9 \subseteq x8)
<1>1. m.live /\ m.ran /\ x7' = x7 \ {m}
  BY
     DEF Thoughts!Take, Thoughts!Owned, Thoughts!IInv, Thoughts!TypeOK, Thoughts!Message,
         Thoughts!Kind
<1>2. Thoughts!Live(m)
  BY <1>1 DEF Thoughts!Live
<1>3. m \in Thoughts!Message /\ x5.read /\ ~x5.mindset /\ Thoughts!Awaits(m)
      /\ Thoughts!Continues(m) /\ Thoughts!SawStore(m)
  BY <1>2 DEF Thoughts!IInv, Thoughts!TypeOK, Thoughts!OneAnswer, Thoughts!ReadsOK
<1>4. ThoughtsBadges
  BY <1>3, ThoughtsQuiet
<1>5. m.kind # "create" => Thoughts!NoneTaken
  BY <1>2
     DEF Thoughts!IInv, Thoughts!OneAnswer, Thoughts!CreatesOK, Thoughts!NoneTaken, Thoughts!Live
<1>6. m.kind # "create" => (x3.current /\ ~x4 => x9 \subseteq x8)
  BY <1>5 DEF Thoughts!IInv, Thoughts!OwnOK
<1> QED BY <1>1, <1>2, <1>3, <1>4, <1>6

LEMMA ThoughtsTakeThoughtPreserves ==
  ASSUME Thoughts!IInv, NEW m \in x7, Thoughts!TakeThought(m)
  PROVE  Thoughts!IInv'
<1>1. /\ m.kind = "get" /\ Thoughts!Take(m) /\ x5' = [x5 EXCEPT !.read = FALSE]
      /\ x6' = [thought |-> m.cursor, badge |-> m.cursor = Marked /\ m.mark]
      /\ x2' = [x2 EXCEPT !.at = "detail"]
      /\ UNCHANGED <<x1, x3, x4, x8, x9, x10>>
      /\ x11' = x11 \ {"detail"}
  BY DEF Thoughts!TakeThought, Thoughts!ShowDetail, Thoughts!Read
<1>2. /\ Thoughts!Live(m) /\ m \in Thoughts!Message /\ Thoughts!SawStore(m) /\ x7' = x7 \ {m}
      /\ ThoughtsBadges /\ m.ran
      /\ (x3.current /\ ~x4 => x9 \subseteq x8)
  BY <1>1, ThoughtsAnswered
<1>3. m.mark = x1.mark
  BY <1>1, <1>2 DEF Thoughts!SawStore
<1>4. (m.cursor = Marked /\ m.mark) \in BOOLEAN
  BY Zenon
<1>5. /\ x6' \in [thought : Thoughts!Thought \cup {0}, badge : BOOLEAN]
      /\ x6'.thought = Marked => x6'.badge = x1.mark
  <2>1. m.cursor \in Thoughts!Thought \cup {0} /\ m.mark \in BOOLEAN
    BY <1>2 DEF Thoughts!Message
  <2>2. x6' \in [thought : Thoughts!Thought \cup {0}, badge : BOOLEAN]
    BY <1>1, <1>4, <2>1
  <2>3. x6'.thought = Marked => x6'.badge = m.mark
    BY <1>1, <2>1
  <2> QED BY <1>3, <2>2, <2>3
<1>6. /\ x2' \in [at : Thoughts!At, all : BOOLEAN] /\ x3' \in Thoughts!Rows /\ x4' \in BOOLEAN
      /\ x8' \in SUBSET x1.thoughts /\ x11' \in SUBSET Thoughts!Places
  BY <1>1, ThoughtsUnchangedTypes DEF Thoughts!IInv, Thoughts!Seen, Thoughts!At, Thoughts!TypeOK
<1>7. Thoughts!RowsOK' /\ Thoughts!EdgesOK' /\ Thoughts!NothingIsLost'
  BY <1>1, ThoughtsCardinality
     DEF Thoughts!IInv, Thoughts!RowsOK, Thoughts!EdgesOK, Thoughts!NothingIsLost,
         Thoughts!Listed
<1>8. ThoughtsBadges'
  BY <1>1, <1>2, <1>5 DEF ThoughtsBadges, Thoughts!Truly
<1> QED BY <1>1, <1>2, <1>5, <1>6, <1>7, <1>8, ThoughtsAnswerPreserves

LEMMA ThoughtsTakeCreatedPreserves ==
  ASSUME Thoughts!IInv, NEW m \in x7, Thoughts!TakeCreated(m)
  PROVE  Thoughts!IInv'
<1>1. /\ m.kind = "create" /\ Thoughts!Take(m) /\ x5' = [x5 EXCEPT !.read = FALSE]
      /\ x6' = [thought |-> m.cursor, badge |-> FALSE]
      /\ x2' = [x2 EXCEPT !.at = "detail"] /\ x4'
      /\ x4' \in BOOLEAN /\ UNCHANGED <<x1, x3, x8, x9, x10, x11>>
  BY
     DEF Thoughts!TakeCreated, Thoughts!NoneChanged, Thoughts!ShowDetail, Thoughts!Read,
         Thoughts!AfterCreation
<1>2. /\ Thoughts!Live(m) /\ m \in Thoughts!Message /\ Thoughts!SawStore(m) /\ x7' = x7 \ {m}
      /\ ThoughtsBadges /\ m.ran
  BY <1>1, ThoughtsAnswered
<1>3. m.cursor # Marked
  BY <1>1, <1>2 DEF Thoughts!SawStore
<1>4. /\ x6' \in [thought : Thoughts!Thought \cup {0}, badge : BOOLEAN]
      /\ x6'.thought # Marked
  BY <1>1, <1>2, <1>3 DEF Thoughts!Message
<1>5. /\ x2' \in [at : Thoughts!At, all : BOOLEAN] /\ x3' \in Thoughts!Rows
      /\ x8' \in SUBSET x1.thoughts /\ x11' \in SUBSET Thoughts!Places
  BY <1>1, ThoughtsUnchangedTypes DEF Thoughts!IInv, Thoughts!Seen, Thoughts!At, Thoughts!TypeOK
<1>6. Thoughts!RowsOK' /\ Thoughts!EdgesOK' /\ Thoughts!NothingIsLost'
  BY <1>1, ThoughtsCardinality
     DEF Thoughts!IInv, Thoughts!RowsOK, Thoughts!EdgesOK, Thoughts!NothingIsLost,
         Thoughts!Listed
<1>7. ThoughtsBadges'
  BY <1>1, <1>2, <1>4 DEF ThoughtsBadges, Thoughts!Truly
<1> QED BY <1>1, <1>2, <1>4, <1>5, <1>6, <1>7, ThoughtsAnswerPreserves

LEMMA ThoughtsTakeListPreserves ==
  ASSUME Thoughts!IInv, NEW m \in x7, Thoughts!TakeList(m)
  PROVE  Thoughts!IInv'
<1> DEFINE b == m.mark /\ Marked \in m.seen
<1>1. /\ m.kind = "list" /\ Thoughts!Take(m) /\ x5' = [x5 EXCEPT !.read = FALSE]
      /\ x3' = [Thoughts!NoRows EXCEPT !.shown = m.seen, !.current = TRUE, !.badge = b]
      /\ x4' = FALSE /\ x8' = m.seen /\ UNCHANGED <<x1, x2, x6, x9, x10>>
      /\ x11' = x11 \ {"rows"}
  BY DEF Thoughts!TakeList, Thoughts!Read
<1>2. /\ Thoughts!Live(m) /\ m \in Thoughts!Message /\ Thoughts!SawStore(m) /\ x7' = x7 \ {m}
      /\ ThoughtsBadges /\ m.ran
      /\ Thoughts!Awaits(m)
  BY <1>1, ThoughtsAnswered
<1>3. m.mark = x1.mark /\ x9 \subseteq m.seen
  BY <1>1, <1>2 DEF Thoughts!SawStore
<1>10. m.seen \in SUBSET x1.thoughts
  BY <1>1, <1>2 DEF Thoughts!SawStore
<1>4. b \in BOOLEAN /\ (Marked \in m.seen => b = m.mark)
  <2>1. m.mark \in BOOLEAN
    BY <1>2 DEF Thoughts!Message
  <2> QED BY <2>1
<1> HIDE DEF b
<1>5. Thoughts!NoRows \in Thoughts!Rows /\ Thoughts!NoRows.create /\ ~Thoughts!NoRows.newer
      /\ ~Thoughts!NoRows.older /\ Thoughts!NoRows.index = 1
      /\ TRUE \in BOOLEAN
  BY ThoughtsNoRowsType DEF Thoughts!NoRows
<1>6. /\ x3' \in Thoughts!Rows /\ x3'.shown = m.seen /\ x3'.badge = b /\ x3'.index = 1
      /\ x3'.create /\ ~x3'.newer /\ ~x3'.older
  BY <1>1, <1>2, <1>4, <1>5 DEF Thoughts!Rows, Thoughts!Message
<1>7. Thoughts!RowsOK' /\ Thoughts!EdgesOK'
  <2>1. 0 \in Thoughts!Listed(x3') /\ Thoughts!Listed(x3') \in SUBSET (Thoughts!Thought \cup {0})
    BY <1>6, ThoughtsListedType DEF Thoughts!Listed
  <2>2. 1 <= Cardinality(Thoughts!Listed(x3'))
    <3>1. Thoughts!Place(0, x3') \in 1 .. Cardinality(Thoughts!Listed(x3'))
          /\ Cardinality(Thoughts!Listed(x3')) \in Nat
      BY <2>1, ThoughtsPlaceInRange, ThoughtsFiniteRows
    <3> QED BY <3>1
  <2> QED BY <1>6, <2>1, <2>2, ThoughtsCardinality DEF Thoughts!RowsOK, Thoughts!EdgesOK
<1>8. Thoughts!NothingIsLost' /\ ThoughtsBadges'
  <2>1. x2.at # "detail"
    BY <1>1, <1>2 DEF Thoughts!Awaits
  <2> QED BY <1>1, <1>3, <1>4, <1>6, <2>1
             DEF Thoughts!NothingIsLost, ThoughtsBadges, Thoughts!Truly
<1>9. x8' \in SUBSET x1.thoughts /\ x4' \in BOOLEAN /\ x11' \in SUBSET Thoughts!Places
  BY <1>1, <1>10 DEF Thoughts!IInv, Thoughts!TypeOK
<1> QED BY <1>1, <1>2, <1>3, <1>6, <1>7, <1>8, <1>9, ThoughtsUnchangedTypes,
           ThoughtsAnswerPreserves

\* The selection is on a row again.
LEMMA ThoughtsClamped ==
  ASSUME NEW r \in Thoughts!Rows, Thoughts!Listed(r) # {}, NEW before, NEW move \in {-1, 0, 1}
  PROVE  Thoughts!Clamp(Thoughts!Found(before, r) + move, r) \in 1 .. Cardinality(Thoughts!Listed(r))
<1> DEFINE last == Cardinality(Thoughts!Listed(r))
           i == Thoughts!Found(before, r) + move
<1>1. Thoughts!Listed(r) \in SUBSET (Thoughts!Thought \cup {0})
  BY ThoughtsListedType
<1>2. IsFiniteSet(Thoughts!Listed(r)) /\ last \in Nat /\ last # 0
  BY <1>1, ThoughtsFiniteRows, FS_EmptySet
<1>3. Thoughts!Found(before, r) \in Int
  <2>1. CASE before \in Thoughts!Listed(r)
    <3>1. Thoughts!Place(before, r) \in 1 .. last
      BY <1>1, <2>1, ThoughtsPlaceInRange
    <3> HIDE DEF last
    <3> QED BY <1>2, <2>1, <3>1 DEF Thoughts!Found
  <2>2. CASE before \notin Thoughts!Listed(r)
    BY <2>2 DEF Thoughts!Found, Thoughts!Rows
  <2> QED BY <2>1, <2>2
<1>4. i \in Int
  BY <1>3
<1>5. Thoughts!Clamp(i, r) = IF i < 1 THEN 1 ELSE IF i > last THEN last ELSE i
  BY ThoughtsCardinality DEF Thoughts!Clamp
<1> HIDE DEF i, last
<1>6. Thoughts!Clamp(i, r) \in 1 .. last
  BY <1>2, <1>4, <1>5
<1> QED BY <1>6 DEF i, last

LEMMA ThoughtsTakeWindowPreserves ==
  ASSUME Thoughts!IInv, NEW m \in x7, Thoughts!TakeWindow(m)
  PROVE  Thoughts!IInv'
<1>1. /\ m.kind = "window" /\ Thoughts!Take(m) /\ x5' = [x5 EXCEPT !.read = FALSE]
      /\ x3' = [Thoughts!Merged(m) EXCEPT
                    !.index = Thoughts!Clamp(Thoughts!Found(Thoughts!Selected(x3), Thoughts!Merged(m)) + m.move, Thoughts!Merged(m))]
      /\ x4' = (x4 /\ m.cursor # Thoughts!First)
      /\ x8' = IF m.cursor = Thoughts!First THEN m.seen ELSE x8
      /\ x11' = (IF Marked \in Thoughts!Items(m) THEN x11 \ {"rows"} ELSE x11)
      /\ UNCHANGED <<x1, x2, x6, x9, x10>>
  BY DEF Thoughts!TakeWindow, Thoughts!Read
<1>2. /\ Thoughts!Live(m) /\ m \in Thoughts!Message /\ Thoughts!SawStore(m) /\ x7' = x7 \ {m}
      /\ ThoughtsBadges /\ m.ran
      /\ Thoughts!Awaits(m) /\ Thoughts!Continues(m) /\ (x3.current /\ ~x4 => x9 \subseteq x8)
  BY <1>1, ThoughtsAnswered
<1>3. /\ m.mark = x1.mark /\ x9 \subseteq m.seen /\ x8 \subseteq m.seen
      /\ m.seen \in SUBSET x1.thoughts
  BY <1>1, <1>2 DEF Thoughts!SawStore
<1>4. x2.at = "browse"
  BY <1>1, <1>2 DEF Thoughts!Awaits
<1>5. PICK r : r = Thoughts!Merged(m)
  OBVIOUS
<1>6. x3 \in Thoughts!Rows /\ Thoughts!Listed(x3) # {} /\ Thoughts!EdgesOK
  BY ThoughtsUnchangedTypes DEF Thoughts!IInv
<1>7. /\ r \in Thoughts!Rows /\ Thoughts!Listed(r) # {} /\ (r.newer <=> ~r.create)
      /\ (r.older => r.shown # {})
      /\ Marked \in r.shown => r.badge = (IF Marked \in Thoughts!Items(m) THEN m.mark ELSE x3.badge)
      /\ m.cursor = Thoughts!First => r.shown = Thoughts!Items(m) /\ r.current
      /\ m.cursor # Thoughts!First =>
           /\ r.current = x3.current
           /\ r.shown \in SUBSET (x3.shown \cup Thoughts!Items(m))
  BY <1>1, <1>2, <1>5, <1>6, ThoughtsMergedRows
<1>8. PICK i \in 1 .. Cardinality(Thoughts!Listed(r)) : x3' = [r EXCEPT !.index = i]
  <2>1. m.move \in {-1, 0, 1}
    BY <1>2 DEF Thoughts!Message
  <2>2. Thoughts!Clamp(Thoughts!Found(Thoughts!Selected(x3), r) + m.move, r) \in 1 .. Cardinality(Thoughts!Listed(r))
    BY <1>7, <2>1, ThoughtsClamped
  <2> QED BY <1>1, <1>5, <2>2
<1>9. Cardinality(Thoughts!Listed(r)) \in Nat /\ i \in Nat \ {0}
      /\ i <= Cardinality(Thoughts!Listed(r))
  <2>1. Cardinality(Thoughts!Listed(r)) \in Nat
    BY <1>7, ThoughtsListedType, ThoughtsFiniteRows
  <2> QED BY <2>1
<1>10. /\ x3' \in Thoughts!Rows /\ x3'.shown = r.shown /\ x3'.badge = r.badge /\ x3'.index = i
       /\ x3'.create = r.create /\ x3'.newer = r.newer /\ x3'.older = r.older
       /\ x3'.current = r.current
  BY <1>7, <1>8, <1>9 DEF Thoughts!Rows
<1>11. Thoughts!RowsOK' /\ Thoughts!EdgesOK'
  <2>1. Thoughts!Listed(x3') = Thoughts!Listed(r)
    BY <1>10 DEF Thoughts!Listed
  <2> QED BY <1>7, <1>9, <1>10, <2>1, ThoughtsCardinality DEF Thoughts!RowsOK, Thoughts!EdgesOK
<1>12. ThoughtsBadges'
  <2>1. ASSUME r.current, Marked \in r.shown
        PROVE  "rows" \notin x11' => r.badge = x1.mark
    <3>1. CASE Marked \in Thoughts!Items(m)
      BY <1>3, <1>7, <2>1, <3>1
    <3>2. CASE Marked \notin Thoughts!Items(m)
      <4>1. m.cursor # Thoughts!First /\ x3.current /\ Marked \in x3.shown /\ r.badge = x3.badge
        BY <1>7, <2>1, <3>2
      <4> QED BY <1>1, <1>2, <3>2, <4>1 DEF ThoughtsBadges, Thoughts!Truly
    <3> QED BY <3>1, <3>2
  <2> QED BY <1>1, <1>4, <1>10, <2>1 DEF ThoughtsBadges, Thoughts!Truly
<1>13. Thoughts!NothingIsLost'
  <2>1. ASSUME r.current, NEW t \in x8'
        PROVE  ThoughtsReached(t, r)
    <3>1. t \in m.seen
      BY <1>1, <1>3, <2>1
    <3>2. m.cursor # Thoughts!First => ThoughtsReached(t, x3)
      BY <1>1, <1>7, <2>1 DEF Thoughts!IInv, Thoughts!NothingIsLost, ThoughtsReached
    <3>3. ThoughtsReached(t, Thoughts!Merged(m))
      BY <1>1, <1>2, <1>6, <3>1, <3>2, ThoughtsMergedReached
    <3> QED BY <1>5, <3>3, Zenon
  <2> QED BY <1>10, <2>1 DEF Thoughts!NothingIsLost, ThoughtsReached
<1>14. x8' \in SUBSET x1.thoughts /\ x4' \in BOOLEAN /\ x11' \in SUBSET Thoughts!Places
  BY <1>1, <1>3 DEF Thoughts!IInv, Thoughts!Seen, Thoughts!TypeOK
<1>15. x3'.current /\ ~x4' => x9 \subseteq x8'
  BY <1>1, <1>2, <1>3, <1>7, <1>10
<1> QED BY <1>1, <1>2, <1>10, <1>11, <1>12, <1>13, <1>14, <1>15, ThoughtsUnchangedTypes,
           ThoughtsAnswerPreserves

LEMMA ThoughtsMindsetEnds ==
  ASSUME Thoughts!IInv, NEW m \in x7, m.kind = "mindset", x7' = x7 \ {m},
         x5' = [x5 EXCEPT !.mindset = FALSE],
         UNCHANGED <<x1, x2, x4, x8, x9>>,
         x10' \in [BOOLEAN -> Nat], x11' \in SUBSET Thoughts!Places,
         x3' \in Thoughts!Rows, x3'.shown = x3.shown, x3'.create = x3.create,
         x3'.index = x3.index, x3'.older = x3.older, x3'.newer = x3.newer,
         x3'.current = x3.current,
         x6' \in [thought : Thoughts!Thought \cup {0}, badge : BOOLEAN], ThoughtsBadges'
  PROVE  Thoughts!IInv'
<1>1. m.live /\ x5.mindset /\ ~x5.read /\ \A n \in x7 : ~Thoughts!Live(n)
  BY DEF Thoughts!IInv, Thoughts!OneAnswer
<1>2. x5' \in [read : BOOLEAN, mindset : BOOLEAN] /\ ~x5'.mindset /\ ~x5'.read
  BY <1>1, ThoughtsUnchangedTypes
<1>3. \A n \in x7' : n \in x7 /\ n.kind # "mindset" /\ n.kind # "create" /\ ~Thoughts!Live(n)
  BY <1>1 DEF Thoughts!IInv, Thoughts!OneAnswer, Thoughts!CreatesOK, Thoughts!Live
<1>4. Thoughts!TypeOK' /\ Thoughts!RowsOK' /\ Thoughts!EdgesOK' /\ Thoughts!Seen'
      /\ Thoughts!NothingIsLost'
  BY <1>2, <1>3, ThoughtsCardinality
     DEF Thoughts!IInv, Thoughts!TypeOK, Thoughts!RowsOK, Thoughts!EdgesOK, Thoughts!Seen,
         Thoughts!NothingIsLost, Thoughts!Listed
<1>5. Thoughts!OneAnswer' /\ Thoughts!ReadsOK' /\ Thoughts!CreatesOK' /\ Thoughts!AwaitedIsComing'
  BY <1>2, <1>3
     DEF Thoughts!OneAnswer, Thoughts!ReadsOK, Thoughts!CreatesOK, Thoughts!AwaitedIsComing,
         Thoughts!Live
<1>6. Thoughts!BadgesOK'
  BY <1>3 DEF Thoughts!BadgesOK, ThoughtsBadges, Thoughts!Truly
<1>7. Thoughts!OwnOK'
  <2>1. Thoughts!NoneTaken
    BY <1>1 DEF Thoughts!IInv, Thoughts!CreatesOK, Thoughts!NoneTaken, Thoughts!Live
  <2> QED BY <2>1 DEF Thoughts!IInv, Thoughts!OwnOK
<1> QED BY <1>4, <1>5, <1>6, <1>7 DEF Thoughts!IInv

\* What becomes of the rows and the Thought that is shown.
LEMMA ThoughtsApplied ==
  ASSUME Thoughts!IInv, NEW mark \in BOOLEAN, Thoughts!ApplyMindset(mark)
  PROVE  /\ x3' \in Thoughts!Rows /\ x3'.shown = x3.shown /\ x3'.create = x3.create
         /\ x3'.index = x3.index /\ x3'.older = x3.older /\ x3'.newer = x3.newer
         /\ x3'.current = x3.current /\ (Marked \in x3.shown => x3'.badge = mark)
         /\ x6' \in [thought : Thoughts!Thought \cup {0}, badge : BOOLEAN]
         /\ x6'.thought = Marked => x6'.badge = mark
<1>1. /\ x3' = [x3 EXCEPT !.badge = IF Marked \in x3.shown THEN mark ELSE x3.badge]
      /\ x6' = [x6 EXCEPT !.badge = IF x6.thought = Marked THEN mark ELSE x6.badge]
  BY ThoughtsUnchangedTypes DEF Thoughts!ApplyMindset, Thoughts!Rows
<1> QED BY <1>1, ThoughtsUnchangedTypes DEF Thoughts!Rows

LEMMA ThoughtsTakeMindsetPreserves ==
  ASSUME Thoughts!IInv, NEW m \in x7, Thoughts!TakeMindset(m)
  PROVE  Thoughts!IInv'
<1>1. /\ m.kind = "mindset" /\ m.ran /\ x7' = x7 \ {m} /\ m \in Thoughts!Message
      /\ x5' = [x5 EXCEPT !.mindset = FALSE] /\ Thoughts!ApplyMindset(m.mark)
      /\ x10' = [x10 EXCEPT ![m.mark] = @ + 1] /\ x11' = {}
      /\ UNCHANGED <<x1, x2, x4, x8, x9>>
  BY DEF Thoughts!TakeMindset, Thoughts!Take, Thoughts!IInv, Thoughts!TypeOK
<1>2. m.mark = x1.mark /\ m.mark \in BOOLEAN
  BY <1>1 DEF Thoughts!IInv, Thoughts!BadgesOK, Thoughts!Message, Thoughts!Truly
<1>3. /\ x3' \in Thoughts!Rows /\ x3'.shown = x3.shown /\ x3'.create = x3.create
      /\ x3'.index = x3.index /\ x3'.older = x3.older /\ x3'.newer = x3.newer
      /\ x3'.current = x3.current /\ (Marked \in x3.shown => x3'.badge = m.mark)
      /\ x6' \in [thought : Thoughts!Thought \cup {0}, badge : BOOLEAN]
      /\ x6'.thought = Marked => x6'.badge = m.mark
  BY <1>1, <1>2, ThoughtsApplied
<1>4. ThoughtsBadges'
  BY <1>1, <1>2, <1>3 DEF ThoughtsBadges, Thoughts!Truly
<1>5. x10' \in [BOOLEAN -> Nat] /\ x11' \in SUBSET Thoughts!Places
  <2>1. x10 \in [BOOLEAN -> Nat] /\ x10[m.mark] + 1 \in Nat /\ {} \in SUBSET Thoughts!Places
    BY <1>2 DEF Thoughts!IInv, Thoughts!TypeOK
  <2> QED BY <1>1, <1>2, <2>1
<1> QED BY <1>1, <1>3, <1>4, <1>5, ThoughtsMindsetEnds

\* A MindsetChanged brings what is still so, or is known to have brought an old designation back.
LEMMA ThoughtsTakeChangedPreserves ==
  ASSUME Thoughts!IInv, NEW mark \in BOOLEAN, Thoughts!TakeChanged(mark)
  PROVE  Thoughts!IInv'
<1>1. /\ x10' = [x10 EXCEPT ![mark] = @ - 1] /\ x10[mark] > 0 /\ Thoughts!ApplyMindset(mark)
      /\ x11' = IF mark = x1.mark THEN {} ELSE Thoughts!Places
      /\ UNCHANGED <<x1, x2, x4, x5, x7, x8, x9>>
  BY DEF Thoughts!TakeChanged
<1>2. /\ x3' \in Thoughts!Rows /\ x3'.shown = x3.shown /\ x3'.create = x3.create
      /\ x3'.index = x3.index /\ x3'.older = x3.older /\ x3'.newer = x3.newer
      /\ x3'.current = x3.current /\ (Marked \in x3.shown => x3'.badge = mark)
      /\ x6' \in [thought : Thoughts!Thought \cup {0}, badge : BOOLEAN]
      /\ x6'.thought = Marked => x6'.badge = mark
  BY <1>1, ThoughtsApplied
<1>3. x10' \in [BOOLEAN -> Nat] /\ x11' \in SUBSET Thoughts!Places
  <2>1. x10 \in [BOOLEAN -> Nat] /\ x10[mark] - 1 \in Nat
    BY <1>1 DEF Thoughts!IInv, Thoughts!TypeOK
  <2> QED BY <1>1, <2>1
<1>4. Thoughts!TypeOK' /\ Thoughts!RowsOK' /\ Thoughts!EdgesOK' /\ Thoughts!Seen'
      /\ Thoughts!NothingIsLost'
  BY <1>1, <1>2, <1>3, ThoughtsCardinality
     DEF Thoughts!IInv, Thoughts!TypeOK, Thoughts!RowsOK, Thoughts!EdgesOK, Thoughts!Seen,
         Thoughts!NothingIsLost, Thoughts!Listed
<1>5. Thoughts!OneAnswer' /\ Thoughts!CreatesOK' /\ Thoughts!AwaitedIsComing' /\ Thoughts!OwnOK'
  BY <1>1, <1>2
     DEF Thoughts!IInv, Thoughts!OneAnswer, Thoughts!CreatesOK, Thoughts!AwaitedIsComing,
         Thoughts!Coming, Thoughts!OwnOK, Thoughts!NoneTaken
<1>6. Thoughts!ReadsOK'
  BY <1>1, <1>2
     DEF Thoughts!IInv, Thoughts!ReadsOK, Thoughts!Awaits, Thoughts!Continues, Thoughts!SawStore
<1>7. Thoughts!BadgesOK'
  <2>1. "rows" \in Thoughts!Places /\ "detail" \in Thoughts!Places
    BY DEF Thoughts!Places
  <2>2. ThoughtsBadges'
    BY <1>1, <1>2, <2>1 DEF ThoughtsBadges, Thoughts!Truly
  <2> QED BY <1>1, <2>2 DEF Thoughts!IInv, Thoughts!BadgesOK, ThoughtsBadges, Thoughts!Truly
<1> QED BY <1>4, <1>5, <1>6, <1>7 DEF Thoughts!IInv

LEMMA ThoughtsRefusedPreserves ==
  ASSUME Thoughts!IInv, NEW m \in x7, Thoughts!Refused(m)
  PROVE  Thoughts!IInv'
<1>1. /\ ~m.ran /\ Thoughts!Owned(m) /\ x7' = x7 \ {m} /\ m \in Thoughts!Message
      /\ UNCHANGED <<x1, x2, x3, x4, x6, x8, x9, x10, x11>>
      /\ x10' \in [BOOLEAN -> Nat] /\ x11' \in SUBSET Thoughts!Places
  BY DEF Thoughts!Refused, Thoughts!NoneChanged, Thoughts!IInv, Thoughts!TypeOK
<1>2. CASE m.kind = "mindset"
  <2>1. x5' = [x5 EXCEPT !.mindset = FALSE]
    BY <1>2 DEF Thoughts!Refused
  <2>2. ThoughtsBadges'
    <3>1. \A n \in x7 : n.kind = "mindset" => ~n.ran
      BY <1>1, <1>2 DEF Thoughts!IInv, Thoughts!OneAnswer
    <3> QED BY <1>1, <3>1 DEF Thoughts!IInv, Thoughts!BadgesOK, ThoughtsBadges, Thoughts!Truly
  <2> QED BY <1>1, <1>2, <2>1, <2>2, ThoughtsUnchangedTypes, ThoughtsMindsetEnds
<1>3. CASE m.kind # "mindset"
  <2>1. x5' = [x5 EXCEPT !.read = FALSE]
    BY <1>3 DEF Thoughts!Refused
  <2>2. Thoughts!Live(m)
    BY <1>1, <1>3 DEF Thoughts!Owned, Thoughts!Live, Thoughts!Message, Thoughts!Kind
  <2>3. ~x5.mindset
    BY <2>2 DEF Thoughts!IInv, Thoughts!OneAnswer
  <2>4. ThoughtsBadges
    BY <2>3, ThoughtsQuiet
  <2>5. x3.current /\ ~x4 => x9 \subseteq x8
    <3>1. Thoughts!NoneTaken
      BY <1>1, <2>2
         DEF Thoughts!IInv, Thoughts!OneAnswer, Thoughts!CreatesOK, Thoughts!NoneTaken,
             Thoughts!Live
    <3> QED BY <3>1 DEF Thoughts!IInv, Thoughts!OwnOK
  <2>6. Thoughts!RowsOK' /\ Thoughts!EdgesOK' /\ Thoughts!NothingIsLost' /\ ThoughtsBadges'
        /\ x8' \in SUBSET x1.thoughts
    BY <1>1, <2>4, ThoughtsCardinality
       DEF Thoughts!IInv, Thoughts!RowsOK, Thoughts!EdgesOK, Thoughts!NothingIsLost,
           Thoughts!Listed, ThoughtsBadges, Thoughts!Seen, Thoughts!Truly
  <2> QED BY <1>1, <2>1, <2>2, <2>5, <2>6, ThoughtsUnchangedTypes, ThoughtsAnswerPreserves
<1> QED BY <1>2, <1>3

LEMMA ThoughtsNextPreserves ==
  ASSUME Thoughts!IInv, Thoughts!Next \/ UNCHANGED Thoughts!vars
  PROVE  Thoughts!IInv'
<1>1. CASE UNCHANGED Thoughts!vars
  <2>1. Thoughts!TypeOK' /\ Thoughts!RowsOK' /\ Thoughts!EdgesOK' /\ Thoughts!Seen'
        /\ Thoughts!OneAnswer'
    BY <1>1, ThoughtsCardinality
       DEF Thoughts!vars, Thoughts!IInv, Thoughts!TypeOK, Thoughts!RowsOK, Thoughts!EdgesOK,
           Thoughts!Seen, Thoughts!OneAnswer, Thoughts!Listed
  <2>2. Thoughts!ReadsOK' /\ Thoughts!CreatesOK' /\ Thoughts!BadgesOK' /\ Thoughts!OwnOK'
    BY <1>1
       DEF Thoughts!vars, Thoughts!IInv, Thoughts!ReadsOK, Thoughts!Awaits, Thoughts!Continues,
           Thoughts!SawStore, Thoughts!CreatesOK, Thoughts!BadgesOK, Thoughts!OwnOK,
           Thoughts!Truly, Thoughts!NoneTaken
  <2>3. Thoughts!NothingIsLost' /\ Thoughts!AwaitedIsComing'
    BY <1>1
       DEF Thoughts!vars, Thoughts!IInv, Thoughts!NothingIsLost, Thoughts!AwaitedIsComing,
           Thoughts!Coming
  <2> QED BY <2>1, <2>2, <2>3 DEF Thoughts!IInv
<1>2. CASE Thoughts!OtherSession \/ Thoughts!Open \/ Thoughts!Leave \/ Thoughts!Refresh
           \/ Thoughts!Move \/ Thoughts!EnterRow
  BY <1>2, ThoughtsOtherSessionPreserves, ThoughtsOpenPreserves, ThoughtsLeavePreserves,
     ThoughtsRefreshPreserves, ThoughtsMovePreserves, ThoughtsEnterRowPreserves
<1>3. CASE Thoughts!EnterCreate \/ Thoughts!Discard \/ Thoughts!Save \/ Thoughts!ReloadDetail
           \/ Thoughts!LeaveDetail \/ Thoughts!SetMindset
  BY <1>3, ThoughtsEnterCreatePreserves, ThoughtsDiscardPreserves, ThoughtsSavePreserves,
     ThoughtsReloadDetailPreserves, ThoughtsLeaveDetailPreserves, ThoughtsSetMindsetPreserves
<1>4. ASSUME NEW m \in x7, Thoughts!Answer(m)
      PROVE  Thoughts!IInv'
  BY <1>4, ThoughtsRunPreserves, ThoughtsDropPreserves, ThoughtsTakeWindowPreserves,
     ThoughtsTakeListPreserves, ThoughtsTakeThoughtPreserves, ThoughtsTakeCreatedPreserves,
     ThoughtsTakeMindsetPreserves, ThoughtsRefusedPreserves DEF Thoughts!Answer
<1>5. ASSUME NEW mark \in BOOLEAN, Thoughts!TakeChanged(mark)
      PROVE  Thoughts!IInv'
  BY <1>5, ThoughtsTakeChangedPreserves
<1> QED BY <1>1, <1>2, <1>3, <1>4, <1>5 DEF Thoughts!Next

\* What the invariant says of the properties of the screen.
LEMMA ThoughtsConsequences ==
  ASSUME Thoughts!IInv
  PROVE  Thoughts!OwnThoughtsAreListed /\ Thoughts!BadgesAreTrue
<1>1. Thoughts!OwnThoughtsAreListed
  <2>1. x2.at = "browse" => Thoughts!NoneTaken
    BY
       DEF Thoughts!IInv, Thoughts!CreatesOK, Thoughts!ReadsOK, Thoughts!NoneTaken, Thoughts!Live,
           Thoughts!Awaits
  <2> QED BY <2>1 DEF Thoughts!IInv, Thoughts!OwnOK, Thoughts!OwnThoughtsAreListed
<1>2. Thoughts!BadgesAreTrue
  BY ThoughtsQuiet DEF Thoughts!BadgesAreTrue, ThoughtsBadges, Thoughts!Truly
<1> QED BY <1>1, <1>2

-----------------------------------------------------------------------------
\* How far the selection goes in a step.  A batch has at most Batch Thoughts, so the row that it
\* continues is never among those that it evicts.
LEMMA ThoughtsBatchSize ==
  ASSUME NEW m \in Thoughts!Message
  PROVE  IsFiniteSet(Thoughts!Items(m)) /\ Cardinality(Thoughts!Items(m)) \in Nat
         /\ Cardinality(Thoughts!Items(m)) <= Batch
<1>1. Thoughts!Items(m) \in SUBSET Thoughts!Thought
      /\ Thoughts!Items(m) \in SUBSET Thoughts!Behind(m)
      /\ Thoughts!Behind(m) \in SUBSET Thoughts!Thought
  BY ThoughtsItemsOfBatch DEF Thoughts!Message
<1>2. IsFiniteSet(Thoughts!Items(m)) /\ Cardinality(Thoughts!Items(m)) \in Nat
  BY <1>1, ThoughtsFiniteRows
<1>3. CASE Thoughts!Items(m) = {}
  BY <1>2, <1>3, FS_EmptySet, ThoughtsAssumption
<1>4. CASE Thoughts!Items(m) # {}
  <2>1. PICK t \in Thoughts!Items(m) : \A u \in Thoughts!Items(m) : u # t => Thoughts!Nearer(m, u, t)
    <3>1. (\E t \in Thoughts!Items(m) : \A u \in Thoughts!Items(m) : t <= u)
          /\ (\E t \in Thoughts!Items(m) : \A u \in Thoughts!Items(m) : u <= t)
      BY <1>1, <1>4, ThoughtsExtremes
    <3>2. Thoughts!Items(m) \in SUBSET Int
      BY <1>1 DEF Thoughts!Thought
    <3> QED BY <3>1, <3>2 DEF Thoughts!Nearer
  <2> DEFINE S == {u \in Thoughts!Behind(m) : Thoughts!Nearer(m, u, t)}
  <2>2. Cardinality(S) < Batch
    BY ThoughtsCardinality DEF Thoughts!Items
  <2>3. S \in SUBSET (Thoughts!Thought \cup {0})
    BY <1>1
  <2>4. IsFiniteSet(S) /\ Cardinality(S) \in Nat
    BY <2>3, ThoughtsFiniteRows
  <2>5. Thoughts!Items(m) \ {t} \in SUBSET S
    BY <1>1, <2>1
  <2>6. Cardinality(Thoughts!Items(m) \ {t}) = Cardinality(Thoughts!Items(m)) - 1
    BY <1>2, FS_RemoveElement
  <2> HIDE DEF S
  <2>7. Cardinality(Thoughts!Items(m) \ {t}) <= Cardinality(S)
    BY <2>4, <2>5, FS_Subset
  <2> QED BY <1>2, <2>2, <2>4, <2>6, <2>7, ThoughtsAssumption
<1> QED BY <1>3, <1>4

LEMMA ThoughtsEdgeIsFarther ==
  ASSUME NEW r \in Thoughts!Rows, NEW newest \in BOOLEAN, NEW c \in r.shown,
             NEW B \in SUBSET r.shown,
         IsFiniteSet(B), Cardinality(B) <= Batch,
         \A u \in r.shown : u \in B \/ u = c \/ IF newest THEN u > c ELSE u < c
  PROVE  c \in Thoughts!Evicted(r, newest).shown
<1> DEFINE Beyond == {u \in r.shown : IF newest THEN u > c ELSE u < c}
           n == Cardinality(r.shown) - 3 * Batch
<1>1. r.shown \in SUBSET (Thoughts!Thought \cup {0})
      /\ Beyond \in SUBSET (Thoughts!Thought \cup {0})
  BY DEF Thoughts!Rows
<1>2. IsFiniteSet(r.shown) /\ IsFiniteSet(Beyond) /\ Cardinality(r.shown) \in Nat
      /\ Cardinality(Beyond) \in Nat /\ Cardinality(B) \in Nat
  BY <1>1, ThoughtsFiniteRows, FS_CardinalityType
<1>3. r.shown \in SUBSET (Beyond \cup (B \cup {c}))
  OBVIOUS
<1> HIDE DEF Beyond
<1>4. IsFiniteSet(B \cup {c}) /\ Cardinality(B \cup {c}) \in Nat
      /\ Cardinality(B \cup {c}) <= Batch + 1
  <2>1. IsFiniteSet(B \cup {c}) /\ Cardinality(B \cup {c}) \in Nat
    BY FS_AddElement, FS_CardinalityType
  <2>2. Cardinality(B \cup {c}) = Cardinality(B) \/ Cardinality(B \cup {c}) = Cardinality(B) + 1
    BY FS_AddElement
  <2> QED BY <1>2, <2>1, <2>2, ThoughtsAssumption
<1>5. /\ IsFiniteSet(Beyond \cup (B \cup {c})) /\ Cardinality(Beyond \cup (B \cup {c})) \in Nat
      /\ Cardinality(Beyond \cup (B \cup {c})) <= Cardinality(Beyond) + Cardinality(B \cup {c})
  <2> DEFINE X == Beyond \cup (B \cup {c})
             Y == Beyond \cap (B \cup {c})
  <2>1. IsFiniteSet(X) /\ IsFiniteSet(Y) /\ Cardinality(X) \in Nat /\ Cardinality(Y) \in Nat
    BY <1>2, <1>4, FS_Union, FS_Intersection, FS_CardinalityType
  <2>2. Cardinality(X) = Cardinality(Beyond) + Cardinality(B \cup {c}) - Cardinality(Y)
    BY <1>2, <1>4, FS_Union
  <2> HIDE DEF X, Y
  <2>3. Cardinality(X) <= Cardinality(Beyond) + Cardinality(B \cup {c})
    BY <1>2, <1>4, <2>1, <2>2
  <2> QED BY <2>1, <2>3 DEF X
<1>6. Cardinality(r.shown) <= Cardinality(Beyond \cup (B \cup {c}))
  BY <1>3, <1>5, FS_Subset
<1>7. ~(Cardinality(Beyond) < n)
  <2>1. Cardinality(r.shown) <= Cardinality(Beyond) + (Batch + 1)
    BY <1>2, <1>4, <1>5, <1>6, ThoughtsAssumption
  <2> QED BY <1>2, <2>1, ThoughtsAssumption
<1>8. CASE Thoughts!Excess(r) = 0
  BY <1>8 DEF Thoughts!Evicted
<1>9. CASE Thoughts!Excess(r) # 0
  <2>1. Thoughts!Excess(r) = n
    BY <1>9, ThoughtsCardinality DEF Thoughts!Excess
  <2>2. c \notin Thoughts!Edge(r, Thoughts!Excess(r), newest)
    <3>1. Thoughts!Edge(r, n, newest) =
            {t \in r.shown :
               Cardinality({u \in r.shown : IF newest THEN u > t ELSE u < t}) < n}
      BY ThoughtsCardinality DEF Thoughts!Edge
    <3>2. c \in Thoughts!Edge(r, n, newest) => Cardinality(Beyond) < n
      BY <3>1 DEF Beyond
    <3> QED BY <1>7, <2>1, <3>2
  <2>3. Thoughts!Evicted(r, newest).shown = r.shown \ Thoughts!Edge(r, Thoughts!Excess(r), newest)
    BY <1>9 DEF Thoughts!Evicted, Thoughts!Rows
  <2> QED BY <2>2, <2>3
<1> QED BY <1>8, <1>9

LEMMA ThoughtsCursorStays ==
  ASSUME x3 \in Thoughts!Rows, NEW m \in Thoughts!Message, m.kind = "window",
         m.cursor # Thoughts!First, Thoughts!Continues(m)
  PROVE  m.cursor \in Thoughts!Merged(m).shown
<1> DEFINE joined == [x3 EXCEPT !.shown = @ \cup Thoughts!Items(m),
                                  !.badge = IF Marked \in Thoughts!Items(m) THEN m.mark ELSE @]
           up == [joined EXCEPT !.newer = Thoughts!More(m), !.create = @ \/ ~Thoughts!More(m)]
           down == [joined EXCEPT !.older = Thoughts!More(m)]
           c == m.cursor
<1>1. /\ Thoughts!Items(m) \in SUBSET Thoughts!Thought /\ m.mark \in BOOLEAN
      /\ Thoughts!More(m) \in BOOLEAN
      /\ IsFiniteSet(Thoughts!Items(m)) /\ Cardinality(Thoughts!Items(m)) <= Batch
  BY ThoughtsItemsOfBatch, ThoughtsBatchSize DEF Thoughts!Message, Thoughts!More
<1>2. joined \in Thoughts!Rows /\ joined.shown = x3.shown \cup Thoughts!Items(m)
  BY <1>1 DEF Thoughts!Rows
<1>3. /\ up \in Thoughts!Rows /\ up.shown = x3.shown \cup Thoughts!Items(m)
      /\ down \in Thoughts!Rows /\ down.shown = x3.shown \cup Thoughts!Items(m)
  <2>1. (joined.create \/ ~Thoughts!More(m)) \in BOOLEAN
    OBVIOUS
  <2> HIDE DEF joined
  <2> QED BY <1>1, <1>2, <2>1 DEF Thoughts!Rows
<1>4. /\ c \in x3.shown
      /\ \/ m.move = -1 /\ x3.newer /\ \A u \in x3.shown : u <= c
         \/ m.move = 1 /\ \A u \in x3.shown : u >= c
  BY DEF Thoughts!Continues
<1>5. Thoughts!Merged(m) = IF m.move < 0 THEN Thoughts!Evicted(up, FALSE) ELSE Thoughts!Evicted(down, TRUE)
  BY DEF Thoughts!Merged
<1>6. x3.shown \in SUBSET Int /\ c \in Int
  BY <1>4 DEF Thoughts!Rows, Thoughts!Thought
<1> HIDE DEF up, down
<1>7. CASE m.move < 0
  <2>1. \A u \in up.shown : u \in Thoughts!Items(m) \/ u = c \/ u < c
    BY <1>3, <1>4, <1>6, <1>7
  <2>2. c \in Thoughts!Evicted(up, FALSE).shown
    BY <1>1, <1>3, <1>4, <2>1, ThoughtsEdgeIsFarther
  <2> QED BY <1>5, <1>7, <2>2
<1>8. CASE ~(m.move < 0)
  <2>1. \A u \in down.shown : u \in Thoughts!Items(m) \/ u = c \/ u > c
    BY <1>3, <1>4, <1>6, <1>8
  <2>2. c \in Thoughts!Evicted(down, TRUE).shown
    BY <1>1, <1>3, <1>4, <2>1, ThoughtsEdgeIsFarther
  <2> QED BY <1>5, <1>8, <2>2
<1> QED BY <1>7, <1>8

LEMMA ThoughtsRowAtPlace ==
  ASSUME NEW r, Thoughts!Listed(r) \in SUBSET (Thoughts!Thought \cup {0}),
             NEW t \in Thoughts!Listed(r), Thoughts!Place(t, r) = r.index
  PROVE  Thoughts!Selected(r) = t
<1>1. r.index \in 1 .. Cardinality(Thoughts!Listed(r))
  BY ThoughtsPlaceInRange
<1>2. Thoughts!Selected(r) \in Thoughts!Listed(r)
      /\ Thoughts!Place(Thoughts!Selected(r), r) = r.index
  BY <1>1, ThoughtsSelectedRow
<1>3. r.index \in Int /\ ~(r.index < r.index)
  BY <1>1
<1>4. ~ThoughtsBefore(t, Thoughts!Selected(r)) /\ ~ThoughtsBefore(Thoughts!Selected(r), t)
  <2>1. ~(Thoughts!Place(t, r) < Thoughts!Place(Thoughts!Selected(r), r))
        /\ ~(Thoughts!Place(Thoughts!Selected(r), r) < Thoughts!Place(t, r))
    BY <1>2, <1>3
  <2> QED BY <1>2, <2>1, ThoughtsPlaceInOrder
<1>5. t \in Thoughts!Thought \cup {0} /\ Thoughts!Selected(r) \in Thoughts!Thought \cup {0}
  BY <1>2
<1> QED BY <1>4, <1>5 DEF ThoughtsBefore, Thoughts!Thought

\* Where a row is in the order of the Thoughts.
ThoughtsRank(t) == IF t = 0 THEN MaxThought + 1 ELSE t

LEMMA ThoughtsNoneBetween ==
  ASSUME NEW r \in Thoughts!Rows, NEW x \in Thoughts!Listed(r), NEW y \in Thoughts!Listed(r),
             NEW t \in Thoughts!Thought, ThoughtsReached(t, r),
         Thoughts!Place(x, r) <= Thoughts!Place(y, r) + 1
  PROVE  ~(ThoughtsRank(x) < t /\ t < ThoughtsRank(y))
<1> SUFFICES ASSUME ThoughtsRank(x) < t, t < ThoughtsRank(y)
             PROVE  FALSE
  OBVIOUS
<1>1. /\ Thoughts!Listed(r) \in SUBSET (Thoughts!Thought \cup {0})
      /\ r.shown \in SUBSET Thoughts!Thought
      /\ t \in 1 .. MaxThought /\ MaxThought \in Nat /\ t \in Int /\ t # 0
  BY ThoughtsListedType, ThoughtsAssumption DEF Thoughts!Rows, Thoughts!Thought
<1>2. x # 0 /\ x \in Int /\ x \in r.shown /\ t > x
  BY <1>1 DEF ThoughtsRank, Thoughts!Listed, Thoughts!Thought
<1>3. CASE t \in r.shown
  <2>1. t \in Thoughts!Listed(r) /\ ThoughtsBefore(t, x)
    BY <1>1, <1>2, <1>3 DEF Thoughts!Listed, ThoughtsBefore
  <2>2. ThoughtsBefore(y, t)
    BY <1>1 DEF ThoughtsBefore, ThoughtsRank, Thoughts!Thought
  <2>3. Thoughts!Place(t, r) < Thoughts!Place(x, r) /\ Thoughts!Place(y, r) < Thoughts!Place(t, r)
    BY <1>1, <2>1, <2>2, ThoughtsPlaceInOrder
  <2>4. Thoughts!Place(t, r) \in Int /\ Thoughts!Place(x, r) \in Int
        /\ Thoughts!Place(y, r) \in Int
    BY <1>1, <2>1, ThoughtsPlaceInRange
  <2> QED BY <2>3, <2>4
<1>4. CASE \A u \in r.shown : t < u
  BY <1>1, <1>2, <1>4
<1>5. CASE ~r.create /\ \A u \in r.shown : t > u
  <2>1. y \in r.shown /\ y # 0 /\ y \in Int
    BY <1>1, <1>5 DEF Thoughts!Listed, Thoughts!Thought
  <2> QED BY <1>1, <1>5, <2>1 DEF ThoughtsRank
<1> QED BY <1>3, <1>4, <1>5 DEF ThoughtsReached

\* A row that is next to the selected one, or is it.
ThoughtsBeside(x, r) ==
  x \in Thoughts!Listed(r) /\ Thoughts!Place(x, r) <= r.index + 1
    /\ r.index <= Thoughts!Place(x, r) + 1

LEMMA ThoughtsShortStep ==
  ASSUME Thoughts!IInv', x8' = x8, ThoughtsBeside(Thoughts!Selected(x3), x3')
  PROVE  Thoughts!NothingIsSkipped
<1> SUFFICES ASSUME x3'.current, NEW t \in x8
             PROVE  ~Thoughts!Between(t, x3, x3') /\ ~Thoughts!Between(t, x3', x3)
  BY DEF Thoughts!NothingIsSkipped
<1> DEFINE x == Thoughts!Selected(x3)
           y == Thoughts!Selected(x3')
<1>1. x3' \in Thoughts!Rows /\ t \in Thoughts!Thought /\ ThoughtsReached(t, x3')
  BY DEF Thoughts!IInv, Thoughts!TypeOK, Thoughts!NothingIsLost, ThoughtsReached
<1>2. Thoughts!Listed(x3') \in SUBSET (Thoughts!Thought \cup {0})
  BY <1>1, ThoughtsListedType
<1>3. x3'.index \in 1 .. Cardinality(Thoughts!Listed(x3'))
  <2>1. x3'.index <= Cardinality(Thoughts!Listed(x3')) /\ x3'.index \in Nat \ {0}
    BY <1>1, ThoughtsCardinality DEF Thoughts!IInv, Thoughts!RowsOK, Thoughts!Rows
  <2>2. Cardinality(Thoughts!Listed(x3')) \in Nat
    BY <1>2, ThoughtsFiniteRows
  <2> QED BY <2>1, <2>2
<1>4. y \in Thoughts!Listed(x3') /\ Thoughts!Place(y, x3') = x3'.index
  BY <1>2, <1>3, ThoughtsSelectedRow
<1>5. x \in Thoughts!Listed(x3') /\ Thoughts!Place(x, x3') <= x3'.index + 1
      /\ x3'.index <= Thoughts!Place(x, x3') + 1
  BY DEF ThoughtsBeside
<1>6. ~(ThoughtsRank(x) < t /\ t < ThoughtsRank(y))
      /\ ~(ThoughtsRank(y) < t /\ t < ThoughtsRank(x))
  <2> HIDE DEF x, y
  <2> QED BY <1>1, <1>4, <1>5, ThoughtsNoneBetween
<1> QED BY <1>6 DEF Thoughts!Between, ThoughtsRank

LEMMA ThoughtsSameRowsBeside ==
  ASSUME Thoughts!IInv, x3'.shown = x3.shown, x3'.create = x3.create,
         x3'.index \in Int, x3'.index <= x3.index + 1, x3.index <= x3'.index + 1
  PROVE  ThoughtsBeside(Thoughts!Selected(x3), x3')
<1>1. /\ Thoughts!Listed(x3) \in SUBSET (Thoughts!Thought \cup {0})
      /\ x3.index \in 1 .. Cardinality(Thoughts!Listed(x3))
  BY ThoughtsUnchangedTypes
<1>2. Thoughts!Listed(x3') = Thoughts!Listed(x3)
  BY DEF Thoughts!Listed
<1>3. Thoughts!Selected(x3) \in Thoughts!Listed(x3)
      /\ Thoughts!Place(Thoughts!Selected(x3), x3) = x3.index
  BY <1>1, ThoughtsSelectedRow
<1>4. Thoughts!Place(Thoughts!Selected(x3), x3') = Thoughts!Place(Thoughts!Selected(x3), x3)
  BY <1>2, ThoughtsCardinality DEF Thoughts!Place
<1> QED BY <1>2, <1>3, <1>4 DEF ThoughtsBeside

LEMMA ThoughtsSupersededIsDead ==
  ASSUME Thoughts!IInv, NEW m \in Thoughts!Superseded
  PROVE  ~Thoughts!Live(m)
<1>1. PICK n \in x7 : m = CASE n.kind = "mindset" -> n
                              [] n.kind = "create" -> [n EXCEPT !.live = FALSE]
                              [] OTHER -> Thoughts!DeadRead
  BY DEF Thoughts!Superseded
<1>2. n \in Thoughts!Message
  BY DEF Thoughts!IInv, Thoughts!TypeOK
<1>3. CASE n.kind = "mindset"
  BY <1>1, <1>3 DEF Thoughts!Live
<1>4. CASE n.kind = "create"
  <2>1. m = [n EXCEPT !.live = FALSE]
    BY <1>1, <1>4
  <2> QED BY <1>2, <2>1 DEF Thoughts!Live, Thoughts!Message
<1>5. CASE n.kind # "mindset" /\ n.kind # "create"
  BY <1>1, <1>5, ThoughtsDeadReadType DEF Thoughts!Live
<1> QED BY <1>3, <1>4, <1>5

LEMMA ThoughtsAskedSteps ==
  ASSUME Thoughts!IInv, NEW m, x7' \in SUBSET (Thoughts!Superseded \cup {m}),
         Thoughts!FromSelected(m)',
         ~x2'.all => x3'.create /\ x3'.index = 1
  PROVE  Thoughts!StepsOK'
<1>1. \A n \in x7' : Thoughts!Live(n) => n = m
  BY ThoughtsSupersededIsDead
<1> QED BY <1>1 DEF Thoughts!StepsOK

LEMMA ThoughtsKeptSteps ==
  ASSUME Thoughts!IInv, Thoughts!StepsOK, x2'.all = x2.all, x3'.shown = x3.shown,
         x3'.create = x3.create, x3'.index = x3.index, x3'.current = x3.current,
         \A m \in x7' : Thoughts!Live(m) =>
           \E n \in x7 : Thoughts!Live(n) /\ n.kind = m.kind /\ (m.kind = "window" => n.cursor = m.cursor)
  PROVE  Thoughts!StepsOK'
<1>1. /\ Thoughts!Listed(x3) \in SUBSET (Thoughts!Thought \cup {0})
      /\ x3.index \in 1 .. Cardinality(Thoughts!Listed(x3))
  BY ThoughtsUnchangedTypes
<1>2. Thoughts!Selected(x3) \in Thoughts!Listed(x3)
      /\ Thoughts!Place(Thoughts!Selected(x3), x3) = x3.index
  BY <1>1, ThoughtsSelectedRow
<1>3. Thoughts!Listed(x3') = Thoughts!Listed(x3)
  BY DEF Thoughts!Listed
<1>4. Thoughts!Place(Thoughts!Selected(x3), x3') = x3'.index
  BY <1>2, <1>3, ThoughtsCardinality DEF Thoughts!Place
<1>5. Thoughts!Selected(x3') = Thoughts!Selected(x3)
  BY <1>1, <1>2, <1>3, <1>4, ThoughtsRowAtPlace
<1>6. ASSUME NEW m \in x7', Thoughts!Live(m)
      PROVE  Thoughts!FromSelected(m)'
  <2>1. PICK n \in x7 :
          Thoughts!Live(n) /\ n.kind = m.kind /\ (m.kind = "window" => n.cursor = m.cursor)
    BY <1>6
  <2>2. Thoughts!FromSelected(n)
    BY <2>1 DEF Thoughts!StepsOK
  <2>3. CASE m.kind = "window"
    BY <1>5, <2>1, <2>2, <2>3 DEF Thoughts!FromSelected
  <2>4. CASE m.kind = "list"
    BY <2>1, <2>2, <2>4 DEF Thoughts!FromSelected
  <2>5. CASE m.kind # "window" /\ m.kind # "list"
    BY <2>5 DEF Thoughts!FromSelected
  <2> QED BY <2>3, <2>4, <2>5
<1>7. ~x2'.all => x3'.create /\ x3'.index = 1
  BY DEF Thoughts!StepsOK
<1> QED BY <1>6, <1>7 DEF Thoughts!StepsOK

LEMMA ThoughtsSameWireSteps ==
  ASSUME Thoughts!IInv, Thoughts!StepsOK, x2'.all = x2.all, x3' = x3,
         \A m \in x7' : Thoughts!Live(m) => m \in x7
  PROVE  Thoughts!StepsOK'
  BY ThoughtsKeptSteps

\* A command that does not read rows.
LEMMA ThoughtsOtherCommandSteps ==
  ASSUME Thoughts!IInv, Thoughts!StepsOK, x2'.all = x2.all, x3' = x3,
         NEW m, m.kind \notin {"window", "list"}, x7' \in SUBSET (Thoughts!Superseded \cup {m})
  PROVE  Thoughts!StepsOK'
<1>1. Thoughts!FromSelected(m)'
  BY DEF Thoughts!FromSelected
<1>2. ~x2'.all => x3'.create /\ x3'.index = 1
  BY DEF Thoughts!StepsOK
<1> QED BY <1>1, <1>2, ThoughtsAskedSteps

LEMMA ThoughtsReloadSteps ==
  ASSUME Thoughts!IInv, Thoughts!StepsOK, x2'.all = x2.all,
         IF x2.all THEN Thoughts!ReloadWindow ELSE Thoughts!ReloadList
  PROVE  Thoughts!StepsOK'
<1>1. "window" \in Thoughts!Kind /\ "list" \in Thoughts!Kind
      /\ Thoughts!First \in Thoughts!Thought \cup {0} /\ 0 \in {-1, 0, 1}
  BY DEF Thoughts!Kind, Thoughts!First
<1>2. CASE x2.all
  <2>1. PICK m : m = Thoughts!Command("window", Thoughts!First, 0)
             /\ x7' \in SUBSET (Thoughts!Superseded \cup {m}) /\ x3' = Thoughts!NoRows
    BY <1>2 DEF Thoughts!ReloadWindow, Thoughts!Ask
  <2>2. m.kind = "window" /\ m.cursor = Thoughts!First /\ ~x3'.current
    BY <1>1, <2>1, ThoughtsCommandType, ThoughtsNoRowsType
  <2>3. Thoughts!FromSelected(m)'
    BY <2>2 DEF Thoughts!FromSelected
  <2> QED BY <1>2, <2>1, <2>3, ThoughtsAskedSteps
<1>3. CASE ~x2.all
  <2>1. PICK m : m = Thoughts!Command("list", Thoughts!First, 0)
             /\ x7' \in SUBSET (Thoughts!Superseded \cup {m}) /\ x3' = x3
    BY <1>3 DEF Thoughts!ReloadList, Thoughts!Ask
  <2>2. m.kind = "list"
    BY <1>1, <2>1, ThoughtsCommandType
  <2>3. Thoughts!FromSelected(m)'
    BY <1>3, <2>2 DEF Thoughts!FromSelected
  <2> QED BY <1>3, <2>1, <2>3, ThoughtsAskedSteps DEF Thoughts!StepsOK
<1> QED BY <1>2, <1>3

LEMMA ThoughtsOpenSteps ==
  ASSUME Thoughts!IInv, Thoughts!Open
  PROVE  Thoughts!StepsOK'
<1>1. PICK all \in BOOLEAN :
        /\ x2' = [at |-> "browse", all |-> all] /\ x3' = Thoughts!NoRows
        /\ Thoughts!Ask(Thoughts!Command(IF all THEN "window" ELSE "list", Thoughts!First, 0))
  BY DEF Thoughts!Open
<1>2. PICK m : m = Thoughts!Command(IF all THEN "window" ELSE "list", Thoughts!First, 0) /\ x7' \in SUBSET (Thoughts!Superseded \cup {m})
  BY <1>1 DEF Thoughts!Ask
<1>3. "window" \in Thoughts!Kind /\ "list" \in Thoughts!Kind
      /\ Thoughts!First \in Thoughts!Thought \cup {0} /\ 0 \in {-1, 0, 1}
  BY DEF Thoughts!Kind, Thoughts!First
<1>4. m.kind = (IF all THEN "window" ELSE "list") /\ m.cursor = Thoughts!First
  BY <1>2, <1>3, ThoughtsCommandType
<1>5. x2'.all = all /\ x3'.create /\ x3'.index = 1 /\ ~x3'.current
  BY <1>1, ThoughtsNoRowsType DEF Thoughts!NoRows
<1>6. Thoughts!FromSelected(m)'
  BY <1>4, <1>5 DEF Thoughts!FromSelected
<1> QED BY <1>2, <1>5, <1>6, ThoughtsAskedSteps

LEMMA ThoughtsMoveSteps ==
  ASSUME Thoughts!IInv, Thoughts!StepsOK, Thoughts!Move
  PROVE  Thoughts!StepsOK' /\ Thoughts!NothingIsSkipped
<1>1. /\ x2.all /\ x2' = x2 /\ ~x5.read /\ x8' = x8
  BY ThoughtsCardinality
     DEF Thoughts!Move, Thoughts!Ready, Thoughts!Keys, Thoughts!Store, Thoughts!NoneChanged
<1>2. Thoughts!IInv'
  BY ThoughtsMovePreserves
<1>3. /\ x3 \in Thoughts!Rows /\ x3.index \in Int
  BY ThoughtsUnchangedTypes DEF Thoughts!Rows
<1>4. ASSUME NEW move \in {-1, 1},
                 Thoughts!Ask(Thoughts!Command("window", Thoughts!Selected(x3), move)), x3' = x3
      PROVE  Thoughts!StepsOK' /\ Thoughts!NothingIsSkipped
  <2>1. /\ Thoughts!Listed(x3) \in SUBSET (Thoughts!Thought \cup {0})
        /\ x3.index \in 1 .. Cardinality(Thoughts!Listed(x3))
    BY ThoughtsUnchangedTypes
  <2>2. Thoughts!Selected(x3) \in Thoughts!Thought \cup {0} /\ "window" \in Thoughts!Kind
        /\ move \in {-1, 0, 1}
    BY <2>1, ThoughtsSelectedRow DEF Thoughts!Kind
  <2>3. PICK m \in Thoughts!Message :
             /\ m = Thoughts!Command("window", Thoughts!Selected(x3), move) /\ m.kind = "window"
                                      /\ m.cursor = Thoughts!Selected(x3) /\ m.move = move
                                      /\ m.live
    BY <2>2, ThoughtsCommandType
  <2>4. x7' = Thoughts!Superseded \cup {m}
    BY <1>4, <2>3 DEF Thoughts!Ask
  <2>5. Thoughts!Continues(m)'
    BY <2>3, <2>4, <1>2 DEF Thoughts!IInv, Thoughts!ReadsOK, Thoughts!Live
  <2>6. m.cursor # Thoughts!First
    BY <1>3, <1>4, <2>3, <2>5
       DEF Thoughts!Continues, Thoughts!Rows, Thoughts!First, Thoughts!Thought
  <2>7. Thoughts!FromSelected(m)'
    BY <1>4, <2>3, <2>6 DEF Thoughts!FromSelected
  <2>8. Thoughts!StepsOK'
    BY <1>1, <2>4, <2>7, ThoughtsAskedSteps, Zenon
  <2> QED BY <1>1, <1>2, <1>3, <1>4, <2>8, ThoughtsSameRowsBeside, ThoughtsShortStep
<1>5. ASSUME NEW move \in {-1, 1}, x3' = [x3 EXCEPT !.index = x3.index + move], x7' = x7
      PROVE  Thoughts!StepsOK' /\ Thoughts!NothingIsSkipped
  <2>1. \A m \in x7' : ~Thoughts!Live(m)
    BY <1>1, <1>5 DEF Thoughts!IInv, Thoughts!OneAnswer
  <2>2. Thoughts!StepsOK'
    BY <1>1, <2>1 DEF Thoughts!StepsOK
  <2>3. x3'.shown = x3.shown /\ x3'.create = x3.create /\ x3'.index = x3.index + move
    BY <1>3, <1>5 DEF Thoughts!Rows
  <2> QED BY <1>1, <1>2, <1>3, <2>2, <2>3, ThoughtsSameRowsBeside, ThoughtsShortStep
<1> QED BY <1>4, <1>5, ThoughtsCardinality DEF Thoughts!Move

LEMMA ThoughtsWindowSteps ==
  ASSUME Thoughts!IInv, Thoughts!StepsOK, NEW m \in x7, Thoughts!TakeWindow(m)
  PROVE  Thoughts!StepsOK' /\ Thoughts!NothingIsSkipped
<1>1. /\ m.kind = "window" /\ Thoughts!Take(m) /\ x7' = x7 \ {m} /\ x2' = x2
      /\ x3' = [Thoughts!Merged(m) EXCEPT
                    !.index = Thoughts!Clamp(Thoughts!Found(Thoughts!Selected(x3), Thoughts!Merged(m)) + m.move, Thoughts!Merged(m))]
      /\ x8' = IF m.cursor = Thoughts!First THEN m.seen ELSE x8
  BY DEF Thoughts!TakeWindow, Thoughts!Take
<1>2. Thoughts!Live(m) /\ m \in Thoughts!Message /\ Thoughts!Continues(m)
      /\ Thoughts!FromSelected(m) /\ x2.all /\ Thoughts!IInv'
  BY <1>1, ThoughtsAnswered, ThoughtsTakeWindowPreserves
     DEF Thoughts!StepsOK, Thoughts!Take, Thoughts!Owned
<1>3. Thoughts!StepsOK'
  <2>1. \A n \in x7' : ~Thoughts!Live(n)
    BY <1>1, <1>2 DEF Thoughts!IInv, Thoughts!OneAnswer
  <2> QED BY <1>1, <1>2, <2>1 DEF Thoughts!StepsOK
<1>4. CASE m.cursor = Thoughts!First
  BY <1>1, <1>2, <1>3, <1>4 DEF Thoughts!FromSelected, Thoughts!NothingIsSkipped
<1>5. CASE m.cursor # Thoughts!First
  <2> DEFINE c == m.cursor
  <2>1. PICK r : r = Thoughts!Merged(m)
    OBVIOUS
  <2>2. x3 \in Thoughts!Rows /\ Thoughts!Listed(x3) # {} /\ Thoughts!EdgesOK
    BY ThoughtsUnchangedTypes DEF Thoughts!IInv
  <2>3. r \in Thoughts!Rows /\ c \in r.shown
    BY <1>1, <1>2, <1>5, <2>1, <2>2, ThoughtsMergedRows, ThoughtsCursorStays
  <2>4. c = Thoughts!Selected(x3) /\ x8' = x8
    BY <1>1, <1>2, <1>5 DEF Thoughts!FromSelected
  <2>5. Thoughts!Listed(r) \in SUBSET (Thoughts!Thought \cup {0}) /\ c \in Thoughts!Listed(r)
    BY <2>3, ThoughtsListedType DEF Thoughts!Listed
  <2>6. Thoughts!Place(c, r) \in 1 .. Cardinality(Thoughts!Listed(r))
        /\ Cardinality(Thoughts!Listed(r)) \in Nat
    BY <2>5, ThoughtsPlaceInRange, ThoughtsFiniteRows
  <2>7. x3' = [r EXCEPT !.index = Thoughts!Clamp(Thoughts!Place(c, r) + m.move, r)]
    BY <1>1, <2>1, <2>4, <2>5 DEF Thoughts!Found
  <2>8. m.move \in {-1, 0, 1}
    BY <1>2 DEF Thoughts!Message
  <2>9. PICK i : i = Thoughts!Clamp(Thoughts!Place(c, r) + m.move, r)
    OBVIOUS
  <2>10. i \in Int /\ Thoughts!Place(c, r) <= i + 1 /\ i <= Thoughts!Place(c, r) + 1
    BY <2>6, <2>8, <2>9, ThoughtsCardinality DEF Thoughts!Clamp
  <2>11. x3'.index = i /\ x3'.shown = r.shown /\ x3'.create = r.create
    BY <2>3, <2>7, <2>9 DEF Thoughts!Rows
  <2>12. Thoughts!Listed(x3') = Thoughts!Listed(r)
    BY <2>11 DEF Thoughts!Listed
  <2>13. Thoughts!Place(c, x3') = Thoughts!Place(c, r)
    BY <2>12, ThoughtsCardinality DEF Thoughts!Place
  <2>14. ThoughtsBeside(c, x3')
    BY <2>5, <2>10, <2>11, <2>12, <2>13 DEF ThoughtsBeside
  <2> QED BY <1>2, <1>3, <2>4, <2>14, ThoughtsShortStep
<1> QED BY <1>4, <1>5

LEMMA ThoughtsListSteps ==
  ASSUME Thoughts!IInv, Thoughts!StepsOK, NEW m \in x7, Thoughts!TakeList(m)
  PROVE  Thoughts!StepsOK' /\ Thoughts!NothingIsSkipped
<1>1. /\ m.kind = "list" /\ Thoughts!Take(m) /\ x7' = x7 \ {m} /\ x2' = x2
      /\ x3'.index = 1 /\ x3'.create
  BY DEF Thoughts!TakeList, Thoughts!Take, Thoughts!NoRows
<1>2. Thoughts!Live(m) /\ ~x2.all /\ x3.index = 1 /\ x3.create /\ Thoughts!IInv'
  <2>1. Thoughts!Live(m) /\ Thoughts!FromSelected(m) /\ Thoughts!IInv'
    BY <1>1, ThoughtsAnswered, ThoughtsTakeListPreserves DEF Thoughts!StepsOK
  <2>2. ~x2.all
    BY <1>1, <2>1 DEF Thoughts!FromSelected
  <2> QED BY <2>1, <2>2 DEF Thoughts!StepsOK
<1>3. Thoughts!StepsOK'
  <2>1. \A n \in x7' : ~Thoughts!Live(n)
    BY <1>1, <1>2 DEF Thoughts!IInv, Thoughts!OneAnswer
  <2> QED BY <1>1, <2>1 DEF Thoughts!StepsOK
<1>4. ThoughtsBeside(Thoughts!Selected(x3), x3')
  <2>1. 0 \in Thoughts!Listed(x3) /\ Thoughts!Place(0, x3) = x3.index
        /\ Thoughts!Listed(x3) \in SUBSET (Thoughts!Thought \cup {0})
    BY <1>2, ThoughtsUnchangedTypes, ThoughtsCardinality DEF Thoughts!Listed, Thoughts!Place
  <2>2. Thoughts!Selected(x3) = 0
    BY <2>1, ThoughtsRowAtPlace
  <2>3. 0 \in Thoughts!Listed(x3') /\ Thoughts!Place(0, x3') = 1
    BY <1>1, ThoughtsCardinality DEF Thoughts!Listed, Thoughts!Place
  <2> QED BY <1>1, <2>2, <2>3 DEF ThoughtsBeside
<1>5. x8' = x8 => Thoughts!NothingIsSkipped
  BY <1>2, <1>4, ThoughtsShortStep
<1> QED BY <1>3, <1>5 DEF Thoughts!NothingIsSkipped

LEMMA ThoughtsCommandRunSteps ==
  ASSUME Thoughts!IInv, Thoughts!StepsOK, NEW m \in x7, Thoughts!Run(m)
  PROVE  Thoughts!StepsOK'
<1>1. m \in Thoughts!Message /\ UNCHANGED <<x2, x3>>
  BY DEF Thoughts!IInv, Thoughts!TypeOK, Thoughts!Run
<1>2. PICK a : /\ x7' = (x7 \ {m}) \cup {a} /\ a.kind = m.kind /\ (a.live <=> m.live)
               /\ m.kind = "window" => a.cursor = m.cursor
  <2>1. CASE m.kind # "create"
    <3>1. PICK a : /\ x7' = (x7 \ {m}) \cup {[a EXCEPT !.ran = TRUE]}
                   /\ a \in {m, [m EXCEPT !.seen = x1.thoughts, !.mark = x1.mark],
                            [m EXCEPT !.mark = x1.mark]}
      BY <2>1 DEF Thoughts!Run, Thoughts!Ran
    <3> DEFINE b == [a EXCEPT !.ran = TRUE]
    <3>2. b.kind = m.kind /\ (b.live <=> m.live) /\ b.cursor = m.cursor
      BY <1>1, <3>1 DEF Thoughts!Message
    <3> HIDE DEF b
    <3> QED BY <3>1, <3>2 DEF b
  <2>2. CASE m.kind = "create"
    <3>1. PICK t : x7' = (x7 \ {m}) \cup {[[m EXCEPT !.cursor = t] EXCEPT !.ran = TRUE]}
      BY <2>2 DEF Thoughts!Run, Thoughts!Ran
    <3> DEFINE b == [[m EXCEPT !.cursor = t] EXCEPT !.ran = TRUE]
    <3>2. b.kind = m.kind /\ (b.live <=> m.live)
      BY <1>1 DEF Thoughts!Message
    <3> HIDE DEF b
    <3> QED BY <2>2, <3>1, <3>2 DEF b
  <2> QED BY <2>1, <2>2
<1> QED BY <1>1, <1>2, ThoughtsKeptSteps DEF Thoughts!Live

LEMMA ThoughtsStepsPreserved ==
  ASSUME Thoughts!IInv, Thoughts!StepsOK, Thoughts!Next \/ UNCHANGED Thoughts!vars
  PROVE  Thoughts!StepsOK' /\ Thoughts!NothingIsSkipped
<1>1. Thoughts!IInv' /\ x3 \in Thoughts!Rows /\ x3.index \in Int
  BY ThoughtsNextPreserves, ThoughtsUnchangedTypes DEF Thoughts!Rows
<1>2. ASSUME x3'.shown = x3.shown, x3'.create = x3.create, x3'.index = x3.index
      PROVE  Thoughts!NothingIsSkipped
  <2>1. x8' = x8 => Thoughts!NothingIsSkipped
    BY <1>1, <1>2, ThoughtsSameRowsBeside, ThoughtsShortStep
  <2> QED BY <2>1 DEF Thoughts!NothingIsSkipped
<1>3. CASE UNCHANGED Thoughts!vars \/ Thoughts!OtherSession \/ Thoughts!SetMindset
  <2>1. UNCHANGED <<x2, x3>>
    BY <1>3 DEF Thoughts!vars, Thoughts!OtherSession, Thoughts!SetMindset
  <2>2. \A m \in x7' : Thoughts!Live(m) => m \in x7
    <3>1. ASSUME Thoughts!SetMindset, NEW m \in x7', m \notin x7
          PROVE  ~Thoughts!Live(m)
      <4>1. PICK mark : m = [Thoughts!Command("mindset", Thoughts!First, 0) EXCEPT !.mark = mark]
        BY <3>1 DEF Thoughts!SetMindset
      <4>2. Thoughts!Command("mindset", Thoughts!First, 0) \in Thoughts!Message
            /\ Thoughts!Command("mindset", Thoughts!First, 0).kind = "mindset"
        <5>1. "mindset" \in Thoughts!Kind /\ Thoughts!First \in Thoughts!Thought \cup {0}
              /\ 0 \in {-1, 0, 1}
          BY DEF Thoughts!Kind, Thoughts!First
        <5> QED BY <5>1, ThoughtsCommandType
      <4> QED BY <4>1, <4>2 DEF Thoughts!Live, Thoughts!Message
    <3> QED BY <1>3, <3>1 DEF Thoughts!vars, Thoughts!OtherSession
  <2> QED BY <1>2, <2>1, <2>2, ThoughtsSameWireSteps
<1>4. CASE Thoughts!Open
  BY <1>4, ThoughtsOpenSteps, ThoughtsNoRowsType DEF Thoughts!Open, Thoughts!NothingIsSkipped
<1>5. CASE Thoughts!Leave
  <2>1. x7' = Thoughts!Superseded /\ x3' = Thoughts!NoRows
    BY <1>5 DEF Thoughts!Leave
  <2>2. x3'.create /\ x3'.index = 1 /\ ~x3'.current
    BY <2>1, ThoughtsNoRowsType DEF Thoughts!NoRows
  <2>3. \A m \in x7' : ~Thoughts!Live(m)
    BY <2>1, ThoughtsSupersededIsDead
  <2> QED BY <2>2, <2>3 DEF Thoughts!StepsOK, Thoughts!NothingIsSkipped
<1>6. ASSUME x2'.all = x2.all, IF x2.all THEN Thoughts!ReloadWindow ELSE Thoughts!ReloadList
      PROVE  Thoughts!StepsOK' /\ Thoughts!NothingIsSkipped
  <2>1. CASE x2.all
    BY <1>6, <2>1, ThoughtsReloadSteps, ThoughtsNoRowsType
       DEF Thoughts!ReloadWindow, Thoughts!NothingIsSkipped
  <2>2. CASE ~x2.all
    BY <1>2, <1>6, <2>2, ThoughtsReloadSteps DEF Thoughts!ReloadList
  <2> QED BY <2>1, <2>2
<1>7. CASE Thoughts!Refresh
  BY <1>6, <1>7 DEF Thoughts!Refresh
<1>8. CASE Thoughts!Move
  BY <1>8, ThoughtsMoveSteps
<1>9. ASSUME NEW t, Thoughts!GetThought(t), x2' = x2
      PROVE  Thoughts!StepsOK' /\ Thoughts!NothingIsSkipped
  <2>1. Thoughts!Command("get", t, 0).kind = "get"
    BY DEF Thoughts!Command
  <2>2. x7' = Thoughts!Superseded \cup {Thoughts!Command("get", t, 0)} /\ x3' = x3
    BY <1>9 DEF Thoughts!GetThought, Thoughts!Ask
  <2> QED BY <1>2, <1>9, <2>1, <2>2, ThoughtsOtherCommandSteps
<1>10. CASE Thoughts!EnterRow \/ Thoughts!ReloadDetail
  BY <1>9, <1>10 DEF Thoughts!EnterRow, Thoughts!ReloadDetail, Thoughts!GetThought
<1>11. CASE Thoughts!Save
  <2>1. Thoughts!Command("create", Thoughts!First, 0).kind = "create"
    BY DEF Thoughts!Command
  <2>2. x7' = Thoughts!Superseded \cup {Thoughts!Command("create", Thoughts!First, 0)}
        /\ x3' = x3 /\ x2' = x2
    BY <1>11 DEF Thoughts!Save, Thoughts!Ask
  <2> QED BY <1>2, <2>1, <2>2, ThoughtsOtherCommandSteps
<1>12. ASSUME x3' = x3, x2'.all = x2.all, x7' = Thoughts!Superseded
       PROVE  Thoughts!StepsOK' /\ Thoughts!NothingIsSkipped
  <2>1. \A m \in x7' : ~Thoughts!Live(m)
    BY <1>12, ThoughtsSupersededIsDead
  <2> QED BY <1>2, <1>12, <2>1, ThoughtsSameWireSteps
<1>13. CASE Thoughts!EnterCreate \/ Thoughts!Discard \/ Thoughts!LeaveDetail
  <2>1. x2'.all = x2.all
    BY <1>13, ThoughtsUnchangedTypes
       DEF Thoughts!EnterCreate, Thoughts!Discard, Thoughts!LeaveDetail
  <2> QED BY <1>6, <1>12, <1>13, <2>1
             DEF Thoughts!EnterCreate, Thoughts!Discard, Thoughts!LeaveDetail
<1>14. ASSUME NEW m \in x7, Thoughts!Answer(m)
       PROVE  Thoughts!StepsOK' /\ Thoughts!NothingIsSkipped
  <2>1. CASE Thoughts!Run(m)
    BY <1>2, <2>1, ThoughtsCommandRunSteps DEF Thoughts!Run
  <2>2. CASE Thoughts!Drop(m) \/ Thoughts!Refused(m)
    BY <1>2, <2>2, ThoughtsSameWireSteps DEF Thoughts!Drop, Thoughts!Refused
  <2>3. CASE Thoughts!TakeWindow(m)
    BY <2>3, ThoughtsWindowSteps
  <2>4. CASE Thoughts!TakeList(m)
    BY <2>4, ThoughtsListSteps
  <2>5. CASE Thoughts!TakeThought(m) \/ Thoughts!TakeCreated(m)
    <3>1. x2'.all = x2.all /\ x3' = x3 /\ x7' = x7 \ {m}
      BY <2>5, ThoughtsUnchangedTypes
         DEF Thoughts!TakeThought, Thoughts!TakeCreated, Thoughts!ShowDetail, Thoughts!Take
    <3> QED BY <1>2, <3>1, ThoughtsSameWireSteps
  <2>6. CASE Thoughts!TakeMindset(m)
    <3>1. /\ x3'.shown = x3.shown /\ x3'.create = x3.create /\ x3'.index = x3.index
          /\ x3'.current = x3.current /\ x2' = x2 /\ x7' = x7 \ {m}
      BY <1>1, <2>6 DEF Thoughts!TakeMindset, Thoughts!ApplyMindset, Thoughts!Take, Thoughts!Rows
    <3> QED BY <1>2, <3>1, ThoughtsKeptSteps
  <2> QED BY <1>14, <2>1, <2>2, <2>3, <2>4, <2>5, <2>6 DEF Thoughts!Answer
<1>15. ASSUME NEW mark \in BOOLEAN, Thoughts!TakeChanged(mark)
       PROVE  Thoughts!StepsOK' /\ Thoughts!NothingIsSkipped
  <2>1. /\ x3'.shown = x3.shown /\ x3'.create = x3.create /\ x3'.index = x3.index
        /\ x3'.current = x3.current /\ x2' = x2 /\ x7' = x7
    BY <1>1, <1>15 DEF Thoughts!TakeChanged, Thoughts!ApplyMindset, Thoughts!Rows
  <2> QED BY <1>2, <2>1, ThoughtsKeptSteps
<1> QED BY <1>3, <1>4, <1>5, <1>7, <1>8, <1>10, <1>11, <1>13, <1>14, <1>15 DEF Thoughts!Next

LEMMA ThoughtsInitSteps == Thoughts!Init => Thoughts!StepsOK
  BY DEF Thoughts!Init, Thoughts!StepsOK, Thoughts!NoRows

-----------------------------------------------------------------------------
(* The Event form: x1 the Subjects stored, x2 the form, x3 its picker, x4  *)
(* the root's screen, x5 the messages, x6 the Subjects created for the     *)
(* draft, x7 the draft when it was suspended.                              *)

\* Stopping commands keeps the messages of other kinds, and leaves no live one of these.
LEMMA FormStoppedMessages ==
  ASSUME NEW kinds \in SUBSET Form!Kind, x5 \in SUBSET Form!Messages
  PROVE  /\ Form!Stopped(kinds) \in SUBSET Form!Messages
         /\ \A m \in Form!Stopped(kinds) : m.live => m \in x5 /\ m.kind \notin kinds
         /\ \A m \in x5 : m.kind \notin kinds => m \in Form!Stopped(kinds)
<1>1. Form!NoDraft \in Form!Drafts
  BY DEF Form!NoDraft, Form!Drafts, Form!Field
<1>2. ASSUME NEW m \in Form!Messages
      PROVE  /\ [m EXCEPT !.live = FALSE, !.draft = Form!NoDraft] \in Form!Messages
             /\ [m EXCEPT !.live = FALSE, !.draft = Form!NoDraft].live = FALSE
  BY <1>1, <1>2 DEF Form!Messages
<1> QED BY <1>2 DEF Form!Stopped, Form!Passed, Form!Cancelled

\* Cancelling removes only commands that have not answered, of these kinds.
LEMMA FormCancelledMessages ==
  ASSUME NEW kinds \in SUBSET Form!Kind, NEW w
  PROVE  /\ Form!Cancelled(kinds, w) \in SUBSET w
         /\ \A m \in w : m.kind \notin kinds => m \in Form!Cancelled(kinds, w)
  BY DEF Form!Cancelled

\* A new message is live and carries its draft.
LEMMA FormNewMessage ==
  ASSUME NEW kind \in Form!Kind, NEW draft \in Form!Drafts
  PROVE  /\ Form!Message(kind, draft) \in Form!Messages
         /\ Form!Message(kind, draft).kind = kind
         /\ Form!Message(kind, draft).draft = draft
         /\ Form!Message(kind, draft).live
  BY DEF Form!Message, Form!Messages

\* The drafts of a typed state are drafts.
LEMMA FormDraftIsDraft == Form!TypeOK => Form!Draft \in Form!Drafts /\ Form!NoDraft \in Form!Drafts
  BY DEF Form!TypeOK, Form!Forms, Form!Pickers, Form!Draft, Form!NoDraft, Form!Drafts, Form!Field

\* The invariant holds when the screen opens.
LEMMA FormInitIInv == Form!Init => Form!IInv
  BY
     DEF Form!Init, Form!IInv, Form!TypeOK, Form!OneThing, Form!SavesOK, Form!PastesOK,
         Form!ListsOK, Form!SuspendedIsKept, Form!CreatedIsListed, Form!AwaitedIsComing,
         Form!Closed, Form!NoPicker, Form!NoDraft, Form!Drafts, Form!Field, Form!Draft,
         Form!Forms, Form!Pickers

USE DEF Form!Kind

\* A new form stops everything and asks for its list.
LEMMA FormStartFormPreserves == ASSUME Form!IInv, Form!StartForm PROVE Form!IInv'
<1>0. PICK ending \in BOOLEAN :
       /\ x2' = [Form!Closed EXCEPT !.open = TRUE, !.ending = ending,
                                 !.index = IF ending THEN Form!Time ELSE 0]
       /\ x3' = [Form!NoPicker EXCEPT !.loading = ~ending]
       /\ x5' = Form!Stopped({"list", "paste", "create", "save"})
                  \cup (IF ending THEN {} ELSE {Form!Message("list", Form!NoDraft)})
  BY DEF Form!StartForm
<1>1. /\ Form!Stopped({"list", "paste", "create", "save"}) \in SUBSET Form!Messages
      /\ \A m \in Form!Stopped({"list", "paste", "create", "save"}) : ~m.live
  BY FormStoppedMessages DEF Form!IInv, Form!TypeOK, Form!Messages
<1>2. Form!Message("list", Form!NoDraft) \in Form!Messages
      /\ Form!Message("list", Form!NoDraft).kind = "list"
      /\ Form!Message("list", Form!NoDraft).live
  BY FormNewMessage, FormDraftIsDraft DEF Form!IInv
<1>3. /\ ~x2.open /\ x6 = {} /\ ~x4.open
      /\ x6' = x6 /\ x4' = x4 /\ x7' = x7 /\ x1' = x1
  BY DEF Form!IInv, Form!OneThing, Form!StartForm, Form!TypeOK
<1>4. \A m \in x5' : m.live => m.kind = "list" /\ ~ending
  BY <1>0, <1>1, <1>2
<1>5. /\ x2'.open /\ ~x2'.saving /\ ~x2'.suspended
      /\ x2'.index \in Form!Field /\ x3'.items = {} /\ x3'.loading = ~ending
  BY <1>0 DEF Form!Closed, Form!NoPicker, Form!Field, Form!Time
<1>6. Form!TypeOK'
  <2>1. x5' \in SUBSET Form!Messages
    BY <1>0, <1>1, <1>2
  <2>2. Form!Closed \in Form!Forms
    BY DEF Form!Closed, Form!Forms, Form!Field
  <2>3. x2' \in Form!Forms
    <3>1. (IF ending THEN Form!Time ELSE 0) \in Form!Field
      BY DEF Form!Field, Form!Time
    <3> QED BY <1>0, <2>2, <3>1 DEF Form!Forms
  <2>4. x3' \in Form!Pickers
    BY <1>0 DEF Form!NoPicker, Form!Pickers
  <2> QED BY <1>3, <2>1, <2>3, <2>4 DEF Form!IInv, Form!TypeOK
<1>7. Form!OneThing' /\ Form!SavesOK' /\ Form!PastesOK' /\ Form!ListsOK'
  BY <1>3, <1>4, <1>5 DEF Form!OneThing, Form!SavesOK, Form!PastesOK, Form!ListsOK
<1>8. Form!SuspendedIsKept' /\ Form!CreatedIsListed' /\ Form!AwaitedIsComing'
  BY <1>0, <1>2, <1>3, <1>5
     DEF Form!SuspendedIsKept, Form!CreatedIsListed, Form!AwaitedIsComing, Form!Coming
<1> QED BY <1>6, <1>7, <1>8 DEF Form!IInv

\* A key in an open form that neither saves nor waits: no save is live, the list that is
\* awaited stays, and a live paste is one that fits the form.
LEMMA FormKeyPreserves ==
  ASSUME Form!IInv, Form!Keys, Form!History,
         x2' \in Form!Forms, x2'.open, ~x2'.saving, ~x2'.suspended,
         x3' \in Form!Pickers, x3'.loading = x3.loading, x3'.items = x3.items,
         x5' \in SUBSET Form!Messages,
         \A m \in x5' : m.live =>
           \/ m \in x5 /\ m.kind # "paste"
           \/ m.kind = "paste" /\ m.draft.index = x2'.index /\ m.draft.text = x2'.text,
         \A m \in x5 : m.kind # "paste" => m \in x5'
  PROVE  Form!IInv'
<1>1. x2.open /\ ~x2.saving /\ ~x2.suspended /\ ~x4.open
      /\ x6' = x6 /\ x7' = x7 /\ x4' = x4 /\ x1' = x1
  BY DEF Form!IInv, Form!OneThing, Form!Keys, Form!History
<1>2. Form!TypeOK' /\ Form!OneThing'
  BY <1>1 DEF Form!IInv, Form!TypeOK, Form!OneThing
<1>3. Form!SavesOK' /\ Form!PastesOK' /\ Form!ListsOK'
  BY <1>1 DEF Form!IInv, Form!SavesOK, Form!PastesOK, Form!ListsOK
<1>4. Form!SuspendedIsKept' /\ Form!CreatedIsListed' /\ Form!AwaitedIsComing'
  BY <1>1
     DEF Form!IInv, Form!SuspendedIsKept, Form!CreatedIsListed, Form!AwaitedIsComing, Form!Coming
<1> QED BY <1>2, <1>3, <1>4 DEF Form!IInv

\* What stopping pastes leaves, in the form KeyPreserves asks for.
LEMMA FormRevisedMessages ==
  ASSUME Form!IInv, Form!Revised
  PROVE  /\ x5' \in SUBSET Form!Messages
         /\ \A m \in x5' : m.live => m \in x5 /\ m.kind # "paste"
         /\ \A m \in x5 : m.kind # "paste" => m \in x5'
<1>1. {"paste"} \in SUBSET Form!Kind /\ x5 \in SUBSET Form!Messages
  BY DEF Form!IInv, Form!TypeOK
<1> QED BY <1>1, FormStoppedMessages DEF Form!Revised

\* Keys that change only what the picker shows or takes.
LEMMA FormPickerKeysPreserve ==
  ASSUME Form!IInv,
         Form!CancelPicker \/ Form!OpenPicker \/ Form!SearchRows \/ Form!MoveRow
           \/ Form!ConfirmPicker
  PROVE  Form!IInv'
<1>1. Form!Keys /\ Form!History /\ x2' = x2 /\ x5' = x5
  BY DEF Form!CancelPicker, Form!OpenPicker, Form!SearchRows, Form!MoveRow, Form!ConfirmPicker
<1>2. x2 \in Form!Forms /\ x3 \in Form!Pickers /\ x5 \in SUBSET Form!Messages
      /\ x2.open /\ ~x2.saving /\ ~x2.suspended
  BY <1>1 DEF Form!IInv, Form!TypeOK, Form!Keys
<1>3. x3' \in Form!Pickers /\ x3'.loading = x3.loading /\ x3'.items = x3.items
  <2>1. CASE Form!CancelPicker
    BY <1>2, <2>1 DEF Form!CancelPicker, Form!Pickers
  <2>2. CASE Form!OpenPicker
    BY <1>2, <2>2 DEF Form!OpenPicker, Form!Pickers
  <2>3. CASE Form!SearchRows
    BY <1>2, <2>3 DEF Form!SearchRows, Form!Pickers
  <2>4. CASE Form!MoveRow
    <3>1. PICK row \in x3.items \cup {0} : x3' = [x3 EXCEPT !.row = row]
      BY <2>4 DEF Form!MoveRow
    <3>2. row \in Nat
      BY <1>2 DEF Form!Pickers
    <3> QED BY <1>2, <3>1, <3>2 DEF Form!Pickers
  <2>5. CASE Form!ConfirmPicker
    BY <1>2, <2>5 DEF Form!ConfirmPicker, Form!Pickers
  <2> QED BY <2>1, <2>2, <2>3, <2>4, <2>5
<1>4. \A m \in x5 : m.kind = "paste" /\ m.live =>
        m.draft.index = x2.index /\ m.draft.text = x2.text
  BY <1>2 DEF Form!IInv, Form!PastesOK
<1> QED BY <1>1, <1>2, <1>3, <1>4, FormKeyPreserves

\* Keys that change the draft stop a paste.
LEMMA FormDraftKeysPreserve ==
  ASSUME Form!IInv, Form!Tab \/ Form!Type \/ Form!ToggleSubject
  PROVE  Form!IInv'
<1>1. Form!Keys /\ Form!History /\ Form!Revised
  BY DEF Form!Tab, Form!Type, Form!ToggleSubject, Form!TabRevised
<1>2. x2 \in Form!Forms /\ x3 \in Form!Pickers /\ x2.open /\ ~x2.saving /\ ~x2.suspended
  BY <1>1 DEF Form!IInv, Form!TypeOK, Form!Keys
<1>3. x2' \in Form!Forms /\ x2'.open /\ ~x2'.saving /\ ~x2'.suspended
  <2>1. CASE Form!Tab
    <3>1. PICK step \in {1, 2} : x2' = [x2 EXCEPT !.index = (x2.index + step) % 3]
      BY <2>1 DEF Form!Tab
    <3>2. x2.index \in {0, 1, 2}
      BY <1>2 DEF Form!Forms, Form!Field
    <3>3. (x2.index + step) % 3 \in Form!Field
      BY <3>2 DEF Form!Field
    <3> QED BY <1>2, <3>1, <3>3 DEF Form!Forms
  <2>2. CASE Form!Type
    <3>1. x2' = [x2 EXCEPT !.text = [x2.text EXCEPT ![x2.index] = @ + 1]]
      BY <2>2 DEF Form!Type, Form!Typed
    <3>2. [x2.text EXCEPT ![x2.index] = @ + 1] \in [Form!Field -> Nat]
      BY <1>2 DEF Form!Forms
    <3> QED BY <1>2, <3>1, <3>2 DEF Form!Forms
  <2>3. CASE Form!ToggleSubject
    BY <1>2, <2>3 DEF Form!ToggleSubject
  <2> QED BY <2>1, <2>2, <2>3
<1>4. x3' \in Form!Pickers /\ x3'.loading = x3.loading /\ x3'.items = x3.items
  <2>1. CASE Form!Tab
    BY <1>2, <2>1 DEF Form!Tab
  <2>2. CASE Form!Type
    BY <1>2, <2>2 DEF Form!Type, Form!Rows, Form!Pickers
  <2>3. CASE Form!ToggleSubject
    <3>1. Form!Toggled(x3.selected, x3.row) \in SUBSET Nat
      BY <1>2 DEF Form!Toggled, Form!Pickers
    <3>2. x3' = [x3 EXCEPT !.selected = Form!Toggled(x3.selected, x3.row)]
      BY <2>3 DEF Form!ToggleSubject
    <3> QED BY <1>2, <3>1, <3>2 DEF Form!Pickers
  <2> QED BY <2>1, <2>2, <2>3
<1> QED BY <1>1, <1>3, <1>4, FormKeyPreserves, FormRevisedMessages

\* A paste carries the draft it is asked for.
LEMMA FormAskPastePreserves == ASSUME Form!IInv, Form!AskPaste PROVE Form!IInv'
<1>1. /\ Form!Keys /\ Form!History /\ x2' = x2 /\ x3' = x3
      /\ x5' = Form!Cancelled({"paste"}, x5) \cup {Form!Message("paste", Form!Draft)}
  BY DEF Form!AskPaste
<1>2. x2 \in Form!Forms /\ x3 \in Form!Pickers /\ x5 \in SUBSET Form!Messages
      /\ x2.open /\ ~x2.saving /\ ~x2.suspended
  BY <1>1 DEF Form!IInv, Form!TypeOK, Form!Keys
<1>3. Form!Cancelled({"paste"}, x5) \in SUBSET x5
      /\ \A m \in x5 : m.kind # "paste" => m \in Form!Cancelled({"paste"}, x5)
  BY FormCancelledMessages
<1>4. Form!Draft \in Form!Drafts /\ Form!Draft.index = x2.index /\ Form!Draft.text = x2.text
  BY FormDraftIsDraft DEF Form!IInv, Form!Draft
<1>5. Form!Message("paste", Form!Draft) \in Form!Messages
      /\ Form!Message("paste", Form!Draft).kind = "paste"
      /\ Form!Message("paste", Form!Draft).draft = Form!Draft
  BY <1>4, FormNewMessage
<1>6. \A m \in x5 : m.kind = "paste" /\ m.live =>
        m.draft.index = x2.index /\ m.draft.text = x2.text
  BY <1>2 DEF Form!IInv, Form!PastesOK
<1>7. x5' \in SUBSET Form!Messages
  BY <1>1, <1>2, <1>3, <1>5
<1>8. \A m \in x5' : m.live =>
           \/ m \in x5 /\ m.kind # "paste"
           \/ m.kind = "paste" /\ m.draft.index = x2'.index /\ m.draft.text = x2'.text
  BY <1>1, <1>3, <1>4, <1>5, <1>6
<1> QED BY <1>1, <1>2, <1>3, <1>7, <1>8, FormKeyPreserves

\* Leaving the form stops everything.
LEMMA FormCancelFormPreserves == ASSUME Form!IInv, Form!CancelForm PROVE Form!IInv'
<1>1. /\ Form!Stopped({"list", "paste", "create", "save"}) \in SUBSET Form!Messages
      /\ \A m \in Form!Stopped({"list", "paste", "create", "save"}) : ~m.live
  BY FormStoppedMessages DEF Form!IInv, Form!TypeOK, Form!Messages
<1>2. /\ x2' = Form!Closed /\ x3' = Form!NoPicker /\ x6' = {} /\ x7' = Form!NoDraft
      /\ x4' = x4 /\ x1' = x1
      /\ x5' \in SUBSET Form!Messages /\ \A m \in x5' : ~m.live
  BY <1>1 DEF Form!CancelForm, Form!Keys
<1>3. ~x4.open
  BY DEF Form!CancelForm, Form!Keys, Form!IInv, Form!OneThing
<1>4. Form!Closed \in Form!Forms /\ Form!NoPicker \in Form!Pickers /\ Form!NoDraft \in Form!Drafts
      /\ ~Form!Closed.open /\ ~Form!Closed.saving /\ ~Form!Closed.suspended
      /\ ~Form!NoPicker.loading
  BY
     DEF Form!Closed, Form!NoPicker, Form!NoDraft, Form!Forms, Form!Pickers, Form!Drafts,
         Form!Field
<1>5. Form!TypeOK' /\ Form!OneThing'
  BY <1>2, <1>3, <1>4 DEF Form!IInv, Form!TypeOK, Form!OneThing
<1>6. Form!SavesOK' /\ Form!PastesOK' /\ Form!ListsOK'
  BY <1>2 DEF Form!SavesOK, Form!PastesOK, Form!ListsOK
<1>7. Form!SuspendedIsKept' /\ Form!CreatedIsListed' /\ Form!AwaitedIsComing'
  BY <1>2, <1>4 DEF Form!SuspendedIsKept, Form!CreatedIsListed, Form!AwaitedIsComing
<1> QED BY <1>5, <1>6, <1>7 DEF Form!IInv

\* A draft that is left for a Subject is kept, and its request is under way.
LEMMA FormCreateSubjectPreserves == ASSUME Form!IInv, Form!CreateSubject PROVE Form!IInv'
<1> DEFINE asked == [Form!Message("create", Form!NoDraft) EXCEPT !.ran = TRUE]
<1>1. /\ x2.open /\ ~x2.saving /\ ~x2.suspended /\ ~x4.open
      /\ x2' = [x2 EXCEPT !.suspended = TRUE]
      /\ x5' = Form!Stopped({"paste"}) \cup {asked}
      /\ x7' = Form!Draft /\ x3' = x3 /\ x6' = x6
      /\ x4' = x4 /\ x1' = x1
  BY DEF Form!CreateSubject, Form!Keys, Form!IInv, Form!OneThing
<1>2. /\ Form!Stopped({"paste"}) \in SUBSET Form!Messages
      /\ \A m \in Form!Stopped({"paste"}) : m.live => m \in x5 /\ m.kind # "paste"
      /\ \A m \in x5 : m.kind # "paste" => m \in Form!Stopped({"paste"})
  BY FormStoppedMessages DEF Form!IInv, Form!TypeOK
<1>3. asked \in Form!Messages /\ asked.kind = "create" /\ asked.live
  <2>1. Form!NoDraft \in Form!Drafts
    BY FormDraftIsDraft DEF Form!IInv
  <2>2. Form!Message("create", Form!NoDraft) \in Form!Messages
        /\ Form!Message("create", Form!NoDraft).kind = "create"
        /\ Form!Message("create", Form!NoDraft).live
    BY <2>1, FormNewMessage
  <2>3. ASSUME NEW m \in Form!Messages
        PROVE  /\ [m EXCEPT !.ran = TRUE] \in Form!Messages
               /\ [m EXCEPT !.ran = TRUE].kind = m.kind
               /\ [m EXCEPT !.ran = TRUE].live = m.live
    BY <2>3 DEF Form!Messages
  <2> QED BY <2>2, <2>3
<1> HIDE DEF asked
<1>4. x2' \in Form!Forms /\ x2'.open /\ ~x2'.saving /\ x2'.suspended
      /\ x2'.index = x2.index /\ x2'.text = x2.text
  BY <1>1 DEF Form!IInv, Form!TypeOK, Form!Forms
<1>5. Form!Draft' = Form!Draft /\ Form!Draft \in Form!Drafts
  BY <1>1, <1>4, FormDraftIsDraft DEF Form!IInv, Form!Draft
<1>6. x5' \in SUBSET Form!Messages /\ asked \in x5'
      /\ \A m \in x5' : m.live => m.kind = "create" \/ (m \in x5 /\ m.kind # "paste")
  BY <1>1, <1>2, <1>3
<1>7. Form!TypeOK' /\ Form!OneThing'
  BY <1>1, <1>4, <1>5, <1>6 DEF Form!IInv, Form!TypeOK, Form!OneThing
<1>8. Form!SavesOK' /\ Form!PastesOK' /\ Form!ListsOK'
  BY <1>1, <1>6 DEF Form!IInv, Form!SavesOK, Form!PastesOK, Form!ListsOK
<1>9. Form!SuspendedIsKept' /\ Form!CreatedIsListed'
  BY <1>1, <1>5 DEF Form!IInv, Form!SuspendedIsKept, Form!CreatedIsListed
<1>10. Form!AwaitedIsComing'
  <2>1. x3.loading => \E m \in x5' : m.kind = "list" /\ m.live
    BY <1>1, <1>2 DEF Form!IInv, Form!AwaitedIsComing, Form!Coming
  <2> QED BY <1>1, <1>3, <1>4, <1>6, <2>1 DEF Form!AwaitedIsComing, Form!Coming
<1> QED BY <1>7, <1>8, <1>9, <1>10 DEF Form!IInv

\* A save carries the draft that stays until it is answered.
LEMMA FormSavePreserves == ASSUME Form!IInv, Form!Save PROVE Form!IInv'
<1> DEFINE save == Form!Message("save", Form!Draft)
<1>1. /\ x2.open /\ ~x2.saving /\ ~x2.suspended /\ ~x4.open
      /\ x2' = [x2 EXCEPT !.saving = TRUE]
      /\ x5' = Form!Cancelled({"paste"}, x5) \cup {save}
      /\ x7' = x7 /\ x3' = x3 /\ x6' = x6
      /\ x4' = x4 /\ x1' = x1
  BY DEF Form!Save, Form!Keys, Form!History, Form!IInv, Form!OneThing
<1>2. /\ Form!Cancelled({"paste"}, x5) \in SUBSET x5
      /\ \A m \in x5 : m.kind # "paste" => m \in Form!Cancelled({"paste"}, x5)
  BY FormCancelledMessages
<1>3. Form!Draft \in Form!Drafts
  BY FormDraftIsDraft DEF Form!IInv
<1>4. save \in Form!Messages /\ save.kind = "save" /\ save.draft = Form!Draft /\ save.live
  BY <1>3, FormNewMessage
<1> HIDE DEF save
<1>5. x2' \in Form!Forms /\ x2'.open /\ x2'.saving /\ ~x2'.suspended
      /\ x2'.index = x2.index /\ x2'.text = x2.text
  BY <1>1 DEF Form!IInv, Form!TypeOK, Form!Forms
<1>6. Form!Draft' = Form!Draft
  BY <1>1, <1>5 DEF Form!Draft
<1>7. x5' \in SUBSET Form!Messages /\ save \in x5'
      /\ \A m \in x5' : m.live =>
           m = save \/ (m \in x5 /\ m.kind # "save")
  BY <1>1, <1>2, <1>4 DEF Form!IInv, Form!TypeOK, Form!SavesOK
<1>8. Form!TypeOK' /\ Form!OneThing'
  BY <1>1, <1>5, <1>7 DEF Form!IInv, Form!TypeOK, Form!OneThing
<1>9. Form!SavesOK'
  <2>1. \A m \in x5' : m.kind = "save" /\ m.live => m = save
    BY <1>7
  <2> QED BY <1>4, <1>5, <1>6, <2>1 DEF Form!SavesOK
<1>10. Form!PastesOK' /\ Form!ListsOK'
  BY <1>1, <1>4, <1>5, <1>7 DEF Form!IInv, Form!PastesOK, Form!ListsOK
<1>11. Form!SuspendedIsKept' /\ Form!CreatedIsListed'
  BY <1>1, <1>5 DEF Form!IInv, Form!SuspendedIsKept, Form!CreatedIsListed
<1>12. Form!AwaitedIsComing'
  <2>1. x3.loading => \E m \in x5' : m.kind = "list" /\ m.live
    BY <1>1, <1>2 DEF Form!IInv, Form!AwaitedIsComing, Form!Coming
  <2> QED BY <1>1, <1>4, <1>5, <1>7, <2>1 DEF Form!AwaitedIsComing, Form!Coming
<1> QED BY <1>8, <1>9, <1>10, <1>11, <1>12 DEF Form!IInv

\* A command that runs stays what it is: only its answer is filled in.
LEMMA FormRunPreserves ==
  ASSUME Form!IInv, NEW n \in x5, Form!Run(n)
  PROVE  Form!IInv'
<1>1. PICK ok \in BOOLEAN :
        x5' = (x5 \ {n}) \cup {[n EXCEPT !.ran = TRUE, !.ok = ok,
                                             !.items = IF n.kind = "list" THEN x1 ELSE {}]}
  BY DEF Form!Run
<1> DEFINE items == IF n.kind = "list" THEN x1 ELSE {}
           answer == [n EXCEPT !.ran = TRUE, !.ok = ok, !.items = items]
<1>2. x2' = x2 /\ x3' = x3 /\ x4' = x4 /\ x1' = x1
      /\ x6' = x6 /\ x7' = x7 /\ x5 \in SUBSET Form!Messages
  BY DEF Form!Run, Form!History, Form!IInv, Form!TypeOK
<1>3. answer \in Form!Messages /\ answer.kind = n.kind /\ answer.draft = n.draft
      /\ answer.live = n.live
  <2>1. items \in SUBSET Nat /\ n \in Form!Messages
    BY <1>2 DEF Form!IInv, Form!TypeOK
  <2> HIDE DEF items
  <2> QED BY <2>1 DEF Form!Messages
<1>4. x5' = (x5 \ {n}) \cup {answer}
  BY <1>1
<1> HIDE DEF answer
<1>5. Form!TypeOK' /\ Form!OneThing'
  BY <1>2, <1>3, <1>4 DEF Form!IInv, Form!TypeOK, Form!OneThing
<1>6. Form!SavesOK'
  BY <1>2, <1>3, <1>4 DEF Form!IInv, Form!SavesOK, Form!Draft
<1>7. Form!PastesOK' /\ Form!ListsOK'
  BY <1>2, <1>3, <1>4 DEF Form!IInv, Form!PastesOK, Form!ListsOK
<1>8. Form!SuspendedIsKept' /\ Form!CreatedIsListed'
  BY <1>2 DEF Form!IInv, Form!SuspendedIsKept, Form!CreatedIsListed, Form!Draft
<1>9. Form!AwaitedIsComing'
  BY <1>2, <1>3, <1>4 DEF Form!IInv, Form!AwaitedIsComing, Form!Coming
<1> QED BY <1>5, <1>6, <1>7, <1>8, <1>9 DEF Form!IInv

\* What is awaited is never dropped.
LEMMA FormDropPreserves ==
  ASSUME Form!IInv, NEW n \in x5, Form!Drop(n)
  PROVE  Form!IInv'
<1>1. x2' = x2 /\ x3' = x3 /\ x4' = x4 /\ x1' = x1
      /\ x6' = x6 /\ x7' = x7 /\ x5' = x5 \ {n} /\ n.kind # "create"
      /\ (Form!Owned(n) => n.kind = "paste")
  BY DEF Form!Drop, Form!Taken, Form!History
<1>2. Form!TypeOK' /\ Form!OneThing'
  BY <1>1 DEF Form!IInv, Form!TypeOK, Form!OneThing
<1>3. Form!SavesOK' /\ Form!PastesOK' /\ Form!ListsOK'
  BY <1>1 DEF Form!IInv, Form!SavesOK, Form!PastesOK, Form!ListsOK, Form!Draft
<1>4. Form!SuspendedIsKept' /\ Form!CreatedIsListed'
  BY <1>1 DEF Form!IInv, Form!SuspendedIsKept, Form!CreatedIsListed, Form!Draft
<1>5. Form!AwaitedIsComing'
  BY <1>1 DEF Form!IInv, Form!OneThing, Form!Owned, Form!AwaitedIsComing, Form!Coming
<1> QED BY <1>2, <1>3, <1>4, <1>5 DEF Form!IInv

\* A list that is taken was asked for before anything was created.
LEMMA FormTakeSubjectsPreserves ==
  ASSUME Form!IInv, NEW n \in x5, Form!TakeSubjects(n)
  PROVE  Form!IInv'
<1>1. x2' = x2 /\ x4' = x4 /\ x1' = x1 /\ x6' = x6 /\ x7' = x7
      /\ x5' = x5 \ {n} /\ n.kind = "list" /\ n.live
      /\ x3' = [x3 EXCEPT !.loading = FALSE, !.row = 0,
                                  !.items = IF n.ok THEN n.items ELSE @]
  BY DEF Form!TakeSubjects, Form!Taken, Form!Owned, Form!History
<1> DEFINE items == IF n.ok THEN n.items ELSE x3.items
<1>2. x3 \in Form!Pickers /\ n \in Form!Messages
  BY DEF Form!IInv, Form!TypeOK
<1>3. items \in SUBSET Nat
  BY <1>2 DEF Form!Pickers, Form!Messages
<1>4. x3' = [x3 EXCEPT !.loading = FALSE, !.row = 0, !.items = items]
  BY <1>1
<1> HIDE DEF items
<1>5. x3' \in Form!Pickers /\ ~x3'.loading /\ x3'.selected = x3.selected
  BY <1>2, <1>3, <1>4 DEF Form!Pickers
<1>6. Form!Draft' = Form!Draft
  BY <1>1, <1>5 DEF Form!Draft
<1>7. Form!TypeOK' /\ Form!OneThing'
  BY <1>1, <1>5 DEF Form!IInv, Form!TypeOK, Form!OneThing
<1>8. Form!SavesOK' /\ Form!PastesOK' /\ Form!ListsOK'
  BY <1>1, <1>6 DEF Form!IInv, Form!SavesOK, Form!PastesOK, Form!ListsOK
<1>9. Form!SuspendedIsKept' /\ Form!CreatedIsListed'
  BY <1>1, <1>6 DEF Form!IInv, Form!ListsOK, Form!SuspendedIsKept, Form!CreatedIsListed
<1>10. Form!AwaitedIsComing'
  BY <1>1, <1>5 DEF Form!IInv, Form!AwaitedIsComing, Form!Coming
<1> QED BY <1>7, <1>8, <1>9, <1>10 DEF Form!IInv

\* A paste is taken once: no other is live afterwards.
LEMMA FormTakePastePreserves ==
  ASSUME Form!IInv, NEW n \in x5, Form!TakePaste(n)
  PROVE  Form!IInv'
<1>1. /\ x2' = [x2 EXCEPT !.text[x2.index] = @ + 1] /\ x3' = Form!Rows
      /\ x5' = Form!Passed({"paste"}, Form!Cancelled({"paste"}, x5 \ {n}))
      /\ x4' = x4 /\ x1' = x1 /\ x6' = x6 /\ x7' = x7
      /\ n.kind = "paste" /\ n.live
      /\ x2.open /\ ~x2.saving /\ ~x2.suspended /\ ~x4.open
  BY
     DEF Form!TakePaste, Form!Typed, Form!Owned, Form!Freezes, Form!History, Form!IInv,
         Form!OneThing
<1>2. x2 \in Form!Forms /\ x3 \in Form!Pickers /\ x5 \in SUBSET Form!Messages
  BY DEF Form!IInv, Form!TypeOK
<1>3. x2' \in Form!Forms /\ x2'.open /\ ~x2'.saving /\ ~x2'.suspended
  <2>1. x2' = [x2 EXCEPT !.text = [x2.text EXCEPT ![x2.index] = @ + 1]]
    BY <1>1
  <2>2. [x2.text EXCEPT ![x2.index] = @ + 1] \in [Form!Field -> Nat]
    BY <1>2 DEF Form!Forms
  <2> QED BY <1>1, <1>2, <2>1, <2>2 DEF Form!Forms
<1>4. x3' \in Form!Pickers /\ x3'.loading = x3.loading /\ x3'.items = x3.items
  BY <1>1, <1>2 DEF Form!Rows, Form!Pickers
<1>5. /\ x5' \in SUBSET Form!Messages
      /\ \A m \in x5' : m.live => m \in x5 /\ m.kind # "paste"
      /\ \A m \in x5 : m.kind # "paste" => m \in x5'
  <2>1. Form!NoDraft \in Form!Drafts
    BY FormDraftIsDraft DEF Form!IInv
  <2>2. ASSUME NEW m \in Form!Messages
        PROVE  /\ [m EXCEPT !.live = FALSE, !.draft = Form!NoDraft] \in Form!Messages
               /\ [m EXCEPT !.live = FALSE, !.draft = Form!NoDraft].live = FALSE
    BY <2>1, <2>2 DEF Form!Messages
  <2> QED BY <1>1, <1>2, <2>2 DEF Form!Passed, Form!Cancelled
<1>6. Form!TypeOK' /\ Form!OneThing'
  BY <1>1, <1>3, <1>4, <1>5 DEF Form!IInv, Form!TypeOK, Form!OneThing
<1>7. Form!SavesOK' /\ Form!PastesOK' /\ Form!ListsOK'
  BY <1>1, <1>5 DEF Form!IInv, Form!SavesOK, Form!PastesOK, Form!ListsOK
<1>8. Form!SuspendedIsKept' /\ Form!CreatedIsListed' /\ Form!AwaitedIsComing'
  BY <1>1, <1>3, <1>4, <1>5
     DEF Form!IInv, Form!SuspendedIsKept, Form!CreatedIsListed, Form!AwaitedIsComing, Form!Coming
<1> QED BY <1>6, <1>7, <1>8 DEF Form!IInv

\* The one live save is answered: the form closes, or is edited again.
LEMMA FormTakeSavePreserves ==
  ASSUME Form!IInv, NEW n \in x5, Form!TakeSave(n)
  PROVE  Form!IInv'
<1>1. /\ n.kind = "save" /\ n.live /\ x5' = x5 \ {n}
      /\ x4' = x4 /\ x1' = x1
  BY DEF Form!TakeSave, Form!Taken, Form!Owned
<1>2. x2.open /\ x2.saving /\ ~x2.suspended /\ ~x4.open
  BY <1>1 DEF Form!IInv, Form!SavesOK, Form!OneThing
<1>3. \A m \in x5' : m.live => m.kind # "save"
  BY <1>1 DEF Form!IInv, Form!SavesOK
<1>4. CASE n.ok
  <2>1. x2' = Form!Closed /\ x3' = Form!NoPicker /\ x6' = {} /\ x7' = Form!NoDraft
    BY <1>4 DEF Form!TakeSave
  <2>2. Form!Closed \in Form!Forms /\ Form!NoPicker \in Form!Pickers
        /\ Form!NoDraft \in Form!Drafts
        /\ ~Form!Closed.open /\ ~Form!Closed.saving /\ ~Form!Closed.suspended
        /\ ~Form!NoPicker.loading
    BY
       DEF Form!Closed, Form!NoPicker, Form!NoDraft, Form!Forms, Form!Pickers, Form!Drafts,
           Form!Field
  <2>3. Form!TypeOK' /\ Form!OneThing'
    BY <1>1, <1>2, <2>1, <2>2 DEF Form!IInv, Form!TypeOK, Form!OneThing
  <2>4. Form!SavesOK' /\ Form!PastesOK' /\ Form!ListsOK'
    BY <1>3, <2>1, <2>2 DEF Form!SavesOK, Form!PastesOK, Form!ListsOK
  <2>5. Form!SuspendedIsKept' /\ Form!CreatedIsListed' /\ Form!AwaitedIsComing'
    BY <2>1, <2>2 DEF Form!SuspendedIsKept, Form!CreatedIsListed, Form!AwaitedIsComing
  <2> QED BY <2>3, <2>4, <2>5 DEF Form!IInv
<1>5. CASE ~n.ok
  <2>1. x2' = [x2 EXCEPT !.saving = FALSE] /\ x3' = x3
        /\ x6' = x6 /\ x7' = x7
    BY <1>5 DEF Form!TakeSave, Form!History
  <2>2. x2' \in Form!Forms /\ x2'.open /\ ~x2'.saving /\ ~x2'.suspended
        /\ x2'.index = x2.index /\ x2'.text = x2.text
    BY <1>2, <2>1 DEF Form!IInv, Form!TypeOK, Form!Forms
  <2>3. Form!TypeOK' /\ Form!OneThing'
    BY <1>1, <1>2, <2>1, <2>2 DEF Form!IInv, Form!TypeOK, Form!OneThing
  <2>4. Form!SavesOK' /\ Form!PastesOK' /\ Form!ListsOK'
    BY <1>1, <1>2, <1>3, <2>1, <2>2 DEF Form!IInv, Form!SavesOK, Form!PastesOK, Form!ListsOK
  <2>5. Form!SuspendedIsKept' /\ Form!CreatedIsListed'
    BY <2>1, <2>2 DEF Form!IInv, Form!SuspendedIsKept, Form!CreatedIsListed
  <2>6. Form!AwaitedIsComing'
    BY <1>1, <2>1, <2>2 DEF Form!IInv, Form!AwaitedIsComing, Form!Coming
  <2> QED BY <2>3, <2>4, <2>5, <2>6 DEF Form!IInv
<1> QED BY <1>4, <1>5

\* Only the root and its messages change: the draft and what is awaited from elsewhere stay.
LEMMA FormRootPreserves ==
  ASSUME Form!IInv, UNCHANGED <<x1, x2, x3>>, Form!History,
         x4' \in [open : BOOLEAN, saving : BOOLEAN],
         x4'.open => x2.suspended,
         x5' \in SUBSET x5,
         \A m \in x5 : m.kind # "create" => m \in x5',
         x2.suspended => (\E m \in x5' : m.kind = "create" /\ m.live) \/ x4'.open
  PROVE  Form!IInv'
<1>1. Form!TypeOK' /\ Form!OneThing'
  BY DEF Form!IInv, Form!TypeOK, Form!OneThing, Form!History
<1>2. Form!SavesOK' /\ Form!PastesOK' /\ Form!ListsOK'
  BY DEF Form!IInv, Form!SavesOK, Form!PastesOK, Form!ListsOK, Form!Draft, Form!History
<1>3. Form!SuspendedIsKept' /\ Form!CreatedIsListed'
  BY DEF Form!IInv, Form!SuspendedIsKept, Form!CreatedIsListed, Form!Draft, Form!History
<1>4. Form!AwaitedIsComing'
  BY DEF Form!IInv, Form!AwaitedIsComing, Form!Coming
<1> QED BY <1>1, <1>2, <1>3, <1>4 DEF Form!IInv

\* A request that the form waits for opens the root's screen.
LEMMA FormTakeRequestPreserves ==
  ASSUME Form!IInv, NEW n \in x5, Form!TakeRequest(n)
  PROVE  Form!IInv'
<1>1. /\ n.kind = "create" /\ x5' = x5 \ {n} /\ UNCHANGED <<x1, x2, x3>> /\ Form!History
      /\ x4' = IF n.live /\ x2.open /\ x2.suspended
                 THEN [open |-> TRUE, saving |-> FALSE] ELSE x4
  BY DEF Form!TakeRequest
<1>2. x4' \in [open : BOOLEAN, saving : BOOLEAN] /\ (x4'.open => x2.suspended)
  BY <1>1 DEF Form!IInv, Form!TypeOK, Form!OneThing
<1>3. x2.suspended => (\E m \in x5' : m.kind = "create" /\ m.live) \/ x4'.open
  BY <1>1 DEF Form!IInv, Form!OneThing, Form!AwaitedIsComing, Form!Coming
<1> QED BY <1>1, <1>2, <1>3, FormRootPreserves

\* A creation that begins or fails keeps the root's screen open.
LEMMA FormCreationPreserves ==
  ASSUME Form!IInv, Form!CreateAtRoot \/ Form!CreationFails
  PROVE  Form!IInv'
<1>1. /\ UNCHANGED <<x1, x2, x3, x5>> /\ Form!History /\ x4.open
      /\ \E saving \in BOOLEAN : x4' = [x4 EXCEPT !.saving = saving]
  BY DEF Form!CreateAtRoot, Form!CreationFails
<1>2. x4' \in [open : BOOLEAN, saving : BOOLEAN] /\ x4'.open
  BY <1>1 DEF Form!IInv, Form!TypeOK
<1>3. x2.suspended
  BY <1>1 DEF Form!IInv, Form!OneThing
<1> QED BY <1>1, <1>2, <1>3, FormRootPreserves

\* A Subject that returns is chosen, and no list that was asked for before can hide it.
LEMMA FormReturnWithSubjectPreserves == ASSUME Form!IInv, Form!ReturnWithSubject PROVE Form!IInv'
<1>1. PICK s \in Form!Subject \ x1 :
       /\ x1' = x1 \cup {s}
       /\ x6' = x6 \cup {s}
       /\ x3' = [x3 EXCEPT !.loading = FALSE, !.items = x3.items \cup {s},
                                   !.selected = x3.selected \cup {s}]
  BY DEF Form!ReturnWithSubject, Form!Unawaited
<1>2. /\ x2' = [x2 EXCEPT !.suspended = FALSE, !.index = Form!Search]
      /\ x7' = Form!NoDraft /\ x4' = [open |-> FALSE, saving |-> FALSE]
      /\ x5' = Form!Stopped({"list"})
      /\ x2.open /\ x2.suspended /\ ~x2.saving
  BY DEF Form!ReturnWithSubject, Form!Resumed, Form!Unawaited, Form!IInv, Form!OneThing
<1>3. /\ x5' \in SUBSET Form!Messages
      /\ \A m \in x5' : m.live => m \in x5 /\ m.kind # "list"
  BY <1>2, FormStoppedMessages DEF Form!IInv, Form!TypeOK
<1>4. x2' \in Form!Forms /\ x2'.open /\ ~x2'.saving /\ ~x2'.suspended
  <2>1. Form!Search \in Form!Field
    BY DEF Form!Search, Form!Field
  <2> QED BY <1>2, <2>1 DEF Form!IInv, Form!TypeOK, Form!Forms
<1>5. s \in Nat
  BY <1>1 DEF Form!Subject
<1>6. x3' \in Form!Pickers /\ ~x3'.loading /\ x3'.items = x3.items \cup {s}
  <2>1. x3.items \cup {s} \in SUBSET Nat /\ x3.selected \cup {s} \in SUBSET Nat
    BY <1>5 DEF Form!IInv, Form!TypeOK, Form!Pickers
  <2> QED BY <1>1, <2>1 DEF Form!IInv, Form!TypeOK, Form!Pickers
<1>7. Form!NoDraft \in Form!Drafts
  BY FormDraftIsDraft DEF Form!IInv
<1>8. Form!TypeOK' /\ Form!OneThing'
  BY <1>1, <1>2, <1>3, <1>4, <1>5, <1>6, <1>7 DEF Form!IInv, Form!TypeOK, Form!OneThing
<1>9. Form!SavesOK' /\ Form!PastesOK' /\ Form!ListsOK'
  BY <1>2, <1>3 DEF Form!IInv, Form!SavesOK, Form!PastesOK, Form!ListsOK
<1>10. Form!SuspendedIsKept' /\ Form!CreatedIsListed' /\ Form!AwaitedIsComing'
  BY <1>1, <1>4, <1>6
     DEF Form!IInv, Form!SuspendedIsKept, Form!CreatedIsListed, Form!AwaitedIsComing
<1> QED BY <1>8, <1>9, <1>10 DEF Form!IInv

\* A return without a Subject goes on with the draft that was left.
LEMMA FormReturnEmptyPreserves == ASSUME Form!IInv, Form!ReturnEmpty PROVE Form!IInv'
<1>1. /\ x2' = [x2 EXCEPT !.suspended = FALSE, !.index = Form!Search]
      /\ x7' = Form!NoDraft /\ x4' = [x4 EXCEPT !.open = FALSE]
      /\ UNCHANGED <<x1, x3, x5, x6>>
      /\ x2.open /\ x2.suspended /\ ~x2.saving
  BY DEF Form!ReturnEmpty, Form!Resumed, Form!IInv, Form!OneThing
<1>2. x2' \in Form!Forms /\ x2'.open /\ ~x2'.saving /\ ~x2'.suspended
  <2>1. Form!Search \in Form!Field
    BY DEF Form!Search, Form!Field
  <2> QED BY <1>1, <2>1 DEF Form!IInv, Form!TypeOK, Form!Forms
<1>3. Form!NoDraft \in Form!Drafts
  BY FormDraftIsDraft DEF Form!IInv
<1>4. Form!TypeOK' /\ Form!OneThing'
  BY <1>1, <1>2, <1>3 DEF Form!IInv, Form!TypeOK, Form!OneThing
<1>5. Form!SavesOK' /\ Form!PastesOK' /\ Form!ListsOK'
  BY <1>1 DEF Form!IInv, Form!SavesOK, Form!PastesOK, Form!ListsOK
<1>6. Form!SuspendedIsKept' /\ Form!CreatedIsListed' /\ Form!AwaitedIsComing'
  BY <1>1, <1>2
     DEF Form!IInv, Form!SuspendedIsKept, Form!CreatedIsListed, Form!AwaitedIsComing, Form!Coming
<1> QED BY <1>4, <1>5, <1>6 DEF Form!IInv

-----------------------------------------------------------------------------
\* Every step keeps the invariant.
LEMMA FormNextPreserves == ASSUME Form!IInv, Form!Next \/ UNCHANGED Form!vars PROVE Form!IInv'
<1>1. CASE UNCHANGED Form!vars
  BY <1>1
     DEF Form!vars, Form!IInv, Form!TypeOK, Form!OneThing, Form!SavesOK, Form!PastesOK,
         Form!ListsOK, Form!SuspendedIsKept, Form!CreatedIsListed, Form!AwaitedIsComing,
         Form!Coming, Form!Draft
<1>2. CASE Form!StartForm \/ Form!CancelForm \/ Form!CreateSubject \/ Form!Save
  BY <1>2, FormStartFormPreserves, FormCancelFormPreserves, FormCreateSubjectPreserves,
     FormSavePreserves
<1>3. CASE \/ Form!CancelPicker \/ Form!OpenPicker \/ Form!SearchRows \/ Form!MoveRow
           \/ Form!ConfirmPicker
           \/ Form!Tab \/ Form!Type \/ Form!ToggleSubject \/ Form!AskPaste
  BY <1>3, FormPickerKeysPreserve, FormDraftKeysPreserve, FormAskPastePreserves
<1>4. CASE Form!CreateAtRoot \/ Form!CreationFails \/ Form!ReturnWithSubject \/ Form!ReturnEmpty
  BY <1>4, FormCreationPreserves, FormReturnWithSubjectPreserves, FormReturnEmptyPreserves
<1>5. ASSUME NEW m \in x5,
             Form!Run(m) \/ Form!Drop(m) \/ Form!TakeSubjects(m) \/ Form!TakePaste(m)
               \/ Form!TakeSave(m)
             \/ Form!TakeRequest(m)
      PROVE  Form!IInv'
  BY <1>5, FormRunPreserves, FormDropPreserves, FormTakeSubjectsPreserves, FormTakePastePreserves,
     FormTakeSavePreserves, FormTakeRequestPreserves
<1> QED BY <1>1, <1>2, <1>3, <1>4, <1>5 DEF Form!Next

-----------------------------------------------------------------------------
(* The Subjects screen: x1 the Subjects and their changes, x2 the screen,  *)
(* x3 the list, x4 whether a conflict is shown, x5 the Subject selected,   *)
(* x6 its aliases, x7 the drafts suspended, x8 the returns that are set,   *)
(* x9 the screen gone back to, x10 the commands.                           *)

\* The cardinality that the screen counts with is that of the library's theorems.
LEMMA SubjectsCardinality == \A s : Subjects!Cardinality(s) = Cardinality(s)
  BY DEF Subjects!Cardinality, Cardinality

\* What a step leaves on the wire: the messages that it does not take, of which those of the
\* kinds K are no longer wanted, and the new ones.
SubjectsWireIs(K, gone, new) ==
  /\ x10' \in SUBSET Subjects!Messages
  /\ \A n \in x10' : Subjects!MessageOK(n)
  /\ \A n \in x10' : \/ n \in x10 /\ n \notin gone /\ (n.live => n.kind \notin K)
                     \/ ~n.live /\ n.kind \in K /\ \E o \in x10 : o.kind = n.kind
                     \/ n \in new
  /\ \A o \in x10 : o.kind \notin K /\ o \notin gone => o \in x10'
  /\ new \in SUBSET x10'

LEMMA SubjectsWireStays ==
  ASSUME Subjects!TypeOK, NEW gone, x10' = x10 \ gone
  PROVE  SubjectsWireIs({}, gone, {})
  BY DEF Subjects!TypeOK, SubjectsWireIs, Subjects!MessageOK

LEMMA SubjectsRetireFacts ==
  ASSUME Subjects!TypeOK, NEW K \in SUBSET Subjects!Kind
  PROVE  /\ Subjects!Retire(K) \in SUBSET Subjects!Messages
         /\ \A n \in Subjects!Retire(K) : Subjects!MessageOK(n)
         /\ \A n \in Subjects!Retire(K) :
              \/ n \in x10 /\ (n.live => n.kind \notin K)
              \/ ~n.live /\ n.kind \in K /\ \E o \in x10 : o.kind = n.kind
         /\ \A o \in x10 : o.kind \notin K => o \in Subjects!Retire(K)
<1>1. \A o \in x10 : o \in Subjects!Messages
  BY DEF Subjects!TypeOK
<1>2. ASSUME NEW n \in Subjects!Retire(K)
      PROVE  /\ n \in Subjects!Messages
             /\ Subjects!MessageOK(n)
             /\ \/ n \in x10 /\ (n.live => n.kind \notin K)
                \/ ~n.live /\ n.kind \in K /\ \E o \in x10 : o.kind = n.kind
  <2>1. PICK o \in x10 : n = IF o.kind \in K THEN [o EXCEPT !.live = FALSE] ELSE o
    BY <1>2 DEF Subjects!Retire
  <2>2. CASE o.kind \in K
    <3>1. n = [o EXCEPT !.live = FALSE] /\ o \in Subjects!Messages
      BY <1>1, <2>1, <2>2
    <3>2. n.kind = o.kind /\ n.subject = o.subject /\ n.live = FALSE /\ n.is = o.is
          /\ n \in Subjects!Messages
      BY <3>1 DEF Subjects!Messages
    <3> QED BY <2>2, <3>2 DEF Subjects!TypeOK, Subjects!MessageOK
  <2>3. CASE o.kind \notin K
    BY <1>1, <2>1, <2>3 DEF Subjects!TypeOK, Subjects!MessageOK
  <2> QED BY <2>2, <2>3
<1>3. \A o \in x10 : o.kind \notin K => o \in Subjects!Retire(K)
  BY DEF Subjects!Retire
<1> QED BY <1>2, <1>3

LEMMA SubjectsRetired ==
  ASSUME Subjects!TypeOK, NEW K \in SUBSET Subjects!Kind, NEW gone,
         x10' = Subjects!Retire(K) \ gone
  PROVE  SubjectsWireIs(K, gone, {})
  BY SubjectsRetireFacts DEF SubjectsWireIs

LEMMA SubjectsMessageFacts ==
  ASSUME NEW k \in Subjects!Kind, NEW s \in 0..MaxSubject
  PROVE  /\ Subjects!Message(k, s) \in Subjects!Messages
         /\ Subjects!Message(k, s).kind = k /\ Subjects!Message(k, s).subject = s
         /\ Subjects!Message(k, s).live = TRUE /\ Subjects!Message(k, s).is = "work"
  BY DEF Subjects!Message, Subjects!Messages

\* A read or a write of the kind k for the Subject s is asked for.
SubjectsIsAsked(g, k, s) == g.kind = k /\ g.subject = s /\ g.live /\ g.is = "work"

LEMMA SubjectsAsked ==
  ASSUME Subjects!TypeOK, NEW K \in SUBSET Subjects!Kind, NEW k \in Subjects!Kind,
         NEW s \in 0..MaxSubject, NEW gone,
         k \in {"get", "aliases", "alias"} => s # 0, NEW g, g = Subjects!Message(k, s),
         x10' = (Subjects!Retire(K) \ gone) \cup {g} \/ (K = {} /\ x10' = (x10 \ gone) \cup {g})
  PROVE  SubjectsWireIs(K, gone, {g}) /\ SubjectsIsAsked(g, k, s)
<1>1. g \in Subjects!Messages /\ SubjectsIsAsked(g, k, s)
  BY SubjectsMessageFacts DEF SubjectsIsAsked
<1>2. CASE x10' = (Subjects!Retire(K) \ gone) \cup {g}
  BY <1>1, <1>2, SubjectsRetireFacts DEF SubjectsWireIs, SubjectsIsAsked, Subjects!MessageOK
<1>3. CASE K = {} /\ x10' = (x10 \ gone) \cup {g}
  BY <1>1, <1>3 DEF SubjectsWireIs, SubjectsIsAsked, Subjects!MessageOK, Subjects!TypeOK
<1> QED BY <1>2, <1>3

LEMMA SubjectsSubjectsAreFew ==
  ASSUME NEW s \in SUBSET Subjects!Subject
  PROVE  Cardinality(s) \in 0..MaxSubject /\ (s # Subjects!Subject => Cardinality(s) < MaxSubject)
<1>1. IsFiniteSet(1..MaxSubject) /\ Cardinality(1..MaxSubject) = MaxSubject
  BY SubjectsAssumption, FS_Interval
<1>2. IsFiniteSet(s) /\ Cardinality(s) <= MaxSubject
      /\ (s # Subjects!Subject => Cardinality(s) # MaxSubject)
  BY <1>1, FS_Subset DEF Subjects!Subject
<1>3. Cardinality(s) \in Nat
  BY <1>2, FS_CardinalityType
<1> QED BY <1>2, <1>3, SubjectsAssumption

LEMMA SubjectsOpenListPreserves ==
  ASSUME Subjects!IInv, Subjects!OpenList
  PROVE  Subjects!IInv'
<1>0. PICK g : g = Subjects!Message("list", 0)
  OBVIOUS
<1>1. SubjectsWireIs(Subjects!Reads, {}, {g}) /\ SubjectsIsAsked(g, "list", 0)
  <2>1. x10' = (Subjects!Retire(Subjects!Reads) \ {}) \cup {g}
    BY <1>0 DEF Subjects!OpenList, Subjects!Read, Subjects!Others
  <2>2. Subjects!TypeOK /\ Subjects!Reads \in SUBSET Subjects!Kind /\ "list" \in Subjects!Kind
        /\ 0 \in 0..MaxSubject
    BY SubjectsAssumption
       DEF Subjects!OpenList, Subjects!Read, Subjects!Others, Subjects!IInv, Subjects!TypeOK,
           Subjects!Kind, Subjects!Reads, Subjects!Writes, Subjects!Drafts, Subjects!Messages,
           Subjects!Subject
  <2>3. "list" \in {"get", "aliases", "alias"} => 0 # 0
    BY SubjectsAssumption
       DEF Subjects!OpenList, Subjects!Read, Subjects!Others, Subjects!IInv, Subjects!TypeOK,
           Subjects!AliasOK, Subjects!Drafts, Subjects!MessageOK, Subjects!Subject
  <2> QED BY <1>0, <2>1, <2>2, <2>3, SubjectsAsked
<1>2. Subjects!TypeOK'
  BY <1>1
     DEF Subjects!OpenList, Subjects!Read, Subjects!Others, Subjects!IInv, Subjects!TypeOK,
         Subjects!Lists, Subjects!ScreenNames, SubjectsWireIs
<1>3. (Subjects!WaitsWhereAsked /\ Subjects!SuspendedDraftReturns)'
  BY
     DEF Subjects!OpenList, Subjects!Others, Subjects!IInv, Subjects!TypeOK,
         Subjects!WaitsWhereAsked, Subjects!SuspendedDraftReturns, Subjects!AskedOn,
         Subjects!Drafts
<1>4. (Subjects!Wanted /\ Subjects!OneWanted)'
  BY <1>1
     DEF Subjects!OpenList, Subjects!Others, Subjects!IInv, Subjects!Wanted, Subjects!OneWanted,
         Subjects!FormOf, SubjectsWireIs, Subjects!Writes, Subjects!Drafts, SubjectsIsAsked
<1>5. (Subjects!SawAll /\ Subjects!NothingLoads)'
  BY <1>1
     DEF Subjects!OpenList, Subjects!Others, Subjects!IInv, Subjects!SawAll,
         Subjects!NothingLoads, SubjectsWireIs, SubjectsIsAsked
<1>6. (Subjects!AliasOK /\ Subjects!AliasesAreCurrent)'
  BY DEF Subjects!OpenList, Subjects!IInv, Subjects!AliasOK, Subjects!AliasesAreCurrent
<1>7. (Subjects!StaleIsKnown /\ Subjects!AwaitedIsComing)'
  BY <1>1
     DEF Subjects!OpenList, Subjects!Read, Subjects!Others, Subjects!IInv, Subjects!StaleIsKnown,
         Subjects!AwaitedIsComing, Subjects!Wanted, SubjectsWireIs, Subjects!Reads,
         SubjectsIsAsked
<1> QED BY <1>2, <1>3, <1>4, <1>5, <1>6, <1>7 DEF Subjects!IInv

LEMMA SubjectsOpenGoalsPreserves ==
  ASSUME Subjects!IInv, Subjects!OpenGoals
  PROVE  Subjects!IInv'
<1>1. SubjectsWireIs({}, {}, {})
  BY SubjectsWireStays DEF Subjects!OpenGoals, Subjects!IInv
<1>2. Subjects!TypeOK'
  BY DEF Subjects!OpenGoals, Subjects!IInv, Subjects!TypeOK, Subjects!ScreenNames
<1>3. (Subjects!WaitsWhereAsked /\ Subjects!SuspendedDraftReturns)'
  BY
     DEF Subjects!OpenGoals, Subjects!IInv, Subjects!TypeOK, Subjects!WaitsWhereAsked,
         Subjects!SuspendedDraftReturns, Subjects!AskedOn, Subjects!Drafts
<1>4. (Subjects!Wanted /\ Subjects!OneWanted)'
  BY
     DEF Subjects!OpenGoals, Subjects!IInv, Subjects!Wanted, Subjects!OneWanted, Subjects!FormOf,
         Subjects!Writes
<1>5. (Subjects!SawAll /\ Subjects!NothingLoads)'
  BY DEF Subjects!OpenGoals, Subjects!IInv, Subjects!SawAll, Subjects!NothingLoads
<1>6. (Subjects!AliasOK /\ Subjects!AliasesAreCurrent)'
  BY DEF Subjects!OpenGoals, Subjects!IInv, Subjects!AliasOK, Subjects!AliasesAreCurrent
<1>7. (Subjects!StaleIsKnown /\ Subjects!AwaitedIsComing)'
  BY DEF Subjects!OpenGoals, Subjects!IInv, Subjects!StaleIsKnown, Subjects!AwaitedIsComing
<1> QED BY <1>2, <1>3, <1>4, <1>5, <1>6, <1>7 DEF Subjects!IInv

LEMMA SubjectsLeaveGoalsPreserves ==
  ASSUME Subjects!IInv, Subjects!LeaveGoals
  PROVE  Subjects!IInv'
<1>1. SubjectsWireIs(Subjects!Reads, {}, {})
  <2>1. x10' = Subjects!Retire(Subjects!Reads) \ {} /\ Subjects!TypeOK
        /\ (Subjects!Reads) \in SUBSET Subjects!Kind
    BY
       DEF Subjects!LeaveGoals, Subjects!Leave, Subjects!IInv, Subjects!Kind, Subjects!Reads,
           Subjects!Writes, Subjects!Drafts
  <2> QED BY <2>1, SubjectsRetired
<1>1a. "goal" \notin x8
  BY DEF Subjects!LeaveGoals, Subjects!IInv, Subjects!SuspendedDraftReturns, Subjects!Drafts
<1>2. Subjects!TypeOK'
  BY <1>1, <1>1a
     DEF Subjects!LeaveGoals, Subjects!Leave, Subjects!IInv, Subjects!TypeOK,
         Subjects!ScreenNames, SubjectsWireIs
<1>3. (Subjects!WaitsWhereAsked /\ Subjects!SuspendedDraftReturns)'
  BY
     DEF Subjects!LeaveGoals, Subjects!IInv, Subjects!TypeOK, Subjects!WaitsWhereAsked,
         Subjects!SuspendedDraftReturns, Subjects!AskedOn, Subjects!Drafts
<1>4. (Subjects!Wanted /\ Subjects!OneWanted)'
  BY <1>1
     DEF Subjects!LeaveGoals, Subjects!IInv, Subjects!Wanted, Subjects!OneWanted, Subjects!FormOf,
         SubjectsWireIs, Subjects!Writes
<1>5. (Subjects!SawAll /\ Subjects!NothingLoads)'
  BY <1>1
     DEF Subjects!LeaveGoals, Subjects!Leave, Subjects!IInv, Subjects!SawAll,
         Subjects!NothingLoads, SubjectsWireIs
<1>6. (Subjects!AliasOK /\ Subjects!AliasesAreCurrent)'
  BY
     DEF Subjects!LeaveGoals, Subjects!Leave, Subjects!IInv, Subjects!AliasOK,
         Subjects!AliasesAreCurrent
<1>7. (Subjects!StaleIsKnown /\ Subjects!AwaitedIsComing)'
  BY <1>1
     DEF Subjects!LeaveGoals, Subjects!Leave, Subjects!IInv, Subjects!StaleIsKnown,
         Subjects!AwaitedIsComing, Subjects!Wanted, SubjectsWireIs, Subjects!Reads
<1> QED BY <1>2, <1>3, <1>4, <1>5, <1>6, <1>7 DEF Subjects!IInv

LEMMA SubjectsOpenVoicePreserves ==
  ASSUME Subjects!IInv, Subjects!OpenVoice
  PROVE  Subjects!IInv'
<1>1. SubjectsWireIs(Subjects!Reads, {}, {})
  <2>1. x10' = Subjects!Retire(Subjects!Reads) \ {} /\ Subjects!TypeOK
        /\ (Subjects!Reads) \in SUBSET Subjects!Kind
    BY
       DEF Subjects!OpenVoice, Subjects!Leave, Subjects!IInv, Subjects!Kind, Subjects!Reads,
           Subjects!Writes, Subjects!Drafts
  <2> QED BY <2>1, SubjectsRetired
<1>2. Subjects!TypeOK'
  BY <1>1
     DEF Subjects!OpenVoice, Subjects!Leave, Subjects!IInv, Subjects!TypeOK, Subjects!ScreenNames,
         SubjectsWireIs
<1>3. (Subjects!WaitsWhereAsked /\ Subjects!SuspendedDraftReturns)'
  BY
     DEF Subjects!OpenVoice, Subjects!IInv, Subjects!TypeOK, Subjects!WaitsWhereAsked,
         Subjects!SuspendedDraftReturns, Subjects!AskedOn, Subjects!Drafts
<1>4. (Subjects!Wanted /\ Subjects!OneWanted)'
  BY <1>1
     DEF Subjects!OpenVoice, Subjects!IInv, Subjects!Wanted, Subjects!OneWanted, Subjects!FormOf,
         SubjectsWireIs, Subjects!Writes
<1>5. (Subjects!SawAll /\ Subjects!NothingLoads)'
  BY <1>1
     DEF Subjects!OpenVoice, Subjects!Leave, Subjects!IInv, Subjects!SawAll,
         Subjects!NothingLoads, SubjectsWireIs
<1>6. (Subjects!AliasOK /\ Subjects!AliasesAreCurrent)'
  BY
     DEF Subjects!OpenVoice, Subjects!Leave, Subjects!IInv, Subjects!AliasOK,
         Subjects!AliasesAreCurrent
<1>7. (Subjects!StaleIsKnown /\ Subjects!AwaitedIsComing)'
  BY <1>1
     DEF Subjects!OpenVoice, Subjects!Leave, Subjects!IInv, Subjects!StaleIsKnown,
         Subjects!AwaitedIsComing, Subjects!Wanted, SubjectsWireIs, Subjects!Reads
<1> QED BY <1>2, <1>3, <1>4, <1>5, <1>6, <1>7 DEF Subjects!IInv

LEMMA SubjectsLeaveVoicePreserves ==
  ASSUME Subjects!IInv, Subjects!LeaveVoice
  PROVE  Subjects!IInv'
<1>1. SubjectsWireIs(Subjects!Reads, {}, {})
  <2>1. x10' = Subjects!Retire(Subjects!Reads) \ {} /\ Subjects!TypeOK
        /\ (Subjects!Reads) \in SUBSET Subjects!Kind
    BY
       DEF Subjects!LeaveVoice, Subjects!Leave, Subjects!IInv, Subjects!Kind, Subjects!Reads,
           Subjects!Writes, Subjects!Drafts
  <2> QED BY <2>1, SubjectsRetired
<1>2. Subjects!TypeOK'
  BY <1>1
     DEF Subjects!LeaveVoice, Subjects!Leave, Subjects!IInv, Subjects!TypeOK,
         Subjects!ScreenNames, SubjectsWireIs
<1>3. (Subjects!WaitsWhereAsked /\ Subjects!SuspendedDraftReturns)'
  BY
     DEF Subjects!LeaveVoice, Subjects!IInv, Subjects!TypeOK, Subjects!WaitsWhereAsked,
         Subjects!SuspendedDraftReturns, Subjects!AskedOn, Subjects!Drafts
<1>4. (Subjects!Wanted /\ Subjects!OneWanted)'
  BY <1>1
     DEF Subjects!LeaveVoice, Subjects!IInv, Subjects!Wanted, Subjects!OneWanted, Subjects!FormOf,
         SubjectsWireIs, Subjects!Writes
<1>5. (Subjects!SawAll /\ Subjects!NothingLoads)'
  BY <1>1
     DEF Subjects!LeaveVoice, Subjects!Leave, Subjects!IInv, Subjects!SawAll,
         Subjects!NothingLoads, SubjectsWireIs
<1>6. (Subjects!AliasOK /\ Subjects!AliasesAreCurrent)'
  BY
     DEF Subjects!LeaveVoice, Subjects!Leave, Subjects!IInv, Subjects!AliasOK,
         Subjects!AliasesAreCurrent
<1>7. (Subjects!StaleIsKnown /\ Subjects!AwaitedIsComing)'
  BY <1>1
     DEF Subjects!LeaveVoice, Subjects!Leave, Subjects!IInv, Subjects!StaleIsKnown,
         Subjects!AwaitedIsComing, Subjects!Wanted, SubjectsWireIs, Subjects!Reads
<1> QED BY <1>2, <1>3, <1>4, <1>5, <1>6, <1>7 DEF Subjects!IInv

LEMMA SubjectsSaveThoughtPreserves ==
  ASSUME Subjects!IInv, Subjects!SaveThought
  PROVE  Subjects!IInv'
<1>0. PICK g : g = Subjects!Message("changed", 0)
  OBVIOUS
<1>1. SubjectsWireIs({}, {}, {g}) /\ SubjectsIsAsked(g, "changed", 0)
  <2>1. x10' = (x10 \ {}) \cup {g}
    BY <1>0 DEF Subjects!SaveThought
  <2>2. Subjects!TypeOK /\ {} \in SUBSET Subjects!Kind /\ "changed" \in Subjects!Kind
        /\ 0 \in 0..MaxSubject
    BY SubjectsAssumption
       DEF Subjects!SaveThought, Subjects!IInv, Subjects!TypeOK, Subjects!Kind, Subjects!Reads,
           Subjects!Writes, Subjects!Drafts, Subjects!Messages, Subjects!Subject
  <2>3. "changed" \in {"get", "aliases", "alias"} => 0 # 0
    BY SubjectsAssumption
       DEF Subjects!SaveThought, Subjects!IInv, Subjects!TypeOK, Subjects!AliasOK,
           Subjects!Drafts, Subjects!MessageOK, Subjects!Subject
  <2> QED BY <1>0, <2>1, <2>2, <2>3, SubjectsAsked
<1>2. Subjects!TypeOK'
  <2>1. x10' \in SUBSET Subjects!Messages /\ (\A n \in x10' : Subjects!MessageOK(n))
    BY <1>1 DEF SubjectsWireIs
  <2>2. x1' \in [subjects : SUBSET Subjects!Subject, changes : Nat, aliases : [Subjects!Subject -> Nat]]
    BY DEF Subjects!SaveThought, Subjects!IInv, Subjects!TypeOK
  <2> QED BY <2>1, <2>2 DEF Subjects!SaveThought, Subjects!IInv, Subjects!TypeOK
<1>3. (Subjects!WaitsWhereAsked /\ Subjects!SuspendedDraftReturns)'
  BY
     DEF Subjects!SaveThought, Subjects!IInv, Subjects!WaitsWhereAsked,
         Subjects!SuspendedDraftReturns
<1>4. (Subjects!Wanted /\ Subjects!OneWanted)'
  BY <1>1
     DEF Subjects!SaveThought, Subjects!IInv, Subjects!Wanted, Subjects!OneWanted, SubjectsWireIs,
         Subjects!Reads, Subjects!Writes, Subjects!Drafts, SubjectsIsAsked
<1>5. (Subjects!SawAll /\ Subjects!NothingLoads)'
  BY <1>1
     DEF Subjects!SaveThought, Subjects!IInv, Subjects!SawAll, Subjects!NothingLoads,
         Subjects!Wanted, SubjectsWireIs, Subjects!Reads, SubjectsIsAsked
<1>6. (Subjects!AliasOK /\ Subjects!AliasesAreCurrent)'
  BY DEF Subjects!SaveThought, Subjects!IInv, Subjects!AliasOK, Subjects!AliasesAreCurrent
<1>7. (Subjects!StaleIsKnown /\ Subjects!AwaitedIsComing)'
  BY <1>1
     DEF Subjects!SaveThought, Subjects!IInv, Subjects!StaleIsKnown, Subjects!AwaitedIsComing,
         SubjectsWireIs, SubjectsIsAsked
<1> QED BY <1>2, <1>3, <1>4, <1>5, <1>6, <1>7 DEF Subjects!IInv

LEMMA SubjectsAskPreserves ==
  ASSUME Subjects!IInv, NEW d \in Subjects!Drafts, Subjects!Ask(d)
  PROVE  Subjects!IInv'
<1>0. PICK g : g = Subjects!Message(d, 0)
  OBVIOUS
<1>1. SubjectsWireIs({d}, {}, {g}) /\ SubjectsIsAsked(g, d, 0)
  <2>1. x10' = (Subjects!Retire({d}) \ {}) \cup {g}
    BY <1>0 DEF Subjects!Ask
  <2>2. Subjects!TypeOK /\ {d} \in SUBSET Subjects!Kind /\ d \in Subjects!Kind
        /\ 0 \in 0..MaxSubject
    BY SubjectsAssumption
       DEF Subjects!Ask, Subjects!IInv, Subjects!TypeOK, Subjects!Kind, Subjects!Reads,
           Subjects!Writes, Subjects!Drafts, Subjects!Messages, Subjects!Subject
  <2>3. d \in {"get", "aliases", "alias"} => 0 # 0
    BY SubjectsAssumption
       DEF Subjects!Ask, Subjects!IInv, Subjects!TypeOK, Subjects!AliasOK, Subjects!Drafts,
           Subjects!MessageOK, Subjects!Subject
  <2> QED BY <1>0, <2>1, <2>2, <2>3, SubjectsAsked
<1>1a. x2 \in Subjects!AskedOn(d)
  BY DEF Subjects!Ask, Subjects!AskedOn, Subjects!Drafts
<1>1b. d \in {"event", "goal", "voice"} /\ x8 = {}
  BY <1>1a
     DEF Subjects!AskedOn, Subjects!Drafts, Subjects!IInv, Subjects!SuspendedDraftReturns,
         Subjects!TypeOK
<1>1c. \A n \in x10' : (n \in x10 /\ (n.live => n.kind # d)) \/ (n.kind = d /\ (n.live => n = g))
  BY <1>1 DEF SubjectsWireIs, SubjectsIsAsked
<1>2. Subjects!TypeOK'
  <2>1. x10' \in SUBSET Subjects!Messages /\ (\A n \in x10' : Subjects!MessageOK(n))
    BY <1>1 DEF SubjectsWireIs
  <2>2. x3' \in Subjects!Lists /\ x6' \in Subjects!AliasStates
    BY SubjectsAssumption, <1>1a, <1>1b
       DEF Subjects!Ask, Subjects!IInv, Subjects!TypeOK, Subjects!Lists, Subjects!AliasStates,
           Subjects!NoAlias
  <2>3. x7' \in SUBSET Subjects!Drafts /\ x8' \in SUBSET x7'
    BY <1>1a, <1>1b DEF Subjects!Ask, Subjects!IInv, Subjects!TypeOK, Subjects!Drafts
  <2> QED BY <2>1, <2>2, <2>3, SubjectsAssumption, <1>1a, <1>1b
             DEF Subjects!Ask, Subjects!IInv, Subjects!TypeOK, Subjects!ScreenNames,
                 Subjects!Subject
<1>3. (Subjects!WaitsWhereAsked /\ Subjects!SuspendedDraftReturns)'
  BY <1>1, <1>1a, SubjectsAssumption
     DEF Subjects!Ask, Subjects!IInv, Subjects!TypeOK, Subjects!WaitsWhereAsked,
         Subjects!SuspendedDraftReturns, Subjects!AskedOn, Subjects!Drafts, Subjects!ScreenNames,
         SubjectsWireIs, Subjects!Reads, Subjects!Writes, SubjectsIsAsked
<1>4. (Subjects!Wanted /\ Subjects!OneWanted)'
  <2>1. UNCHANGED <<x2, x3, x6, x5, x8>>
    BY DEF Subjects!Ask
  <2>2. d \notin Subjects!Writes \cup Subjects!Reads \cup {"alias", "aliases"}
    BY <1>1b DEF Subjects!Writes, Subjects!Reads
  <2>3. Subjects!Wanted'
    BY <1>1b, <1>1c, <2>1, <2>2 DEF Subjects!IInv, Subjects!Wanted, Subjects!FormOf
  <2>4. Subjects!OneWanted'
    BY <1>1b, <1>1c, <2>2 DEF Subjects!IInv, Subjects!OneWanted
  <2> QED BY <2>3, <2>4
<1>5. (Subjects!SawAll /\ Subjects!NothingLoads)'
  BY <1>1b, <1>1c DEF Subjects!Ask, Subjects!IInv, Subjects!SawAll, Subjects!NothingLoads
<1>6. (Subjects!AliasOK /\ Subjects!AliasesAreCurrent)'
  BY <1>1b DEF Subjects!Ask, Subjects!IInv, Subjects!AliasOK, Subjects!AliasesAreCurrent
<1>7. (Subjects!StaleIsKnown /\ Subjects!AwaitedIsComing)'
  BY <1>1, <1>1b
     DEF Subjects!Ask, Subjects!IInv, Subjects!StaleIsKnown, Subjects!AwaitedIsComing,
         SubjectsWireIs, Subjects!Writes
<1> QED BY <1>2, <1>3, <1>4, <1>5, <1>6, <1>7 DEF Subjects!IInv

LEMMA SubjectsRetryPreserves ==
  ASSUME Subjects!IInv, Subjects!Retry
  PROVE  Subjects!IInv'
<1>0. PICK g : g = Subjects!Message("list", 0)
  OBVIOUS
<1>1. SubjectsWireIs(Subjects!Reads, {}, {g}) /\ SubjectsIsAsked(g, "list", 0)
  <2>1. x10' = (Subjects!Retire(Subjects!Reads) \ {}) \cup {g}
    BY <1>0 DEF Subjects!Retry, Subjects!Read, Subjects!Others
  <2>2. Subjects!TypeOK /\ Subjects!Reads \in SUBSET Subjects!Kind /\ "list" \in Subjects!Kind
        /\ 0 \in 0..MaxSubject
    BY SubjectsAssumption
       DEF Subjects!Retry, Subjects!Read, Subjects!Others, Subjects!IInv, Subjects!TypeOK,
           Subjects!Kind, Subjects!Reads, Subjects!Writes, Subjects!Drafts, Subjects!Messages,
           Subjects!Subject
  <2>3. "list" \in {"get", "aliases", "alias"} => 0 # 0
    BY SubjectsAssumption
       DEF Subjects!Retry, Subjects!Read, Subjects!Others, Subjects!IInv, Subjects!TypeOK,
           Subjects!AliasOK, Subjects!Drafts, Subjects!MessageOK, Subjects!Subject
  <2> QED BY <1>0, <2>1, <2>2, <2>3, SubjectsAsked
<1>2. Subjects!TypeOK'
  BY <1>1
     DEF Subjects!Retry, Subjects!Read, Subjects!Others, Subjects!IInv, Subjects!TypeOK,
         Subjects!Lists, SubjectsWireIs
<1>3. (Subjects!WaitsWhereAsked /\ Subjects!SuspendedDraftReturns)'
  BY <1>1
     DEF Subjects!Retry, Subjects!Others, Subjects!IInv, Subjects!WaitsWhereAsked,
         Subjects!SuspendedDraftReturns, Subjects!Drafts, SubjectsWireIs, Subjects!Reads
<1>4. (Subjects!Wanted /\ Subjects!OneWanted)'
  BY <1>1
     DEF Subjects!Retry, Subjects!Read, Subjects!Others, Subjects!IInv, Subjects!Wanted,
         Subjects!OneWanted, Subjects!FormOf, SubjectsWireIs, Subjects!Drafts, SubjectsIsAsked
<1>5. (Subjects!SawAll /\ Subjects!NothingLoads)'
  BY <1>1
     DEF Subjects!Retry, Subjects!Others, Subjects!IInv, Subjects!SawAll, Subjects!NothingLoads,
         SubjectsWireIs, SubjectsIsAsked
<1>6. (Subjects!AliasOK /\ Subjects!AliasesAreCurrent)'
  BY DEF Subjects!Retry, Subjects!IInv, Subjects!AliasOK, Subjects!AliasesAreCurrent
<1>7. (Subjects!StaleIsKnown /\ Subjects!AwaitedIsComing)'
  BY <1>1
     DEF Subjects!Retry, Subjects!Read, Subjects!Others, Subjects!IInv, Subjects!StaleIsKnown,
         Subjects!AwaitedIsComing, Subjects!Wanted, SubjectsWireIs, Subjects!Reads,
         SubjectsIsAsked
<1> QED BY <1>2, <1>3, <1>4, <1>5, <1>6, <1>7 DEF Subjects!IInv

LEMMA SubjectsLeaveListPreserves ==
  ASSUME Subjects!IInv, Subjects!LeaveList
  PROVE  Subjects!IInv'
<1>1. SubjectsWireIs(Subjects!Reads, {}, {})
  <2>1. x10' = Subjects!Retire(Subjects!Reads) \ {} /\ Subjects!TypeOK
        /\ (Subjects!Reads) \in SUBSET Subjects!Kind
    BY
       DEF Subjects!LeaveList, Subjects!Leave, Subjects!IInv, Subjects!Kind, Subjects!Reads,
           Subjects!Writes, Subjects!Drafts
  <2> QED BY <2>1, SubjectsRetired
<1>2. Subjects!TypeOK'
  BY <1>1
     DEF Subjects!LeaveList, Subjects!Leave, Subjects!IInv, Subjects!TypeOK, Subjects!ScreenNames,
         SubjectsWireIs
<1>3. (Subjects!WaitsWhereAsked /\ Subjects!SuspendedDraftReturns)'
  BY
     DEF Subjects!LeaveList, Subjects!IInv, Subjects!TypeOK, Subjects!WaitsWhereAsked,
         Subjects!SuspendedDraftReturns, Subjects!AskedOn, Subjects!Drafts
<1>4. (Subjects!Wanted /\ Subjects!OneWanted)'
  BY <1>1
     DEF Subjects!LeaveList, Subjects!IInv, Subjects!Wanted, Subjects!OneWanted, Subjects!FormOf,
         SubjectsWireIs, Subjects!Writes
<1>5. (Subjects!SawAll /\ Subjects!NothingLoads)'
  BY <1>1
     DEF Subjects!LeaveList, Subjects!Leave, Subjects!IInv, Subjects!SawAll,
         Subjects!NothingLoads, SubjectsWireIs
<1>6. (Subjects!AliasOK /\ Subjects!AliasesAreCurrent)'
  BY
     DEF Subjects!LeaveList, Subjects!Leave, Subjects!IInv, Subjects!AliasOK,
         Subjects!AliasesAreCurrent
<1>7. (Subjects!StaleIsKnown /\ Subjects!AwaitedIsComing)'
  BY <1>1
     DEF Subjects!LeaveList, Subjects!Leave, Subjects!IInv, Subjects!StaleIsKnown,
         Subjects!AwaitedIsComing, SubjectsWireIs, Subjects!Reads, Subjects!Writes
<1> QED BY <1>2, <1>3, <1>4, <1>5, <1>6, <1>7 DEF Subjects!IInv

LEMMA SubjectsSubmitCreatePreserves ==
  ASSUME Subjects!IInv, Subjects!SubmitCreate
  PROVE  Subjects!IInv'
<1>0. PICK g : g = Subjects!Message("create", 0)
  OBVIOUS
<1>1. SubjectsWireIs({"create"}, {}, {g}) /\ SubjectsIsAsked(g, "create", 0)
  <2>1. x10' = (Subjects!Retire({"create"}) \ {}) \cup {g}
    BY <1>0 DEF Subjects!SubmitCreate, Subjects!Confirm, Subjects!Others
  <2>2. Subjects!TypeOK /\ {"create"} \in SUBSET Subjects!Kind /\ "create" \in Subjects!Kind
        /\ 0 \in 0..MaxSubject
    BY SubjectsAssumption
       DEF Subjects!SubmitCreate, Subjects!Confirm, Subjects!Others, Subjects!IInv,
           Subjects!TypeOK, Subjects!Kind, Subjects!Reads, Subjects!Writes, Subjects!Drafts,
           Subjects!Messages, Subjects!Subject
  <2>3. "create" \in {"get", "aliases", "alias"} => 0 # 0
    BY SubjectsAssumption
       DEF Subjects!SubmitCreate, Subjects!Confirm, Subjects!Others, Subjects!IInv,
           Subjects!TypeOK, Subjects!AliasOK, Subjects!Drafts, Subjects!MessageOK,
           Subjects!Subject
  <2> QED BY <1>0, <2>1, <2>2, <2>3, SubjectsAsked
<1>2. Subjects!TypeOK'
  BY <1>1
     DEF Subjects!SubmitCreate, Subjects!Confirm, Subjects!Others, Subjects!IInv, Subjects!TypeOK,
         Subjects!Lists, SubjectsWireIs
<1>3. (Subjects!WaitsWhereAsked /\ Subjects!SuspendedDraftReturns)'
  BY <1>1
     DEF Subjects!SubmitCreate, Subjects!Others, Subjects!IInv, Subjects!WaitsWhereAsked,
         Subjects!SuspendedDraftReturns, Subjects!Drafts, SubjectsWireIs
<1>4. (Subjects!Wanted /\ Subjects!OneWanted)'
  BY <1>1
     DEF Subjects!SubmitCreate, Subjects!Confirm, Subjects!Others, Subjects!IInv, Subjects!Wanted,
         Subjects!OneWanted, Subjects!FormOf, SubjectsWireIs, Subjects!Reads, Subjects!Drafts,
         SubjectsIsAsked
<1>5. (Subjects!SawAll /\ Subjects!NothingLoads)'
  BY <1>1
     DEF Subjects!SubmitCreate, Subjects!Others, Subjects!IInv, Subjects!SawAll,
         Subjects!NothingLoads, SubjectsWireIs, SubjectsIsAsked
<1>6. (Subjects!AliasOK /\ Subjects!AliasesAreCurrent)'
  BY DEF Subjects!SubmitCreate, Subjects!IInv, Subjects!AliasOK, Subjects!AliasesAreCurrent
<1>7. (Subjects!StaleIsKnown /\ Subjects!AwaitedIsComing)'
  BY <1>1
     DEF Subjects!SubmitCreate, Subjects!Confirm, Subjects!Others, Subjects!IInv,
         Subjects!StaleIsKnown, Subjects!AwaitedIsComing, Subjects!Wanted, SubjectsWireIs,
         SubjectsIsAsked
<1> QED BY <1>2, <1>3, <1>4, <1>5, <1>6, <1>7 DEF Subjects!IInv

LEMMA SubjectsReviewAliasPreserves ==
  ASSUME Subjects!IInv, Subjects!ReviewAlias
  PROVE  Subjects!IInv'
<1>1. SubjectsWireIs({}, {}, {})
  BY SubjectsWireStays DEF Subjects!ReviewAlias, Subjects!Others, Subjects!IInv
<1>2. Subjects!TypeOK'
  BY
     DEF Subjects!ReviewAlias, Subjects!Others, Subjects!IInv, Subjects!TypeOK,
         Subjects!ScreenNames
<1>3. (Subjects!WaitsWhereAsked /\ Subjects!SuspendedDraftReturns)'
  BY
     DEF Subjects!ReviewAlias, Subjects!Others, Subjects!IInv, Subjects!TypeOK,
         Subjects!WaitsWhereAsked, Subjects!SuspendedDraftReturns, Subjects!AskedOn,
         Subjects!Drafts
<1>4. (Subjects!Wanted /\ Subjects!OneWanted)'
  BY DEF Subjects!ReviewAlias, Subjects!Others, Subjects!IInv, Subjects!Wanted, Subjects!OneWanted
<1>5. (Subjects!SawAll /\ Subjects!NothingLoads)'
  BY
     DEF Subjects!ReviewAlias, Subjects!Others, Subjects!IInv, Subjects!SawAll,
         Subjects!NothingLoads
<1>6. (Subjects!AliasOK /\ Subjects!AliasesAreCurrent)'
  BY DEF Subjects!ReviewAlias, Subjects!IInv, Subjects!AliasOK, Subjects!AliasesAreCurrent
<1>7. (Subjects!StaleIsKnown /\ Subjects!AwaitedIsComing)'
  BY
     DEF Subjects!ReviewAlias, Subjects!Others, Subjects!IInv, Subjects!StaleIsKnown,
         Subjects!AwaitedIsComing
<1> QED BY <1>2, <1>3, <1>4, <1>5, <1>6, <1>7 DEF Subjects!IInv

LEMMA SubjectsKeepAliasPreserves ==
  ASSUME Subjects!IInv, Subjects!KeepAlias
  PROVE  Subjects!IInv'
<1>1. SubjectsWireIs({}, {}, {})
  BY SubjectsWireStays DEF Subjects!KeepAlias, Subjects!Others, Subjects!IInv
<1>2. Subjects!TypeOK'
  BY DEF Subjects!KeepAlias, Subjects!Others, Subjects!IInv, Subjects!TypeOK, Subjects!ScreenNames
<1>3. (Subjects!WaitsWhereAsked /\ Subjects!SuspendedDraftReturns)'
  BY
     DEF Subjects!KeepAlias, Subjects!Others, Subjects!IInv, Subjects!TypeOK,
         Subjects!WaitsWhereAsked, Subjects!SuspendedDraftReturns, Subjects!AskedOn,
         Subjects!Drafts
<1>4. (Subjects!Wanted /\ Subjects!OneWanted)'
  BY DEF Subjects!KeepAlias, Subjects!Others, Subjects!IInv, Subjects!Wanted, Subjects!OneWanted
<1>5. (Subjects!SawAll /\ Subjects!NothingLoads)'
  BY
     DEF Subjects!KeepAlias, Subjects!Others, Subjects!IInv, Subjects!SawAll,
         Subjects!NothingLoads
<1>6. (Subjects!AliasOK /\ Subjects!AliasesAreCurrent)'
  BY DEF Subjects!KeepAlias, Subjects!IInv, Subjects!AliasOK, Subjects!AliasesAreCurrent
<1>7. (Subjects!StaleIsKnown /\ Subjects!AwaitedIsComing)'
  BY
     DEF Subjects!KeepAlias, Subjects!Others, Subjects!IInv, Subjects!StaleIsKnown,
         Subjects!AwaitedIsComing
<1> QED BY <1>2, <1>3, <1>4, <1>5, <1>6, <1>7 DEF Subjects!IInv

LEMMA SubjectsSubmitPromotionPreserves ==
  ASSUME Subjects!IInv, Subjects!SubmitPromotion
  PROVE  Subjects!IInv'
<1>0. PICK g : g = Subjects!Message("create", 0)
  OBVIOUS
<1>1. SubjectsWireIs({"create"}, {}, {g}) /\ SubjectsIsAsked(g, "create", 0)
  <2>1. x10' = (Subjects!Retire({"create"}) \ {}) \cup {g}
    BY <1>0 DEF Subjects!SubmitPromotion, Subjects!Confirm, Subjects!Others
  <2>2. Subjects!TypeOK /\ {"create"} \in SUBSET Subjects!Kind /\ "create" \in Subjects!Kind
        /\ 0 \in 0..MaxSubject
    BY SubjectsAssumption
       DEF Subjects!SubmitPromotion, Subjects!Confirm, Subjects!Others, Subjects!IInv,
           Subjects!TypeOK, Subjects!Kind, Subjects!Reads, Subjects!Writes, Subjects!Drafts,
           Subjects!Messages, Subjects!Subject
  <2>3. "create" \in {"get", "aliases", "alias"} => 0 # 0
    BY SubjectsAssumption
       DEF Subjects!SubmitPromotion, Subjects!Confirm, Subjects!Others, Subjects!IInv,
           Subjects!TypeOK, Subjects!AliasOK, Subjects!Drafts, Subjects!MessageOK,
           Subjects!Subject
  <2> QED BY <1>0, <2>1, <2>2, <2>3, SubjectsAsked
<1>2. Subjects!TypeOK'
  BY <1>1
     DEF Subjects!SubmitPromotion, Subjects!Confirm, Subjects!Others, Subjects!IInv,
         Subjects!TypeOK, Subjects!Lists, SubjectsWireIs
<1>3. (Subjects!WaitsWhereAsked /\ Subjects!SuspendedDraftReturns)'
  BY <1>1
     DEF Subjects!SubmitPromotion, Subjects!Others, Subjects!IInv, Subjects!WaitsWhereAsked,
         Subjects!SuspendedDraftReturns, Subjects!Drafts, SubjectsWireIs
<1>4. (Subjects!Wanted /\ Subjects!OneWanted)'
  BY <1>1
     DEF Subjects!SubmitPromotion, Subjects!Confirm, Subjects!Others, Subjects!IInv,
         Subjects!Wanted, Subjects!OneWanted, Subjects!FormOf, SubjectsWireIs, Subjects!Reads,
         Subjects!Drafts, SubjectsIsAsked
<1>5. (Subjects!SawAll /\ Subjects!NothingLoads)'
  BY <1>1
     DEF Subjects!SubmitPromotion, Subjects!Others, Subjects!IInv, Subjects!SawAll,
         Subjects!NothingLoads, SubjectsWireIs, SubjectsIsAsked
<1>6. (Subjects!AliasOK /\ Subjects!AliasesAreCurrent)'
  BY DEF Subjects!SubmitPromotion, Subjects!IInv, Subjects!AliasOK, Subjects!AliasesAreCurrent
<1>7. (Subjects!StaleIsKnown /\ Subjects!AwaitedIsComing)'
  BY <1>1
     DEF Subjects!SubmitPromotion, Subjects!Confirm, Subjects!Others, Subjects!IInv,
         Subjects!StaleIsKnown, Subjects!AwaitedIsComing, Subjects!Wanted, SubjectsWireIs,
         SubjectsIsAsked
<1> QED BY <1>2, <1>3, <1>4, <1>5, <1>6, <1>7 DEF Subjects!IInv

LEMMA SubjectsCancelCreatePreserves ==
  ASSUME Subjects!IInv, Subjects!CancelCreate
  PROVE  Subjects!IInv'
<1>1. SubjectsWireIs({"create"}, {}, {})
  <2>1. x10' = Subjects!Retire({"create"}) \ {} /\ Subjects!TypeOK
        /\ ({"create"}) \in SUBSET Subjects!Kind
    BY
       DEF Subjects!CancelCreate, Subjects!First, Subjects!ReturnTo, Subjects!IInv, Subjects!Kind,
           Subjects!Reads, Subjects!Writes, Subjects!Drafts
  <2> QED BY <2>1, SubjectsRetired
<1>1a. \/ \E d \in Subjects!Drafts : x8 = {d} /\ Subjects!ReturnTo(d)
       \/ x8 = {} /\ x2' = "list" /\ UNCHANGED <<x7, x8>>
  BY
     DEF Subjects!CancelCreate, Subjects!First, Subjects!IInv, Subjects!SuspendedDraftReturns,
         Subjects!TypeOK, Subjects!Drafts
<1>1b. x2' \in {"home", "goals", "voice", "detail", "misc", "list"}
  BY <1>1a
     DEF Subjects!CancelCreate, Subjects!ReturnTo, Subjects!IInv, Subjects!TypeOK,
         Subjects!AskedOn, Subjects!Drafts
<1>1c. x7' = x7 \ x8 /\ x8' = {}
  BY <1>1a DEF Subjects!ReturnTo
<1>2. Subjects!TypeOK'
  BY <1>1, <1>1a, <1>1b, <1>1c
     DEF Subjects!CancelCreate, Subjects!IInv, Subjects!TypeOK, Subjects!ScreenNames,
         SubjectsWireIs
<1>3. (Subjects!WaitsWhereAsked /\ Subjects!SuspendedDraftReturns)'
  BY <1>1c
     DEF Subjects!CancelCreate, Subjects!IInv, Subjects!TypeOK, Subjects!WaitsWhereAsked,
         Subjects!SuspendedDraftReturns, Subjects!AskedOn, Subjects!Drafts
<1>4. (Subjects!Wanted /\ Subjects!OneWanted)'
  BY <1>1, <1>1c
     DEF Subjects!CancelCreate, Subjects!IInv, Subjects!Wanted, Subjects!OneWanted,
         SubjectsWireIs
<1>5. (Subjects!SawAll /\ Subjects!NothingLoads)'
  BY <1>1
     DEF Subjects!CancelCreate, Subjects!IInv, Subjects!SawAll, Subjects!NothingLoads,
         SubjectsWireIs
<1>6. (Subjects!AliasOK /\ Subjects!AliasesAreCurrent)'
  BY <1>1b DEF Subjects!CancelCreate, Subjects!IInv, Subjects!AliasOK, Subjects!AliasesAreCurrent
<1>7. (Subjects!StaleIsKnown /\ Subjects!AwaitedIsComing)'
  BY <1>1, <1>1b
     DEF Subjects!CancelCreate, Subjects!IInv, Subjects!StaleIsKnown, Subjects!AwaitedIsComing,
         Subjects!Wanted, SubjectsWireIs
<1> QED BY <1>2, <1>3, <1>4, <1>5, <1>6, <1>7 DEF Subjects!IInv

LEMMA SubjectsOpenFormPreserves ==
  ASSUME Subjects!IInv, Subjects!OpenForm
  PROVE  Subjects!IInv'
<1>1. SubjectsWireIs({}, {}, {})
  BY SubjectsWireStays DEF Subjects!OpenForm, Subjects!Others, Subjects!IInv
<1>2. Subjects!TypeOK'
  BY DEF Subjects!OpenForm, Subjects!Others, Subjects!IInv, Subjects!TypeOK, Subjects!ScreenNames
<1>3. (Subjects!WaitsWhereAsked /\ Subjects!SuspendedDraftReturns)'
  BY
     DEF Subjects!OpenForm, Subjects!Others, Subjects!IInv, Subjects!TypeOK,
         Subjects!WaitsWhereAsked, Subjects!SuspendedDraftReturns, Subjects!AskedOn,
         Subjects!Drafts
<1>4. (Subjects!Wanted /\ Subjects!OneWanted)'
  BY
     DEF Subjects!OpenForm, Subjects!Others, Subjects!IInv, Subjects!Wanted, Subjects!OneWanted,
         Subjects!FormOf, Subjects!Writes
<1>5. (Subjects!SawAll /\ Subjects!NothingLoads)'
  BY DEF Subjects!OpenForm, Subjects!Others, Subjects!IInv, Subjects!SawAll, Subjects!NothingLoads
<1>6. (Subjects!AliasOK /\ Subjects!AliasesAreCurrent)'
  BY DEF Subjects!OpenForm, Subjects!IInv, Subjects!AliasOK, Subjects!AliasesAreCurrent
<1>7. (Subjects!StaleIsKnown /\ Subjects!AwaitedIsComing)'
  BY <1>1
     DEF Subjects!OpenForm, Subjects!Others, Subjects!IInv, Subjects!StaleIsKnown,
         Subjects!AwaitedIsComing, Subjects!NothingLoads
<1> QED BY <1>2, <1>3, <1>4, <1>5, <1>6, <1>7 DEF Subjects!IInv

LEMMA SubjectsLeaveFormPreserves ==
  ASSUME Subjects!IInv, Subjects!LeaveForm
  PROVE  Subjects!IInv'
<1>1. SubjectsWireIs({}, {}, {})
  BY SubjectsWireStays DEF Subjects!LeaveForm, Subjects!Others, Subjects!IInv
<1>2. Subjects!TypeOK'
  BY DEF Subjects!LeaveForm, Subjects!Others, Subjects!IInv, Subjects!TypeOK, Subjects!ScreenNames
<1>3. (Subjects!WaitsWhereAsked /\ Subjects!SuspendedDraftReturns)'
  BY
     DEF Subjects!LeaveForm, Subjects!Others, Subjects!IInv, Subjects!TypeOK,
         Subjects!WaitsWhereAsked, Subjects!SuspendedDraftReturns, Subjects!AskedOn,
         Subjects!Drafts
<1>4. (Subjects!Wanted /\ Subjects!OneWanted)'
  BY DEF Subjects!LeaveForm, Subjects!Others, Subjects!IInv, Subjects!Wanted, Subjects!OneWanted
<1>5. (Subjects!SawAll /\ Subjects!NothingLoads)'
  BY
     DEF Subjects!LeaveForm, Subjects!Others, Subjects!IInv, Subjects!SawAll,
         Subjects!NothingLoads
<1>6. (Subjects!AliasOK /\ Subjects!AliasesAreCurrent)'
  BY DEF Subjects!LeaveForm, Subjects!IInv, Subjects!AliasOK, Subjects!AliasesAreCurrent
<1>7. (Subjects!StaleIsKnown /\ Subjects!AwaitedIsComing)'
  BY
     DEF Subjects!LeaveForm, Subjects!Others, Subjects!IInv, Subjects!StaleIsKnown,
         Subjects!AwaitedIsComing
<1> QED BY <1>2, <1>3, <1>4, <1>5, <1>6, <1>7 DEF Subjects!IInv

LEMMA SubjectsSubmitFormPreserves ==
  ASSUME Subjects!IInv, Subjects!SubmitForm
  PROVE  Subjects!IInv'
<1>0. PICK g : g = Subjects!Message(x2, x5)
  OBVIOUS
<1>1. SubjectsWireIs({}, {}, {g}) /\ SubjectsIsAsked(g, x2, x5)
  <2>1. x10' = (x10 \ {}) \cup {g}
    BY <1>0 DEF Subjects!SubmitForm, Subjects!Others
  <2>2. Subjects!TypeOK /\ {} \in SUBSET Subjects!Kind /\ x2 \in Subjects!Kind
        /\ x5 \in 0..MaxSubject
    BY SubjectsAssumption
       DEF Subjects!SubmitForm, Subjects!Others, Subjects!IInv, Subjects!TypeOK, Subjects!Kind,
           Subjects!Reads, Subjects!Writes, Subjects!Drafts, Subjects!Messages, Subjects!Subject
  <2>3. x2 \in {"get", "aliases", "alias"} => x5 # 0
    BY SubjectsAssumption
       DEF Subjects!SubmitForm, Subjects!Others, Subjects!IInv, Subjects!TypeOK, Subjects!AliasOK,
           Subjects!Drafts, Subjects!MessageOK, Subjects!Subject
  <2> QED BY <1>0, <2>1, <2>2, <2>3, SubjectsAsked
<1>2. Subjects!TypeOK'
  BY <1>1
     DEF Subjects!SubmitForm, Subjects!Others, Subjects!IInv, Subjects!TypeOK, Subjects!Lists,
         SubjectsWireIs
<1>3. (Subjects!WaitsWhereAsked /\ Subjects!SuspendedDraftReturns)'
  BY
     DEF Subjects!SubmitForm, Subjects!Others, Subjects!IInv, Subjects!WaitsWhereAsked,
         Subjects!SuspendedDraftReturns
<1>4. (Subjects!Wanted /\ Subjects!OneWanted)'
  BY <1>1
     DEF Subjects!SubmitForm, Subjects!Others, Subjects!IInv, Subjects!Wanted, Subjects!OneWanted,
         Subjects!FormOf, SubjectsWireIs, Subjects!Reads, Subjects!Drafts, SubjectsIsAsked
<1>5. (Subjects!SawAll /\ Subjects!NothingLoads)'
  BY <1>1
     DEF Subjects!SubmitForm, Subjects!Others, Subjects!IInv, Subjects!SawAll,
         Subjects!NothingLoads, SubjectsWireIs, SubjectsIsAsked
<1>6. (Subjects!AliasOK /\ Subjects!AliasesAreCurrent)'
  BY DEF Subjects!SubmitForm, Subjects!IInv, Subjects!AliasOK, Subjects!AliasesAreCurrent
<1>7. (Subjects!StaleIsKnown /\ Subjects!AwaitedIsComing)'
  BY <1>1
     DEF Subjects!SubmitForm, Subjects!Others, Subjects!IInv, Subjects!StaleIsKnown,
         Subjects!AwaitedIsComing, SubjectsWireIs, SubjectsIsAsked
<1> QED BY <1>2, <1>3, <1>4, <1>5, <1>6, <1>7 DEF Subjects!IInv

LEMMA SubjectsOpenAliasesPreserves ==
  ASSUME Subjects!IInv, Subjects!OpenAliases
  PROVE  Subjects!IInv'
<1>0. PICK g : g = Subjects!Message("aliases", x5)
  OBVIOUS
<1>1. SubjectsWireIs({"aliases"}, {}, {g}) /\ SubjectsIsAsked(g, "aliases", x5)
  <2>1. x10' = (Subjects!Retire({"aliases"}) \ {}) \cup {g}
    BY <1>0 DEF Subjects!OpenAliases, Subjects!Others, Subjects!ListAliases
  <2>2. Subjects!TypeOK /\ {"aliases"} \in SUBSET Subjects!Kind /\ "aliases" \in Subjects!Kind
        /\ x5 \in 0..MaxSubject
    BY SubjectsAssumption
       DEF Subjects!OpenAliases, Subjects!Others, Subjects!ListAliases, Subjects!IInv,
           Subjects!TypeOK, Subjects!Kind, Subjects!Reads, Subjects!Writes, Subjects!Drafts,
           Subjects!Messages, Subjects!Subject
  <2>3. "aliases" \in {"get", "aliases", "alias"} => x5 # 0
    BY SubjectsAssumption
       DEF Subjects!OpenAliases, Subjects!Others, Subjects!ListAliases, Subjects!IInv,
           Subjects!TypeOK, Subjects!AliasOK, Subjects!Drafts, Subjects!MessageOK,
           Subjects!Subject
  <2> QED BY <1>0, <2>1, <2>2, <2>3, SubjectsAsked
<1>1a. x6' = [saving |-> FALSE, mode |-> "browse", loading |-> TRUE, failed |-> FALSE,
                        of |-> 0, shown |-> 0]
  BY DEF Subjects!OpenAliases, Subjects!ListAliases, Subjects!NoAlias
<1>2. Subjects!TypeOK'
  <2>1. x10' \in SUBSET Subjects!Messages /\ (\A n \in x10' : Subjects!MessageOK(n))
    BY <1>1 DEF SubjectsWireIs
  <2>2. x6' \in Subjects!AliasStates
    BY <1>1a, SubjectsAssumption DEF Subjects!AliasStates
  <2>3. UNCHANGED <<x1, x7, x8, x9, x3, x4, x5>> /\ x2' \in Subjects!ScreenNames
    BY DEF Subjects!OpenAliases, Subjects!Others, Subjects!ScreenNames
  <2> QED BY <2>1, <2>2, <2>3 DEF Subjects!IInv, Subjects!TypeOK
<1>3. (Subjects!WaitsWhereAsked /\ Subjects!SuspendedDraftReturns)'
  BY
     DEF Subjects!OpenAliases, Subjects!Others, Subjects!IInv, Subjects!TypeOK,
         Subjects!WaitsWhereAsked, Subjects!SuspendedDraftReturns, Subjects!AskedOn,
         Subjects!Drafts
<1>4. (Subjects!Wanted /\ Subjects!OneWanted)'
  BY <1>1, <1>1a
     DEF Subjects!OpenAliases, Subjects!Others, Subjects!IInv, Subjects!Wanted,
         Subjects!OneWanted, Subjects!FormOf, SubjectsWireIs, Subjects!Reads, Subjects!Writes,
         Subjects!Drafts, SubjectsIsAsked
<1>5. (Subjects!SawAll /\ Subjects!NothingLoads)'
  BY <1>1
     DEF Subjects!OpenAliases, Subjects!Others, Subjects!IInv, Subjects!SawAll,
         Subjects!NothingLoads, SubjectsWireIs, SubjectsIsAsked
<1>6. (Subjects!AliasOK /\ Subjects!AliasesAreCurrent)'
  BY <1>1a DEF Subjects!OpenAliases, Subjects!IInv, Subjects!AliasOK, Subjects!AliasesAreCurrent
<1>7. (Subjects!StaleIsKnown /\ Subjects!AwaitedIsComing)'
  BY <1>1, <1>1a
     DEF Subjects!OpenAliases, Subjects!Others, Subjects!IInv, Subjects!StaleIsKnown,
         Subjects!AwaitedIsComing, Subjects!Wanted, SubjectsWireIs, SubjectsIsAsked
<1> QED BY <1>2, <1>3, <1>4, <1>5, <1>6, <1>7 DEF Subjects!IInv

LEMMA SubjectsRetryAliasesPreserves ==
  ASSUME Subjects!IInv, Subjects!RetryAliases
  PROVE  Subjects!IInv'
<1>0. PICK g : g = Subjects!Message("aliases", x5)
  OBVIOUS
<1>1. SubjectsWireIs({"aliases"}, {}, {g}) /\ SubjectsIsAsked(g, "aliases", x5)
  <2>1. x10' = (Subjects!Retire({"aliases"}) \ {}) \cup {g}
    BY <1>0 DEF Subjects!RetryAliases, Subjects!Others, Subjects!ListAliases, Subjects!AliasKeys
  <2>2. Subjects!TypeOK /\ {"aliases"} \in SUBSET Subjects!Kind /\ "aliases" \in Subjects!Kind
        /\ x5 \in 0..MaxSubject
    BY SubjectsAssumption
       DEF Subjects!RetryAliases, Subjects!Others, Subjects!ListAliases, Subjects!AliasKeys,
           Subjects!IInv, Subjects!TypeOK, Subjects!Kind, Subjects!Reads, Subjects!Writes,
           Subjects!Drafts, Subjects!Messages, Subjects!Subject
  <2>3. "aliases" \in {"get", "aliases", "alias"} => x5 # 0
    BY SubjectsAssumption
       DEF Subjects!RetryAliases, Subjects!Others, Subjects!ListAliases, Subjects!AliasKeys,
           Subjects!IInv, Subjects!TypeOK, Subjects!AliasOK, Subjects!Drafts, Subjects!MessageOK,
           Subjects!Subject
  <2> QED BY <1>0, <2>1, <2>2, <2>3, SubjectsAsked
<1>2. Subjects!TypeOK'
  BY <1>1
     DEF Subjects!RetryAliases, Subjects!Others, Subjects!ListAliases, Subjects!IInv,
         Subjects!TypeOK, Subjects!AliasStates, SubjectsWireIs
<1>3. (Subjects!WaitsWhereAsked /\ Subjects!SuspendedDraftReturns)'
  BY <1>1
     DEF Subjects!RetryAliases, Subjects!Others, Subjects!IInv, Subjects!WaitsWhereAsked,
         Subjects!SuspendedDraftReturns, Subjects!Drafts, SubjectsWireIs
<1>4. (Subjects!Wanted /\ Subjects!OneWanted)'
  BY <1>1
     DEF Subjects!RetryAliases, Subjects!Others, Subjects!ListAliases, Subjects!AliasKeys,
         Subjects!IInv, Subjects!Wanted, Subjects!OneWanted, SubjectsWireIs, Subjects!Reads,
         Subjects!Writes, Subjects!Drafts, SubjectsIsAsked
<1>5. (Subjects!SawAll /\ Subjects!NothingLoads)'
  BY <1>1
     DEF Subjects!RetryAliases, Subjects!Others, Subjects!IInv, Subjects!SawAll,
         Subjects!NothingLoads, SubjectsWireIs, SubjectsIsAsked
<1>6. (Subjects!AliasOK /\ Subjects!AliasesAreCurrent)'
  BY
     DEF Subjects!RetryAliases, Subjects!ListAliases, Subjects!IInv, Subjects!AliasOK,
         Subjects!AliasesAreCurrent
<1>7. (Subjects!StaleIsKnown /\ Subjects!AwaitedIsComing)'
  BY <1>1
     DEF Subjects!RetryAliases, Subjects!Others, Subjects!ListAliases, Subjects!AliasKeys,
         Subjects!IInv, Subjects!StaleIsKnown, Subjects!AwaitedIsComing, Subjects!Wanted,
         SubjectsWireIs, SubjectsIsAsked
<1> QED BY <1>2, <1>3, <1>4, <1>5, <1>6, <1>7 DEF Subjects!IInv

LEMMA SubjectsLeaveAliasesPreserves ==
  ASSUME Subjects!IInv, Subjects!LeaveAliases
  PROVE  Subjects!IInv'
<1>1. SubjectsWireIs({"aliases"}, {}, {})
  <2>1. x10' = Subjects!Retire({"aliases"}) \ {} /\ Subjects!TypeOK
        /\ ({"aliases"}) \in SUBSET Subjects!Kind
    BY
       DEF Subjects!LeaveAliases, Subjects!Others, Subjects!AliasKeys, Subjects!IInv,
           Subjects!Kind, Subjects!Reads, Subjects!Writes, Subjects!Drafts
  <2> QED BY <2>1, SubjectsRetired
<1>2. Subjects!TypeOK'
  BY <1>1, SubjectsAssumption
     DEF Subjects!LeaveAliases, Subjects!Others, Subjects!IInv, Subjects!TypeOK,
         Subjects!AliasStates, Subjects!ScreenNames, Subjects!NoAlias, SubjectsWireIs
<1>3. (Subjects!WaitsWhereAsked /\ Subjects!SuspendedDraftReturns)'
  BY
     DEF Subjects!LeaveAliases, Subjects!Others, Subjects!AliasKeys, Subjects!IInv,
         Subjects!TypeOK, Subjects!WaitsWhereAsked, Subjects!SuspendedDraftReturns,
         Subjects!AskedOn, Subjects!Drafts
<1>4. (Subjects!Wanted /\ Subjects!OneWanted)'
  BY <1>1
     DEF Subjects!LeaveAliases, Subjects!Others, Subjects!AliasKeys, Subjects!IInv,
         Subjects!Wanted, Subjects!OneWanted, Subjects!FormOf, SubjectsWireIs, Subjects!Writes
<1>5. (Subjects!SawAll /\ Subjects!NothingLoads)'
  BY <1>1
     DEF Subjects!LeaveAliases, Subjects!Others, Subjects!AliasKeys, Subjects!IInv,
         Subjects!SawAll, Subjects!NothingLoads, SubjectsWireIs
<1>6. (Subjects!AliasOK /\ Subjects!AliasesAreCurrent)'
  BY
     DEF Subjects!LeaveAliases, Subjects!IInv, Subjects!AliasOK, Subjects!AliasesAreCurrent,
         Subjects!NoAlias
<1>7. (Subjects!StaleIsKnown /\ Subjects!AwaitedIsComing)'
  BY <1>1
     DEF Subjects!LeaveAliases, Subjects!Others, Subjects!IInv, Subjects!StaleIsKnown,
         Subjects!AwaitedIsComing, SubjectsWireIs, Subjects!Writes
<1> QED BY <1>2, <1>3, <1>4, <1>5, <1>6, <1>7 DEF Subjects!IInv

LEMMA SubjectsAliasFormPreserves ==
  ASSUME Subjects!IInv, Subjects!AliasForm
  PROVE  Subjects!IInv'
<1>1. SubjectsWireIs({}, {}, {})
  BY SubjectsWireStays DEF Subjects!AliasForm, Subjects!Others, Subjects!AliasKeys, Subjects!IInv
<1>2. Subjects!TypeOK'
  BY DEF Subjects!AliasForm, Subjects!Others, Subjects!IInv, Subjects!TypeOK, Subjects!AliasStates
<1>3. (Subjects!WaitsWhereAsked /\ Subjects!SuspendedDraftReturns)'
  BY
     DEF Subjects!AliasForm, Subjects!Others, Subjects!IInv, Subjects!WaitsWhereAsked,
         Subjects!SuspendedDraftReturns
<1>4. (Subjects!Wanted /\ Subjects!OneWanted)'
  BY DEF Subjects!AliasForm, Subjects!Others, Subjects!IInv, Subjects!Wanted, Subjects!OneWanted
<1>5. (Subjects!SawAll /\ Subjects!NothingLoads)'
  BY
     DEF Subjects!AliasForm, Subjects!Others, Subjects!IInv, Subjects!SawAll,
         Subjects!NothingLoads
<1>6. (Subjects!AliasOK /\ Subjects!AliasesAreCurrent)'
  BY
     DEF Subjects!AliasForm, Subjects!Others, Subjects!IInv, Subjects!AliasOK,
         Subjects!AliasesAreCurrent
<1>7. (Subjects!StaleIsKnown /\ Subjects!AwaitedIsComing)'
  BY
     DEF Subjects!AliasForm, Subjects!Others, Subjects!IInv, Subjects!StaleIsKnown,
         Subjects!AwaitedIsComing
<1> QED BY <1>2, <1>3, <1>4, <1>5, <1>6, <1>7 DEF Subjects!IInv

LEMMA SubjectsLeaveAliasFormPreserves ==
  ASSUME Subjects!IInv, Subjects!LeaveAliasForm
  PROVE  Subjects!IInv'
<1>1. SubjectsWireIs({}, {}, {})
  BY SubjectsWireStays
     DEF Subjects!LeaveAliasForm, Subjects!Others, Subjects!AliasKeys, Subjects!IInv
<1>2. Subjects!TypeOK'
  BY
     DEF Subjects!LeaveAliasForm, Subjects!Others, Subjects!IInv, Subjects!TypeOK,
         Subjects!AliasStates
<1>3. (Subjects!WaitsWhereAsked /\ Subjects!SuspendedDraftReturns)'
  BY
     DEF Subjects!LeaveAliasForm, Subjects!Others, Subjects!IInv, Subjects!WaitsWhereAsked,
         Subjects!SuspendedDraftReturns
<1>4. (Subjects!Wanted /\ Subjects!OneWanted)'
  BY
     DEF Subjects!LeaveAliasForm, Subjects!Others, Subjects!IInv, Subjects!Wanted,
         Subjects!OneWanted
<1>5. (Subjects!SawAll /\ Subjects!NothingLoads)'
  BY
     DEF Subjects!LeaveAliasForm, Subjects!Others, Subjects!IInv, Subjects!SawAll,
         Subjects!NothingLoads
<1>6. (Subjects!AliasOK /\ Subjects!AliasesAreCurrent)'
  BY
     DEF Subjects!LeaveAliasForm, Subjects!Others, Subjects!AliasKeys, Subjects!IInv,
         Subjects!AliasOK, Subjects!AliasesAreCurrent, Subjects!Wanted
<1>7. (Subjects!StaleIsKnown /\ Subjects!AwaitedIsComing)'
  BY
     DEF Subjects!LeaveAliasForm, Subjects!Others, Subjects!IInv, Subjects!StaleIsKnown,
         Subjects!AwaitedIsComing
<1> QED BY <1>2, <1>3, <1>4, <1>5, <1>6, <1>7 DEF Subjects!IInv

LEMMA SubjectsSaveAliasPreserves ==
  ASSUME Subjects!IInv, Subjects!SaveAlias
  PROVE  Subjects!IInv'
<1>0. PICK g : g = Subjects!Message("alias", x5)
  OBVIOUS
<1>1. SubjectsWireIs({}, {}, {g}) /\ SubjectsIsAsked(g, "alias", x5)
  <2>1. x10' = (x10 \ {}) \cup {g}
    BY <1>0 DEF Subjects!SaveAlias, Subjects!Others, Subjects!AliasKeys
  <2>2. Subjects!TypeOK /\ {} \in SUBSET Subjects!Kind /\ "alias" \in Subjects!Kind
        /\ x5 \in 0..MaxSubject
    BY SubjectsAssumption
       DEF Subjects!SaveAlias, Subjects!Others, Subjects!AliasKeys, Subjects!IInv,
           Subjects!TypeOK, Subjects!Kind, Subjects!Reads, Subjects!Writes, Subjects!Drafts,
           Subjects!Messages, Subjects!Subject
  <2>3. "alias" \in {"get", "aliases", "alias"} => x5 # 0
    BY SubjectsAssumption
       DEF Subjects!SaveAlias, Subjects!Others, Subjects!AliasKeys, Subjects!IInv,
           Subjects!TypeOK, Subjects!AliasOK, Subjects!Drafts, Subjects!MessageOK,
           Subjects!Subject
  <2> QED BY <1>0, <2>1, <2>2, <2>3, SubjectsAsked
<1>2. Subjects!TypeOK'
  BY <1>1
     DEF Subjects!SaveAlias, Subjects!Others, Subjects!IInv, Subjects!TypeOK,
         Subjects!AliasStates, SubjectsWireIs
<1>3. (Subjects!WaitsWhereAsked /\ Subjects!SuspendedDraftReturns)'
  BY
     DEF Subjects!SaveAlias, Subjects!Others, Subjects!IInv, Subjects!WaitsWhereAsked,
         Subjects!SuspendedDraftReturns
<1>4. (Subjects!Wanted /\ Subjects!OneWanted)'
  BY <1>1
     DEF Subjects!SaveAlias, Subjects!Others, Subjects!AliasKeys, Subjects!IInv, Subjects!Wanted,
         Subjects!OneWanted, SubjectsWireIs, Subjects!Reads, Subjects!Writes, Subjects!Drafts,
         SubjectsIsAsked
<1>5. (Subjects!SawAll /\ Subjects!NothingLoads)'
  BY <1>1
     DEF Subjects!SaveAlias, Subjects!Others, Subjects!IInv, Subjects!SawAll,
         Subjects!NothingLoads, SubjectsWireIs, SubjectsIsAsked
<1>6. (Subjects!AliasOK /\ Subjects!AliasesAreCurrent)'
  BY
     DEF Subjects!SaveAlias, Subjects!Others, Subjects!AliasKeys, Subjects!IInv, Subjects!AliasOK,
         Subjects!AliasesAreCurrent
<1>7. (Subjects!StaleIsKnown /\ Subjects!AwaitedIsComing)'
  BY <1>1
     DEF Subjects!SaveAlias, Subjects!Others, Subjects!IInv, Subjects!StaleIsKnown,
         Subjects!AwaitedIsComing, SubjectsWireIs, SubjectsIsAsked
<1> QED BY <1>2, <1>3, <1>4, <1>5, <1>6, <1>7 DEF Subjects!IInv

LEMMA SubjectsTakeAskPreserves ==
  ASSUME Subjects!IInv, NEW m \in x10, Subjects!TakeAsk(m)
  PROVE  Subjects!IInv'
<1>1. SubjectsWireIs(Subjects!Reads \cup {"create"}, {m}, {})
  <2>1. x10' = Subjects!Retire(Subjects!Reads \cup {"create"}) \ {m} /\ Subjects!TypeOK
        /\ (Subjects!Reads \cup {"create"}) \in SUBSET Subjects!Kind
    BY
       DEF Subjects!TakeAsk, Subjects!OpenCreate, Subjects!Accepted, Subjects!IInv, Subjects!Kind,
           Subjects!Reads, Subjects!Writes, Subjects!Drafts
  <2> QED BY <2>1, SubjectsRetired
<1>1a. m.kind \notin x8 /\ m.kind \in x7
  BY DEF Subjects!TakeAsk, Subjects!Accepted, Subjects!IInv, Subjects!Wanted
<1>1b. x2 \in {"home", "goals", "voice", "detail", "misc"}
  BY <1>1a
     DEF Subjects!TakeAsk, Subjects!IInv, Subjects!WaitsWhereAsked, Subjects!AskedOn,
         Subjects!Drafts
<1>1c. x8 = {} /\ x8' = {m.kind} /\ x7' = x7
  BY <1>1b DEF Subjects!TakeAsk, Subjects!IInv, Subjects!TypeOK, Subjects!SuspendedDraftReturns
<1>1d. \A n \in x10 : n.kind \notin Subjects!Writes
  BY <1>1b DEF Subjects!IInv, Subjects!Wanted, Subjects!Writes, Subjects!FormOf
<1>1e. x9' \in Subjects!AskedOn("voice")
  BY <1>1a DEF Subjects!TakeAsk, Subjects!IInv, Subjects!TypeOK, Subjects!WaitsWhereAsked
<1>2. Subjects!TypeOK'
  <2>1. x10' \in SUBSET Subjects!Messages /\ (\A n \in x10' : Subjects!MessageOK(n))
    BY <1>1 DEF SubjectsWireIs
  <2>2. x3' \in Subjects!Lists /\ x6' \in Subjects!AliasStates
    BY SubjectsAssumption, <1>1a, <1>1c
       DEF Subjects!TakeAsk, Subjects!OpenCreate, Subjects!Accepted, Subjects!IInv,
           Subjects!TypeOK, Subjects!Lists, Subjects!AliasStates, Subjects!NoAlias
  <2>3. x7' \in SUBSET Subjects!Drafts /\ x8' \in SUBSET x7'
    BY <1>1a, <1>1c
       DEF Subjects!TakeAsk, Subjects!OpenCreate, Subjects!Accepted, Subjects!IInv,
           Subjects!TypeOK, Subjects!Drafts
  <2> QED BY <1>1e, <2>1, <2>2, <2>3, SubjectsAssumption, <1>1a, <1>1c
             DEF Subjects!TakeAsk, Subjects!OpenCreate, Subjects!Accepted, Subjects!IInv,
                 Subjects!TypeOK, Subjects!ScreenNames, Subjects!Subject
<1>3. (Subjects!WaitsWhereAsked /\ Subjects!SuspendedDraftReturns)'
  BY <1>1, <1>1a
     DEF Subjects!TakeAsk, Subjects!OpenCreate, Subjects!IInv, Subjects!TypeOK,
         Subjects!WaitsWhereAsked, Subjects!SuspendedDraftReturns, Subjects!AskedOn,
         Subjects!Drafts
<1>4. (Subjects!Wanted /\ Subjects!OneWanted)'
  BY <1>1, <1>1b, <1>1d
     DEF Subjects!TakeAsk, Subjects!Accepted, Subjects!IInv, Subjects!Wanted, Subjects!OneWanted,
         SubjectsWireIs, Subjects!Reads
<1>5. (Subjects!SawAll /\ Subjects!NothingLoads)'
  BY <1>1
     DEF Subjects!TakeAsk, Subjects!OpenCreate, Subjects!IInv, Subjects!SawAll,
         Subjects!NothingLoads, SubjectsWireIs
<1>6. (Subjects!AliasOK /\ Subjects!AliasesAreCurrent)'
  BY <1>1b
     DEF Subjects!TakeAsk, Subjects!OpenCreate, Subjects!IInv, Subjects!AliasOK,
         Subjects!AliasesAreCurrent
<1>7. (Subjects!StaleIsKnown /\ Subjects!AwaitedIsComing)'
  BY <1>1, <1>1a, <1>1b, <1>1d
     DEF Subjects!TakeAsk, Subjects!OpenCreate, Subjects!IInv, Subjects!StaleIsKnown,
         Subjects!AwaitedIsComing, SubjectsWireIs, Subjects!Reads, Subjects!Drafts
<1> QED BY <1>2, <1>3, <1>4, <1>5, <1>6, <1>7 DEF Subjects!IInv

LEMMA SubjectsDropAskPreserves ==
  ASSUME Subjects!IInv, NEW m \in x10, Subjects!DropAsk(m)
  PROVE  Subjects!IInv'
<1>1. SubjectsWireIs({}, {m}, {})
  BY SubjectsWireStays DEF Subjects!DropAsk, Subjects!Accepted, Subjects!IInv
<1>2. Subjects!TypeOK'
  BY DEF Subjects!DropAsk, Subjects!IInv, Subjects!TypeOK
<1>3. (Subjects!WaitsWhereAsked /\ Subjects!SuspendedDraftReturns)'
  BY
     DEF Subjects!DropAsk, Subjects!Accepted, Subjects!IInv, Subjects!WaitsWhereAsked,
         Subjects!SuspendedDraftReturns, Subjects!AskedOn, Subjects!Drafts
<1>4. (Subjects!Wanted /\ Subjects!OneWanted)'
  BY DEF Subjects!DropAsk, Subjects!IInv, Subjects!Wanted, Subjects!OneWanted
<1>5. (Subjects!SawAll /\ Subjects!NothingLoads)'
  BY DEF Subjects!DropAsk, Subjects!IInv, Subjects!SawAll, Subjects!NothingLoads
<1>6. (Subjects!AliasOK /\ Subjects!AliasesAreCurrent)'
  BY
     DEF Subjects!DropAsk, Subjects!IInv, Subjects!AliasOK, Subjects!AliasesAreCurrent,
         Subjects!Drafts
<1>7. (Subjects!StaleIsKnown /\ Subjects!AwaitedIsComing)'
  BY
     DEF Subjects!DropAsk, Subjects!IInv, Subjects!StaleIsKnown, Subjects!AwaitedIsComing,
         Subjects!Reads, Subjects!Writes, Subjects!Drafts
<1> QED BY <1>2, <1>3, <1>4, <1>5, <1>6, <1>7 DEF Subjects!IInv

LEMMA SubjectsDiscardPreserves ==
  ASSUME Subjects!IInv, NEW m \in x10, Subjects!Discard(m)
  PROVE  Subjects!IInv'
<1>1. SubjectsWireIs({}, {m}, {})
  BY SubjectsWireStays DEF Subjects!Discard, Subjects!Answer, Subjects!Owned, Subjects!IInv
<1>1a. ~m.live /\ m.kind \notin Subjects!Writes \cup Subjects!Drafts \cup {"alias", "changed"}
  BY
     DEF Subjects!Discard, Subjects!Answer, Subjects!Owned, Subjects!IInv, Subjects!TypeOK,
         Subjects!MessageOK, Subjects!Wanted, Subjects!Writes, Subjects!Reads, Subjects!Drafts
<1>2. Subjects!TypeOK'
  BY DEF Subjects!Discard, Subjects!Answer, Subjects!IInv, Subjects!TypeOK
<1>3. (Subjects!WaitsWhereAsked /\ Subjects!SuspendedDraftReturns)'
  BY <1>1a
     DEF Subjects!Discard, Subjects!Answer, Subjects!IInv, Subjects!WaitsWhereAsked,
         Subjects!SuspendedDraftReturns
<1>4. (Subjects!Wanted /\ Subjects!OneWanted)'
  BY DEF Subjects!Discard, Subjects!Answer, Subjects!IInv, Subjects!Wanted, Subjects!OneWanted
<1>5. (Subjects!SawAll /\ Subjects!NothingLoads)'
  BY DEF Subjects!Discard, Subjects!Answer, Subjects!IInv, Subjects!SawAll, Subjects!NothingLoads
<1>6. (Subjects!AliasOK /\ Subjects!AliasesAreCurrent)'
  BY <1>1a
     DEF Subjects!Discard, Subjects!Answer, Subjects!IInv, Subjects!AliasOK,
         Subjects!AliasesAreCurrent
<1>7. (Subjects!StaleIsKnown /\ Subjects!AwaitedIsComing)'
  BY <1>1a
     DEF Subjects!Discard, Subjects!Answer, Subjects!IInv, Subjects!StaleIsKnown,
         Subjects!AwaitedIsComing
<1> QED BY <1>2, <1>3, <1>4, <1>5, <1>6, <1>7 DEF Subjects!IInv

LEMMA SubjectsTakeListPreserves ==
  ASSUME Subjects!IInv, NEW m \in x10, Subjects!TakeList(m)
  PROVE  Subjects!IInv'
<1>1. SubjectsWireIs({}, {m}, {})
  BY SubjectsWireStays
     DEF Subjects!TakeList, Subjects!Answer, Subjects!Owned, Subjects!Failed, Subjects!Others,
         Subjects!IInv
<1>1a. m \in Subjects!Messages /\ m.live /\ x2 = "list" /\ m.is # "work"
  BY DEF Subjects!TakeList, Subjects!Answer, Subjects!Owned, Subjects!IInv, Subjects!TypeOK
<1>1b. /\ x3'.loading = FALSE
       /\ \/ x3'.stale = x3.stale /\ x3'.shown = x3.shown
          \/ x3'.shown = x1.changes
  BY <1>1a
     DEF Subjects!TakeList, Subjects!Failed, Subjects!IInv, Subjects!TypeOK, Subjects!SawAll,
         Subjects!Messages, Subjects!Lists
<1>1c. x3' \in [loading : BOOLEAN, stale : BOOLEAN, shown : Nat]
  BY <1>1a
     DEF Subjects!TakeList, Subjects!IInv, Subjects!TypeOK, Subjects!Messages, Subjects!Lists
<1>1d. UNCHANGED <<x1, x2, x4, x5, x6, x7, x8, x9>>
  BY DEF Subjects!TakeList, Subjects!Others
<1>2. Subjects!TypeOK'
  BY <1>1, <1>1a, <1>1b, <1>1d
     DEF Subjects!TakeList, Subjects!Answer, Subjects!IInv, Subjects!TypeOK, Subjects!Lists
<1>3. (Subjects!WaitsWhereAsked /\ Subjects!SuspendedDraftReturns)'
  BY <1>1, <1>1d
     DEF Subjects!TakeList, Subjects!Answer, Subjects!IInv, Subjects!WaitsWhereAsked,
         Subjects!SuspendedDraftReturns, Subjects!Drafts
<1>4. (Subjects!Wanted /\ Subjects!OneWanted)'
  BY <1>1, <1>1a, <1>1d
     DEF Subjects!TakeList, Subjects!Answer, Subjects!IInv, Subjects!Wanted, Subjects!OneWanted,
         Subjects!FormOf
<1>5. (Subjects!SawAll /\ Subjects!NothingLoads)'
  BY <1>1d
     DEF Subjects!TakeList, Subjects!Answer, Subjects!IInv, Subjects!SawAll,
         Subjects!NothingLoads
<1>6. (Subjects!AliasOK /\ Subjects!AliasesAreCurrent)'
  BY <1>1a, <1>1d DEF Subjects!IInv, Subjects!AliasOK, Subjects!AliasesAreCurrent
<1>7. (Subjects!StaleIsKnown /\ Subjects!AwaitedIsComing)'
  BY <1>1, <1>1a, <1>1b, <1>1c, <1>1d
     DEF Subjects!TakeList, Subjects!Answer, Subjects!IInv, Subjects!StaleIsKnown,
         Subjects!AwaitedIsComing, Subjects!Writes
<1> QED BY <1>2, <1>3, <1>4, <1>5, <1>6, <1>7 DEF Subjects!IInv

LEMMA SubjectsTakeSubjectPreserves ==
  ASSUME Subjects!IInv, NEW m \in x10, Subjects!TakeSubject(m)
  PROVE  Subjects!IInv'
<1>1. SubjectsWireIs({}, {m}, {})
  BY SubjectsWireStays
     DEF Subjects!TakeSubject, Subjects!Answer, Subjects!Owned, Subjects!Failed, Subjects!Others,
         Subjects!IInv
<1>1a. m \in Subjects!Messages /\ m.live /\ x2 = "list" /\ m.subject # 0
  BY
     DEF Subjects!TakeSubject, Subjects!Answer, Subjects!Owned, Subjects!IInv, Subjects!TypeOK,
         Subjects!Wanted, Subjects!Reads, Subjects!MessageOK
<1>1b. x2' \in {"list", "detail"} /\ x5' \in 0..MaxSubject
  BY <1>1a DEF Subjects!TakeSubject, Subjects!IInv, Subjects!TypeOK, Subjects!Messages
<1>1c. x7 = {} /\ x8 = {}
  BY <1>1a
     DEF Subjects!IInv, Subjects!TypeOK, Subjects!WaitsWhereAsked, Subjects!SuspendedDraftReturns,
         Subjects!AskedOn, Subjects!Drafts
<1>1d. m.kind \notin {"changed", "alias", "aliases"} \cup Subjects!Writes \cup Subjects!Drafts
  BY DEF Subjects!TakeSubject, Subjects!Writes, Subjects!Drafts
<1>2. Subjects!TypeOK'
  BY <1>1, <1>1a, <1>1b, <1>1c, <1>1d, SubjectsAssumption
     DEF Subjects!TakeSubject, Subjects!Answer, Subjects!Others, Subjects!IInv, Subjects!TypeOK,
         Subjects!Lists, Subjects!ScreenNames
<1>3. (Subjects!WaitsWhereAsked /\ Subjects!SuspendedDraftReturns)'
  BY <1>1c
     DEF Subjects!TakeSubject, Subjects!Others, Subjects!IInv, Subjects!WaitsWhereAsked,
         Subjects!SuspendedDraftReturns
<1>4. (Subjects!Wanted /\ Subjects!OneWanted)'
  BY <1>1, <1>1a
     DEF Subjects!TakeSubject, Subjects!Answer, Subjects!Others, Subjects!IInv, Subjects!Wanted,
         Subjects!OneWanted, Subjects!FormOf, Subjects!Reads
<1>5. (Subjects!SawAll /\ Subjects!NothingLoads)'
  BY <1>1, <1>1a
     DEF Subjects!TakeSubject, Subjects!Answer, Subjects!Others, Subjects!IInv, Subjects!SawAll,
         Subjects!NothingLoads, Subjects!Wanted
<1>6. (Subjects!AliasOK /\ Subjects!AliasesAreCurrent)'
  BY <1>1a DEF Subjects!TakeSubject, Subjects!IInv, Subjects!AliasOK, Subjects!AliasesAreCurrent
<1>7. (Subjects!StaleIsKnown /\ Subjects!AwaitedIsComing)'
  BY <1>1d
     DEF Subjects!TakeSubject, Subjects!Answer, Subjects!Others, Subjects!IInv,
         Subjects!StaleIsKnown, Subjects!AwaitedIsComing
<1> QED BY <1>2, <1>3, <1>4, <1>5, <1>6, <1>7 DEF Subjects!IInv

LEMMA SubjectsTakeCreatedPreserves ==
  ASSUME Subjects!IInv, NEW m \in x10, Subjects!TakeCreated(m)
  PROVE  Subjects!IInv'
<1>1. SubjectsWireIs({}, {m}, {})
  BY SubjectsWireStays, SubjectsCardinality
     DEF Subjects!TakeCreated, Subjects!Answer, Subjects!Owned, Subjects!Failed, Subjects!First,
         Subjects!ReturnTo, Subjects!IInv
<1>1a. m \in Subjects!Messages /\ m.live /\ x2 \in {"create", "fromAlias"} /\ x3.loading
  BY SubjectsCardinality
     DEF Subjects!TakeCreated, Subjects!Answer, Subjects!Owned, Subjects!IInv, Subjects!TypeOK,
         Subjects!Wanted, Subjects!FormOf, Subjects!Writes
<1>1b. \/ \E d \in Subjects!Drafts : x8 = {d} /\ Subjects!ReturnTo(d) /\ ~Subjects!Failed(m)
       \/ x8 = {} /\ x2' = "detail" /\ UNCHANGED <<x7, x8>> /\ ~Subjects!Failed(m)
       \/ Subjects!Failed(m) /\ UNCHANGED <<x2, x7, x8>>
  BY SubjectsCardinality
     DEF Subjects!TakeCreated, Subjects!First, Subjects!IInv, Subjects!SuspendedDraftReturns,
         Subjects!TypeOK, Subjects!Drafts
<1>1c. \/ /\ x2' \in {"home", "goals", "voice", "detail", "misc"} /\ ~Subjects!Failed(m)
          /\ x7' = x7 \ x8 /\ x8' = {}
       \/ Subjects!Failed(m) /\ UNCHANGED <<x2, x7, x8>>
  BY <1>1b
     DEF Subjects!ReturnTo, Subjects!IInv, Subjects!TypeOK, Subjects!AskedOn, Subjects!Drafts
<1>1d. Cardinality(x1.subjects) \in 0..MaxSubject
  BY SubjectsSubjectsAreFew DEF Subjects!IInv, Subjects!TypeOK
<1>1e. x5' \in 0..MaxSubject /\ x4' \in BOOLEAN
  BY <1>1d, SubjectsCardinality DEF Subjects!TakeCreated, Subjects!IInv, Subjects!TypeOK
<1>1f. /\ x3'.loading = FALSE /\ x3'.shown = x3.shown /\ (~Subjects!Failed(m) => x3'.stale)
       /\ (Subjects!Failed(m) => x3'.stale = x3.stale)
       /\ x3' \in [loading : BOOLEAN, stale : BOOLEAN, shown : Nat]
  BY SubjectsCardinality DEF Subjects!TakeCreated, Subjects!IInv, Subjects!TypeOK, Subjects!Lists
<1>1g. (\A n \in x10' : n.kind \notin Subjects!Writes) /\ (~Subjects!Failed(m) => m.is = "done")
  BY <1>1, <1>1a, SubjectsCardinality
     DEF Subjects!TakeCreated, Subjects!Answer, Subjects!Failed, Subjects!IInv, Subjects!TypeOK,
         Subjects!OneWanted, SubjectsWireIs, Subjects!Writes, Subjects!Messages
<1>2. Subjects!TypeOK'
  BY <1>1, <1>1a, <1>1b, <1>1c, <1>1d, <1>1e, <1>1f, <1>1g, SubjectsAssumption,
     SubjectsCardinality
     DEF Subjects!TakeCreated, Subjects!Answer, Subjects!IInv, Subjects!TypeOK, Subjects!Lists,
         Subjects!ScreenNames
<1>3. (Subjects!WaitsWhereAsked /\ Subjects!SuspendedDraftReturns)'
  BY <1>1, <1>1a, <1>1b, <1>1c, <1>1d, <1>1e, <1>1f
     DEF Subjects!IInv, Subjects!TypeOK, Subjects!WaitsWhereAsked, Subjects!SuspendedDraftReturns,
         Subjects!AskedOn, Subjects!Drafts
<1>4. (Subjects!Wanted /\ Subjects!OneWanted)'
  BY <1>1a, <1>1c, <1>1g, SubjectsCardinality
     DEF Subjects!TakeCreated, Subjects!Answer, Subjects!IInv, Subjects!Wanted,
         Subjects!OneWanted
<1>5. (Subjects!SawAll /\ Subjects!NothingLoads)'
  BY <1>1, <1>1a, <1>1b, <1>1c, <1>1d, <1>1e, SubjectsCardinality
     DEF Subjects!TakeCreated, Subjects!Answer, Subjects!IInv, Subjects!SawAll,
         Subjects!NothingLoads, Subjects!Wanted
<1>6. (Subjects!AliasOK /\ Subjects!AliasesAreCurrent)'
  BY <1>1a, <1>1c, SubjectsCardinality
     DEF Subjects!TakeCreated, Subjects!IInv, Subjects!AliasOK, Subjects!AliasesAreCurrent
<1>7. (Subjects!StaleIsKnown /\ Subjects!AwaitedIsComing)'
  BY <1>1c, <1>1f, SubjectsCardinality
     DEF Subjects!TakeCreated, Subjects!Answer, Subjects!Failed, Subjects!IInv,
         Subjects!StaleIsKnown, Subjects!AwaitedIsComing
<1> QED BY <1>2, <1>3, <1>4, <1>5, <1>6, <1>7 DEF Subjects!IInv

LEMMA SubjectsTakeEditedPreserves ==
  ASSUME Subjects!IInv, NEW m \in x10, Subjects!TakeEdited(m)
  PROVE  Subjects!IInv'
<1>1. SubjectsWireIs({}, {m}, {})
  BY SubjectsWireStays
     DEF Subjects!TakeEdited, Subjects!Answer, Subjects!Failed, Subjects!Others, Subjects!IInv
<1>1a. x2 = "edit" /\ x3.loading /\ x2' \in {"edit", "detail"}
  BY DEF Subjects!TakeEdited, Subjects!IInv, Subjects!Wanted, Subjects!FormOf, Subjects!Writes
<1>1b. x7 = {} /\ x8 = {}
  BY <1>1a
     DEF Subjects!IInv, Subjects!TypeOK, Subjects!WaitsWhereAsked, Subjects!SuspendedDraftReturns,
         Subjects!AskedOn, Subjects!Drafts
<1>1c. \A n \in x10' : n.kind \notin Subjects!Writes
  BY <1>1
     DEF Subjects!TakeEdited, Subjects!IInv, Subjects!OneWanted, SubjectsWireIs, Subjects!Writes
<1>1d. /\ x3'.loading = FALSE /\ x3'.shown = x3.shown
       /\ IF Subjects!Failed(m) THEN x2' = "edit" /\ x3'.stale = x3.stale ELSE x2' = "detail" /\ x3'.stale = TRUE
  BY <1>1a DEF Subjects!TakeEdited, Subjects!IInv, Subjects!TypeOK, Subjects!Lists
<1>1e. m.is = "done" \/ m.is = "failed"
  BY DEF Subjects!TakeEdited, Subjects!Answer, Subjects!IInv, Subjects!TypeOK, Subjects!Messages
<1>2. Subjects!TypeOK'
  <2>1. x10' \in SUBSET Subjects!Messages /\ (\A n \in x10' : Subjects!MessageOK(n))
    BY <1>1 DEF SubjectsWireIs
  <2>2. x3' \in Subjects!Lists /\ x6' \in Subjects!AliasStates
    BY SubjectsAssumption, <1>1a
       DEF Subjects!TakeEdited, Subjects!Answer, Subjects!Failed, Subjects!Others, Subjects!IInv,
           Subjects!TypeOK, Subjects!Lists, Subjects!AliasStates, Subjects!NoAlias
  <2>3. x7' \in SUBSET Subjects!Drafts /\ x8' \in SUBSET x7'
    BY <1>1a
       DEF Subjects!TakeEdited, Subjects!Answer, Subjects!Failed, Subjects!Others, Subjects!IInv,
           Subjects!TypeOK, Subjects!Drafts
  <2> QED BY <2>1, <2>2, <2>3, SubjectsAssumption, <1>1a
             DEF Subjects!TakeEdited, Subjects!Answer, Subjects!Failed, Subjects!Others,
                 Subjects!IInv, Subjects!TypeOK, Subjects!ScreenNames, Subjects!Subject
<1>3. (Subjects!WaitsWhereAsked /\ Subjects!SuspendedDraftReturns)'
  BY <1>1b
     DEF Subjects!TakeEdited, Subjects!Others, Subjects!IInv, Subjects!WaitsWhereAsked,
         Subjects!SuspendedDraftReturns
<1>4. (Subjects!Wanted /\ Subjects!OneWanted)'
  BY <1>1a, <1>1c
     DEF Subjects!TakeEdited, Subjects!Answer, Subjects!Others, Subjects!IInv, Subjects!Wanted,
         Subjects!OneWanted
<1>5. (Subjects!SawAll /\ Subjects!NothingLoads)'
  BY <1>1d
     DEF Subjects!TakeEdited, Subjects!Answer, Subjects!Others, Subjects!IInv, Subjects!SawAll,
         Subjects!NothingLoads
<1>6. (Subjects!AliasOK /\ Subjects!AliasesAreCurrent)'
  BY <1>1a DEF Subjects!TakeEdited, Subjects!IInv, Subjects!AliasOK, Subjects!AliasesAreCurrent
<1>7. (Subjects!StaleIsKnown /\ Subjects!AwaitedIsComing)'
  BY <1>1d
     DEF Subjects!TakeEdited, Subjects!Answer, Subjects!Failed, Subjects!Others, Subjects!IInv,
         Subjects!StaleIsKnown, Subjects!AwaitedIsComing
<1> QED BY <1>2, <1>3, <1>4, <1>5, <1>6, <1>7 DEF Subjects!IInv

LEMMA SubjectsTakeAliasesPreserves ==
  ASSUME Subjects!IInv, NEW m \in x10, Subjects!TakeAliases(m)
  PROVE  Subjects!IInv'
<1>1. SubjectsWireIs({}, {m}, {})
  BY SubjectsWireStays
     DEF Subjects!TakeAliases, Subjects!Answer, Subjects!Owned, Subjects!Failed, Subjects!Others,
         Subjects!IInv
<1>1a. /\ m \in Subjects!Messages /\ m.live /\ x2 = "aliases" /\ m.subject = x5
       /\ x6.loading /\ ~x6.saving /\ x6.mode = "browse" /\ m.is # "work"
  BY
     DEF Subjects!TakeAliases, Subjects!Answer, Subjects!Owned, Subjects!IInv, Subjects!TypeOK,
         Subjects!Wanted
<1>1b. x6' \in [saving : BOOLEAN, mode : {"browse", "edit", "remove"}, loading : BOOLEAN,
                   failed : BOOLEAN, of : 0..MaxSubject, shown : Nat]
  BY <1>1a
     DEF Subjects!TakeAliases, Subjects!IInv, Subjects!TypeOK, Subjects!Messages,
         Subjects!AliasStates
<1>1c. /\ ~x6'.loading /\ ~x6'.saving /\ x6'.mode = "browse"
       /\ x6'.failed \/ (x6'.of = x5 /\ x6'.shown = x1.aliases[x5])
  BY <1>1a
     DEF Subjects!TakeAliases, Subjects!Failed, Subjects!IInv, Subjects!TypeOK, Subjects!SawAll,
         Subjects!Messages
<1>1d. \A n \in x10' : n.live => n.kind # "aliases"
  BY <1>1, <1>1a DEF Subjects!TakeAliases, Subjects!IInv, Subjects!OneWanted, SubjectsWireIs
<1>2. Subjects!TypeOK'
  BY <1>1, <1>1a, <1>1b
     DEF Subjects!TakeAliases, Subjects!Answer, Subjects!Others, Subjects!IInv, Subjects!TypeOK,
         Subjects!AliasStates
<1>3. (Subjects!WaitsWhereAsked /\ Subjects!SuspendedDraftReturns)'
  BY <1>1
     DEF Subjects!TakeAliases, Subjects!Answer, Subjects!Others, Subjects!IInv,
         Subjects!WaitsWhereAsked, Subjects!SuspendedDraftReturns, Subjects!Drafts
<1>4. (Subjects!Wanted /\ Subjects!OneWanted)'
  BY <1>1a
     DEF Subjects!TakeAliases, Subjects!Answer, Subjects!Others, Subjects!IInv, Subjects!Wanted,
         Subjects!OneWanted
<1>5. (Subjects!SawAll /\ Subjects!NothingLoads)'
  BY
     DEF Subjects!TakeAliases, Subjects!Answer, Subjects!Others, Subjects!IInv, Subjects!SawAll,
         Subjects!NothingLoads
<1>6. (Subjects!AliasOK /\ Subjects!AliasesAreCurrent)'
  BY <1>1c
     DEF Subjects!TakeAliases, Subjects!Others, Subjects!IInv, Subjects!AliasOK,
         Subjects!AliasesAreCurrent
<1>7. (Subjects!StaleIsKnown /\ Subjects!AwaitedIsComing)'
  BY <1>1, <1>1a, <1>1b, <1>1c
     DEF Subjects!TakeAliases, Subjects!Answer, Subjects!Others, Subjects!IInv,
         Subjects!StaleIsKnown, Subjects!AwaitedIsComing, Subjects!Writes
<1> QED BY <1>2, <1>3, <1>4, <1>5, <1>6, <1>7 DEF Subjects!IInv

LEMMA SubjectsChooseRowMiscPreserves ==
  ASSUME Subjects!IInv, Subjects!ChooseRow, x2' = "misc", x10' = Subjects!Retire(Subjects!Reads),
         x5' = 0, UNCHANGED <<x3, x4, x8>>
  PROVE  Subjects!IInv'
<1>1. SubjectsWireIs(Subjects!Reads, {}, {})
  <2>1. x10' = Subjects!Retire(Subjects!Reads) \ {} /\ Subjects!TypeOK
        /\ (Subjects!Reads) \in SUBSET Subjects!Kind
    BY
       DEF Subjects!ChooseRow, Subjects!IInv, Subjects!Kind, Subjects!Reads, Subjects!Writes,
           Subjects!Drafts
  <2> QED BY <2>1, SubjectsRetired
<1>2. Subjects!TypeOK'
  BY <1>1, SubjectsAssumption
     DEF Subjects!ChooseRow, Subjects!IInv, Subjects!TypeOK, Subjects!ScreenNames, SubjectsWireIs
<1>3. (Subjects!WaitsWhereAsked /\ Subjects!SuspendedDraftReturns)'
  BY
     DEF Subjects!ChooseRow, Subjects!IInv, Subjects!TypeOK, Subjects!WaitsWhereAsked,
         Subjects!SuspendedDraftReturns, Subjects!AskedOn, Subjects!Drafts
<1>4. (Subjects!Wanted /\ Subjects!OneWanted)'
  BY <1>1
     DEF Subjects!ChooseRow, Subjects!IInv, Subjects!Wanted, Subjects!OneWanted, SubjectsWireIs
<1>5. (Subjects!SawAll /\ Subjects!NothingLoads)'
  BY <1>1
     DEF Subjects!ChooseRow, Subjects!IInv, Subjects!SawAll, Subjects!NothingLoads,
         Subjects!Wanted, SubjectsWireIs
<1>6. (Subjects!AliasOK /\ Subjects!AliasesAreCurrent)'
  BY DEF Subjects!ChooseRow, Subjects!IInv, Subjects!AliasOK, Subjects!AliasesAreCurrent
<1>7. (Subjects!StaleIsKnown /\ Subjects!AwaitedIsComing)'
  BY <1>1
     DEF Subjects!ChooseRow, Subjects!IInv, Subjects!StaleIsKnown, Subjects!AwaitedIsComing,
         Subjects!Wanted, SubjectsWireIs, Subjects!Reads
<1> QED BY <1>2, <1>3, <1>4, <1>5, <1>6, <1>7 DEF Subjects!IInv

LEMMA SubjectsChooseRowCreatePreserves ==
  ASSUME Subjects!IInv, Subjects!ChooseRow, Subjects!OpenCreate,
         x10' = Subjects!Retire(Subjects!Reads \cup {"create"}),
         x8' = x8 \ {"event"}, UNCHANGED x5
  PROVE  Subjects!IInv'
<1>1. SubjectsWireIs(Subjects!Reads \cup {"create"}, {}, {})
  <2>1. x10' = Subjects!Retire(Subjects!Reads \cup {"create"}) \ {} /\ Subjects!TypeOK
        /\ (Subjects!Reads \cup {"create"}) \in SUBSET Subjects!Kind
    BY
       DEF Subjects!ChooseRow, Subjects!OpenCreate, Subjects!IInv, Subjects!Kind, Subjects!Reads,
           Subjects!Writes, Subjects!Drafts
  <2> QED BY <2>1, SubjectsRetired
<1>2. Subjects!TypeOK'
  BY <1>1
     DEF Subjects!ChooseRow, Subjects!OpenCreate, Subjects!IInv, Subjects!TypeOK, Subjects!Lists,
         Subjects!ScreenNames, SubjectsWireIs
<1>3. (Subjects!WaitsWhereAsked /\ Subjects!SuspendedDraftReturns)'
  BY
     DEF Subjects!ChooseRow, Subjects!IInv, Subjects!TypeOK, Subjects!WaitsWhereAsked,
         Subjects!SuspendedDraftReturns, Subjects!AskedOn, Subjects!Drafts
<1>4. (Subjects!Wanted /\ Subjects!OneWanted)'
  BY <1>1
     DEF Subjects!ChooseRow, Subjects!OpenCreate, Subjects!IInv, Subjects!Wanted,
         Subjects!OneWanted, SubjectsWireIs
<1>5. (Subjects!SawAll /\ Subjects!NothingLoads)'
  BY <1>1
     DEF Subjects!ChooseRow, Subjects!OpenCreate, Subjects!IInv, Subjects!SawAll,
         Subjects!NothingLoads, SubjectsWireIs
<1>6. (Subjects!AliasOK /\ Subjects!AliasesAreCurrent)'
  BY
     DEF Subjects!ChooseRow, Subjects!OpenCreate, Subjects!IInv, Subjects!AliasOK,
         Subjects!AliasesAreCurrent
<1>7. (Subjects!StaleIsKnown /\ Subjects!AwaitedIsComing)'
  BY <1>1
     DEF Subjects!ChooseRow, Subjects!OpenCreate, Subjects!IInv, Subjects!StaleIsKnown,
         Subjects!AwaitedIsComing, Subjects!Wanted, SubjectsWireIs, Subjects!Reads
<1> QED BY <1>2, <1>3, <1>4, <1>5, <1>6, <1>7 DEF Subjects!IInv

LEMMA SubjectsChooseRowGetPreserves ==
  ASSUME Subjects!IInv, NEW s \in x1.subjects, Subjects!ChooseRow, Subjects!Read("get", s),
         UNCHANGED <<x2, x4, x5, x8>>
  PROVE  Subjects!IInv'
<1>0. PICK g : g = Subjects!Message("get", s)
  OBVIOUS
<1>1. SubjectsWireIs(Subjects!Reads, {}, {g}) /\ SubjectsIsAsked(g, "get", s)
  <2>1. x10' = (Subjects!Retire(Subjects!Reads) \ {}) \cup {g}
    BY <1>0 DEF Subjects!ChooseRow, Subjects!Read
  <2>2. Subjects!TypeOK /\ Subjects!Reads \in SUBSET Subjects!Kind /\ "get" \in Subjects!Kind
        /\ s \in 0..MaxSubject
    BY SubjectsAssumption
       DEF Subjects!ChooseRow, Subjects!Read, Subjects!IInv, Subjects!TypeOK, Subjects!Kind,
           Subjects!Reads, Subjects!Writes, Subjects!Drafts, Subjects!Messages, Subjects!Subject
  <2>3. "get" \in {"get", "aliases", "alias"} => s # 0
    BY SubjectsAssumption
       DEF Subjects!ChooseRow, Subjects!Read, Subjects!IInv, Subjects!TypeOK, Subjects!AliasOK,
           Subjects!Drafts, Subjects!MessageOK, Subjects!Subject
  <2> QED BY <1>0, <2>1, <2>2, <2>3, SubjectsAsked
<1>2. Subjects!TypeOK'
  BY <1>1
     DEF Subjects!ChooseRow, Subjects!Read, Subjects!IInv, Subjects!TypeOK, Subjects!Lists,
         SubjectsWireIs
<1>3. (Subjects!WaitsWhereAsked /\ Subjects!SuspendedDraftReturns)'
  BY <1>1
     DEF Subjects!ChooseRow, Subjects!IInv, Subjects!WaitsWhereAsked,
         Subjects!SuspendedDraftReturns, Subjects!Drafts, SubjectsWireIs, Subjects!Reads
<1>4. (Subjects!Wanted /\ Subjects!OneWanted)'
  BY <1>1
     DEF Subjects!ChooseRow, Subjects!IInv, Subjects!Wanted, Subjects!OneWanted, SubjectsWireIs,
         Subjects!Writes, Subjects!Drafts, SubjectsIsAsked
<1>5. (Subjects!SawAll /\ Subjects!NothingLoads)'
  BY <1>1
     DEF Subjects!ChooseRow, Subjects!IInv, Subjects!SawAll, Subjects!NothingLoads,
         SubjectsWireIs, SubjectsIsAsked
<1>6. (Subjects!AliasOK /\ Subjects!AliasesAreCurrent)'
  BY DEF Subjects!ChooseRow, Subjects!IInv, Subjects!AliasOK, Subjects!AliasesAreCurrent
<1>7. (Subjects!StaleIsKnown /\ Subjects!AwaitedIsComing)'
  BY <1>1
     DEF Subjects!ChooseRow, Subjects!Read, Subjects!IInv, Subjects!StaleIsKnown,
         Subjects!AwaitedIsComing, Subjects!Wanted, SubjectsWireIs, Subjects!Reads,
         SubjectsIsAsked
<1> QED BY <1>2, <1>3, <1>4, <1>5, <1>6, <1>7 DEF Subjects!IInv

LEMMA SubjectsLeaveDetailFreshPreserves ==
  ASSUME Subjects!IInv, Subjects!LeaveDetail, ~x3.stale
  PROVE  Subjects!IInv'
<1>1. SubjectsWireIs({}, {}, {})
  BY SubjectsWireStays DEF Subjects!LeaveDetail, Subjects!Others, Subjects!IInv
<1>2. Subjects!TypeOK'
  BY SubjectsAssumption
     DEF Subjects!LeaveDetail, Subjects!Others, Subjects!IInv, Subjects!TypeOK,
         Subjects!ScreenNames
<1>3. (Subjects!WaitsWhereAsked /\ Subjects!SuspendedDraftReturns)'
  BY
     DEF Subjects!LeaveDetail, Subjects!Others, Subjects!IInv, Subjects!TypeOK,
         Subjects!WaitsWhereAsked, Subjects!SuspendedDraftReturns, Subjects!AskedOn,
         Subjects!Drafts
<1>4. (Subjects!Wanted /\ Subjects!OneWanted)'
  BY
     DEF Subjects!LeaveDetail, Subjects!Others, Subjects!IInv, Subjects!Wanted,
         Subjects!OneWanted, Subjects!FormOf, Subjects!Writes
<1>5. (Subjects!SawAll /\ Subjects!NothingLoads)'
  BY
     DEF Subjects!LeaveDetail, Subjects!Others, Subjects!IInv, Subjects!SawAll,
         Subjects!NothingLoads, Subjects!Wanted
<1>6. (Subjects!AliasOK /\ Subjects!AliasesAreCurrent)'
  BY DEF Subjects!LeaveDetail, Subjects!IInv, Subjects!AliasOK, Subjects!AliasesAreCurrent
<1>7. (Subjects!StaleIsKnown /\ Subjects!AwaitedIsComing)'
  BY <1>1
     DEF Subjects!LeaveDetail, Subjects!Others, Subjects!IInv, Subjects!StaleIsKnown,
         Subjects!AwaitedIsComing, Subjects!NothingLoads
<1> QED BY <1>2, <1>3, <1>4, <1>5, <1>6, <1>7 DEF Subjects!IInv

LEMMA SubjectsLeaveDetailStalePreserves ==
  ASSUME Subjects!IInv, Subjects!LeaveDetail, x3.stale
  PROVE  Subjects!IInv'
<1>0. PICK g : g = Subjects!Message("list", 0)
  OBVIOUS
<1>1. SubjectsWireIs(Subjects!Reads, {}, {g}) /\ SubjectsIsAsked(g, "list", 0)
  <2>1. x10' = (Subjects!Retire(Subjects!Reads) \ {}) \cup {g}
    BY <1>0 DEF Subjects!LeaveDetail, Subjects!Read, Subjects!Others
  <2>2. Subjects!TypeOK /\ Subjects!Reads \in SUBSET Subjects!Kind /\ "list" \in Subjects!Kind
        /\ 0 \in 0..MaxSubject
    BY SubjectsAssumption
       DEF Subjects!LeaveDetail, Subjects!Read, Subjects!Others, Subjects!IInv, Subjects!TypeOK,
           Subjects!Kind, Subjects!Reads, Subjects!Writes, Subjects!Drafts, Subjects!Messages,
           Subjects!Subject
  <2>3. "list" \in {"get", "aliases", "alias"} => 0 # 0
    BY SubjectsAssumption
       DEF Subjects!LeaveDetail, Subjects!Read, Subjects!Others, Subjects!IInv, Subjects!TypeOK,
           Subjects!AliasOK, Subjects!Drafts, Subjects!MessageOK, Subjects!Subject
  <2> QED BY <1>0, <2>1, <2>2, <2>3, SubjectsAsked
<1>1a. /\ x2' = "list" /\ x3'.stale /\ UNCHANGED <<x1, x6>>
  BY
     DEF Subjects!LeaveDetail, Subjects!Read, Subjects!Others, Subjects!IInv, Subjects!TypeOK,
         Subjects!Lists
<1>1b. g \in x10' /\ g.live /\ g.kind \in Subjects!Reads
  BY <1>1 DEF SubjectsWireIs, SubjectsIsAsked, Subjects!Reads
<1>2. Subjects!TypeOK'
  <2>1. x10' \in SUBSET Subjects!Messages /\ (\A n \in x10' : Subjects!MessageOK(n))
    BY <1>1 DEF SubjectsWireIs
  <2>2. x3' \in Subjects!Lists /\ x6' \in Subjects!AliasStates
    BY SubjectsAssumption
       DEF Subjects!LeaveDetail, Subjects!Read, Subjects!Others, Subjects!IInv, Subjects!TypeOK,
           Subjects!Lists, Subjects!AliasStates, Subjects!NoAlias
  <2>3. x7' \in SUBSET Subjects!Drafts /\ x8' \in SUBSET x7'
    BY SubjectsAssumption
       DEF Subjects!LeaveDetail, Subjects!Read, Subjects!Others, Subjects!IInv, Subjects!TypeOK,
           Subjects!Drafts
  <2> QED BY <2>1, <2>2, <2>3, SubjectsAssumption
             DEF Subjects!LeaveDetail, Subjects!Read, Subjects!Others, Subjects!IInv,
                 Subjects!TypeOK, Subjects!ScreenNames, Subjects!Subject
<1>3. (Subjects!WaitsWhereAsked /\ Subjects!SuspendedDraftReturns)'
  BY
     DEF Subjects!LeaveDetail, Subjects!Others, Subjects!IInv, Subjects!TypeOK,
         Subjects!WaitsWhereAsked, Subjects!SuspendedDraftReturns, Subjects!AskedOn,
         Subjects!Drafts
<1>4. (Subjects!Wanted /\ Subjects!OneWanted)'
  BY <1>1, <1>1b
     DEF Subjects!LeaveDetail, Subjects!Others, Subjects!IInv, Subjects!Wanted,
         Subjects!OneWanted, Subjects!FormOf, SubjectsWireIs, Subjects!Reads, Subjects!Writes,
         Subjects!Drafts
<1>5. (Subjects!SawAll /\ Subjects!NothingLoads)'
  BY <1>1, <1>1a
     DEF Subjects!LeaveDetail, Subjects!IInv, Subjects!SawAll, Subjects!NothingLoads,
         Subjects!Wanted, SubjectsWireIs, SubjectsIsAsked
<1>6. (Subjects!AliasOK /\ Subjects!AliasesAreCurrent)'
  BY DEF Subjects!LeaveDetail, Subjects!IInv, Subjects!AliasOK, Subjects!AliasesAreCurrent
<1>7. (Subjects!StaleIsKnown /\ Subjects!AwaitedIsComing)'
  <2>1. Subjects!StaleIsKnown'
    BY <1>1a DEF Subjects!StaleIsKnown
  <2>2. Subjects!AwaitedIsComing'
    BY <1>1a, <1>1b DEF Subjects!AwaitedIsComing
  <2> QED BY <2>1, <2>2
<1> QED BY <1>2, <1>3, <1>4, <1>5, <1>6, <1>7 DEF Subjects!IInv

LEMMA SubjectsTakeDeletedNotPreserves ==
  ASSUME Subjects!IInv, NEW m \in x10, Subjects!TakeDeleted(m), Subjects!Failed(m)
  PROVE  Subjects!IInv'
<1>1. SubjectsWireIs({}, {m}, {})
  BY SubjectsWireStays DEF Subjects!TakeDeleted, Subjects!Failed, Subjects!Others, Subjects!IInv
<1>1a. /\ x2 = "delete" /\ x3'.loading = FALSE /\ x3'.stale = x3.stale /\ x3'.shown = x3.shown
       /\ UNCHANGED <<x1, x2, x4, x5, x6, x7, x8, x9>>
  BY
     DEF Subjects!TakeDeleted, Subjects!Others, Subjects!IInv, Subjects!TypeOK, Subjects!Lists,
         Subjects!Wanted, Subjects!FormOf, Subjects!Writes
<1>1b. m.kind = "delete" /\ m.is = "failed" /\ x10' = x10 \ {m}
  BY DEF Subjects!TakeDeleted, Subjects!Failed
<1>2. Subjects!TypeOK'
  BY <1>1a DEF Subjects!TakeDeleted, Subjects!IInv, Subjects!TypeOK, Subjects!Lists
<1>3. (Subjects!WaitsWhereAsked /\ Subjects!SuspendedDraftReturns)'
  BY <1>1a, <1>1b
     DEF Subjects!IInv, Subjects!WaitsWhereAsked, Subjects!SuspendedDraftReturns, Subjects!Drafts
<1>4. (Subjects!Wanted /\ Subjects!OneWanted)'
  BY <1>1a, <1>1b DEF Subjects!IInv, Subjects!Wanted, Subjects!OneWanted, Subjects!FormOf
<1>5. (Subjects!SawAll /\ Subjects!NothingLoads)'
  BY <1>1a, <1>1b DEF Subjects!IInv, Subjects!SawAll, Subjects!NothingLoads
<1>6. (Subjects!AliasOK /\ Subjects!AliasesAreCurrent)'
  BY <1>1a DEF Subjects!IInv, Subjects!AliasOK, Subjects!AliasesAreCurrent
<1>7. (Subjects!StaleIsKnown /\ Subjects!AwaitedIsComing)'
  <2>1. Subjects!StaleIsKnown'
    BY <1>1a, <1>1b DEF Subjects!IInv, Subjects!StaleIsKnown
  <2>2. Subjects!AwaitedIsComing'
    BY <1>1a, <1>1b DEF Subjects!IInv, Subjects!AwaitedIsComing
  <2> QED BY <2>1, <2>2
<1> QED BY <1>2, <1>3, <1>4, <1>5, <1>6, <1>7 DEF Subjects!IInv

LEMMA SubjectsTakeDeletedDonePreserves ==
  ASSUME Subjects!IInv, NEW m \in x10, Subjects!TakeDeleted(m), ~Subjects!Failed(m)
  PROVE  Subjects!IInv'
<1>0. PICK g : g = Subjects!Message("list", 0)
  OBVIOUS
<1>1. SubjectsWireIs(Subjects!Reads, {m}, {g}) /\ SubjectsIsAsked(g, "list", 0)
  <2>1. x10' = (Subjects!Retire(Subjects!Reads) \ {m}) \cup {g}
    BY <1>0 DEF Subjects!TakeDeleted, Subjects!Failed, Subjects!Others
  <2>2. Subjects!TypeOK /\ Subjects!Reads \in SUBSET Subjects!Kind /\ "list" \in Subjects!Kind
        /\ 0 \in 0..MaxSubject
    BY SubjectsAssumption
       DEF Subjects!TakeDeleted, Subjects!Failed, Subjects!Others, Subjects!IInv, Subjects!TypeOK,
           Subjects!Kind, Subjects!Reads, Subjects!Writes, Subjects!Drafts, Subjects!Messages,
           Subjects!Subject
  <2>3. "list" \in {"get", "aliases", "alias"} => 0 # 0
    BY SubjectsAssumption
       DEF Subjects!TakeDeleted, Subjects!Failed, Subjects!Others, Subjects!IInv, Subjects!TypeOK,
           Subjects!AliasOK, Subjects!Drafts, Subjects!MessageOK, Subjects!Subject
  <2> QED BY <1>0, <2>1, <2>2, <2>3, SubjectsAsked
<1>1a. x2 = "delete" /\ x3.loading /\ m.live /\ m.is = "done"
  BY
     DEF Subjects!TakeDeleted, Subjects!Failed, Subjects!IInv, Subjects!TypeOK, Subjects!Messages,
         Subjects!Wanted, Subjects!FormOf, Subjects!Writes
<1>1b. x7 = {} /\ x8 = {}
  BY <1>1a
     DEF Subjects!IInv, Subjects!TypeOK, Subjects!WaitsWhereAsked, Subjects!SuspendedDraftReturns,
         Subjects!AskedOn, Subjects!Drafts
<1>1c. /\ x2' = "list" /\ x3'.stale /\ UNCHANGED <<x1, x6>>
  BY
     DEF Subjects!TakeDeleted, Subjects!Failed, Subjects!Others, Subjects!IInv, Subjects!TypeOK,
         Subjects!Lists
<1>1d. g \in x10' /\ g.live /\ g.kind \in Subjects!Reads
  BY <1>1 DEF SubjectsWireIs, SubjectsIsAsked, Subjects!Reads
<1>2. Subjects!TypeOK'
  <2>1. x10' \in SUBSET Subjects!Messages /\ (\A n \in x10' : Subjects!MessageOK(n))
    BY <1>1 DEF SubjectsWireIs
  <2>2. x3' \in Subjects!Lists /\ x6' \in Subjects!AliasStates
    BY SubjectsAssumption
       DEF Subjects!TakeDeleted, Subjects!Failed, Subjects!Others, Subjects!IInv, Subjects!TypeOK,
           Subjects!Lists, Subjects!AliasStates, Subjects!NoAlias
  <2>3. x7' \in SUBSET Subjects!Drafts /\ x8' \in SUBSET x7'
    BY SubjectsAssumption
       DEF Subjects!TakeDeleted, Subjects!Failed, Subjects!Others, Subjects!IInv, Subjects!TypeOK,
           Subjects!Drafts
  <2> QED BY <2>1, <2>2, <2>3, SubjectsAssumption
             DEF Subjects!TakeDeleted, Subjects!Failed, Subjects!Others, Subjects!IInv,
                 Subjects!TypeOK, Subjects!ScreenNames, Subjects!Subject
<1>3. (Subjects!WaitsWhereAsked /\ Subjects!SuspendedDraftReturns)'
  BY <1>1b
     DEF Subjects!TakeDeleted, Subjects!Others, Subjects!IInv, Subjects!WaitsWhereAsked,
         Subjects!SuspendedDraftReturns
<1>4. (Subjects!Wanted /\ Subjects!OneWanted)'
  BY <1>1, <1>1a, <1>1b, <1>1d
     DEF Subjects!TakeDeleted, Subjects!Others, Subjects!IInv, Subjects!Wanted,
         Subjects!OneWanted, SubjectsWireIs, Subjects!Reads, Subjects!Writes
<1>5. (Subjects!SawAll /\ Subjects!NothingLoads)'
  BY <1>1, <1>1a, <1>1c
     DEF Subjects!IInv, Subjects!SawAll, Subjects!NothingLoads, Subjects!Wanted, SubjectsWireIs,
         SubjectsIsAsked
<1>6. (Subjects!AliasOK /\ Subjects!AliasesAreCurrent)'
  BY <1>1a, <1>1c DEF Subjects!IInv, Subjects!AliasOK, Subjects!AliasesAreCurrent
<1>7. (Subjects!StaleIsKnown /\ Subjects!AwaitedIsComing)'
  <2>1. Subjects!StaleIsKnown'
    BY <1>1c DEF Subjects!StaleIsKnown
  <2>2. Subjects!AwaitedIsComing'
    BY <1>1c, <1>1d DEF Subjects!AwaitedIsComing
  <2> QED BY <2>1, <2>2
<1> QED BY <1>2, <1>3, <1>4, <1>5, <1>6, <1>7 DEF Subjects!IInv

LEMMA SubjectsTakeAliasNotPreserves ==
  ASSUME Subjects!IInv, NEW m \in x10, Subjects!TakeAlias(m), Subjects!Failed(m)
  PROVE  Subjects!IInv'
<1>1. SubjectsWireIs({}, {m}, {})
  BY SubjectsWireStays
     DEF Subjects!TakeAlias, Subjects!Failed, Subjects!Others, Subjects!Owned, Subjects!IInv
<1>1a. /\ x2 = "aliases" /\ m.subject = x5 /\ x5 # 0 /\ x6.saving /\ x6.mode # "browse"
  BY DEF Subjects!TakeAlias, Subjects!IInv, Subjects!Wanted, Subjects!AliasOK
<1>1b. /\ x6'.saving = FALSE /\ x6'.loading = FALSE /\ x6'.mode = x6.mode /\ x6'.failed
       /\ x6'.of = x6.of /\ x6'.shown = x6.shown
  BY DEF Subjects!TakeAlias, Subjects!IInv, Subjects!TypeOK, Subjects!AliasStates
<1>1c. \A n \in x10 : n.kind = "alias" => n.is # "done"
  BY DEF Subjects!TakeAlias, Subjects!Failed, Subjects!IInv, Subjects!OneWanted
<1>1d. x6.of = x5 /\ x6.shown = x1.aliases[x5]
  BY <1>1a, <1>1c DEF Subjects!IInv, Subjects!AliasOK
<1>1e. UNCHANGED <<x1, x2, x3,
       x5>> /\ m.kind \notin {"changed"} \cup Subjects!Writes \cup Subjects!Reads
  BY DEF Subjects!TakeAlias, Subjects!Others, Subjects!Writes, Subjects!Reads
<1>2. Subjects!TypeOK'
  <2>1. x10' \in SUBSET Subjects!Messages /\ (\A n \in x10' : Subjects!MessageOK(n))
    BY <1>1 DEF SubjectsWireIs
  <2>2. x3' \in Subjects!Lists /\ x6' \in Subjects!AliasStates
    BY SubjectsAssumption
       DEF Subjects!TakeAlias, Subjects!Failed, Subjects!Others, Subjects!Owned, Subjects!IInv,
           Subjects!TypeOK, Subjects!Lists, Subjects!AliasStates, Subjects!NoAlias
  <2>3. x7' \in SUBSET Subjects!Drafts /\ x8' \in SUBSET x7'
    BY SubjectsAssumption
       DEF Subjects!TakeAlias, Subjects!Failed, Subjects!Others, Subjects!Owned, Subjects!IInv,
           Subjects!TypeOK, Subjects!Drafts
  <2> QED BY <2>1, <2>2, <2>3, SubjectsAssumption
             DEF Subjects!TakeAlias, Subjects!Failed, Subjects!Others, Subjects!Owned,
                 Subjects!IInv, Subjects!TypeOK, Subjects!ScreenNames, Subjects!Subject
<1>3. (Subjects!WaitsWhereAsked /\ Subjects!SuspendedDraftReturns)'
  BY <1>1
     DEF Subjects!TakeAlias, Subjects!Others, Subjects!IInv, Subjects!WaitsWhereAsked,
         Subjects!SuspendedDraftReturns, Subjects!Drafts
<1>4. (Subjects!Wanted /\ Subjects!OneWanted)'
  BY DEF Subjects!TakeAlias, Subjects!Others, Subjects!IInv, Subjects!Wanted, Subjects!OneWanted
<1>5. (Subjects!SawAll /\ Subjects!NothingLoads)'
  BY <1>1e DEF Subjects!TakeAlias, Subjects!IInv, Subjects!SawAll, Subjects!NothingLoads
<1>6. (Subjects!AliasOK /\ Subjects!AliasesAreCurrent)'
  BY <1>1a, <1>1b, <1>1d, <1>1e DEF Subjects!AliasOK, Subjects!AliasesAreCurrent
<1>7. (Subjects!StaleIsKnown /\ Subjects!AwaitedIsComing)'
  <2>1. Subjects!StaleIsKnown'
    BY <1>1, <1>1e DEF Subjects!IInv, Subjects!StaleIsKnown, SubjectsWireIs
  <2>2. Subjects!AwaitedIsComing'
    BY <1>1, <1>1a, <1>1b DEF Subjects!AwaitedIsComing, Subjects!TakeAlias, Subjects!Others
  <2> QED BY <2>1, <2>2
<1> QED BY <1>2, <1>3, <1>4, <1>5, <1>6, <1>7 DEF Subjects!IInv

LEMMA SubjectsTakeAliasDonePreserves ==
  ASSUME Subjects!IInv, NEW m \in x10, Subjects!TakeAlias(m), ~Subjects!Failed(m)
  PROVE  Subjects!IInv'
<1>0. PICK g : g = Subjects!Message("aliases", m.subject)
  OBVIOUS
<1>1. SubjectsWireIs({"aliases"}, {m}, {g}) /\ SubjectsIsAsked(g, "aliases", m.subject)
  <2>1. x10' = (Subjects!Retire({"aliases"}) \ {m}) \cup {g}
    BY <1>0 DEF Subjects!TakeAlias, Subjects!ReadBack, Subjects!Others, Subjects!Owned
  <2>2. Subjects!TypeOK /\ {"aliases"} \in SUBSET Subjects!Kind /\ "aliases" \in Subjects!Kind
        /\ m.subject \in 0..MaxSubject
    BY SubjectsAssumption
       DEF Subjects!TakeAlias, Subjects!ReadBack, Subjects!Others, Subjects!Owned, Subjects!IInv,
           Subjects!TypeOK, Subjects!Kind, Subjects!Reads, Subjects!Writes, Subjects!Drafts,
           Subjects!Messages, Subjects!Subject
  <2>3. "aliases" \in {"get", "aliases", "alias"} => m.subject # 0
    BY SubjectsAssumption
       DEF Subjects!TakeAlias, Subjects!ReadBack, Subjects!Others, Subjects!Owned, Subjects!IInv,
           Subjects!TypeOK, Subjects!AliasOK, Subjects!Drafts, Subjects!MessageOK,
           Subjects!Subject
  <2> QED BY <1>0, <2>1, <2>2, <2>3, SubjectsAsked
<1>1a. /\ x2 = "aliases" /\ m.subject = x5 /\ x6.saving /\ x6.loading
       /\ x6' = [x6 EXCEPT !.saving = FALSE, !.mode = "browse"]
  BY DEF Subjects!TakeAlias, Subjects!ReadBack, Subjects!IInv, Subjects!Wanted, Subjects!AliasOK
<1>1b. ~x6'.saving /\ x6'.loading /\ x6'.mode = "browse"
  BY <1>1a DEF Subjects!IInv, Subjects!TypeOK, Subjects!AliasStates
<1>1c. \A n \in x10' : n.kind # "alias"
  BY <1>1
     DEF Subjects!TakeAlias, Subjects!IInv, Subjects!OneWanted, SubjectsWireIs, SubjectsIsAsked
<1>2. Subjects!TypeOK'
  BY <1>1, <1>1a
     DEF Subjects!TakeAlias, Subjects!Others, Subjects!IInv, Subjects!TypeOK,
         Subjects!AliasStates, SubjectsWireIs
<1>3. (Subjects!WaitsWhereAsked /\ Subjects!SuspendedDraftReturns)'
  BY <1>1
     DEF Subjects!TakeAlias, Subjects!Others, Subjects!IInv, Subjects!WaitsWhereAsked,
         Subjects!SuspendedDraftReturns, Subjects!Drafts, SubjectsWireIs
<1>4. (Subjects!Wanted /\ Subjects!OneWanted)'
  BY <1>1, <1>1a
     DEF Subjects!TakeAlias, Subjects!Others, Subjects!IInv, Subjects!Wanted, Subjects!OneWanted,
         SubjectsWireIs, Subjects!Reads, Subjects!Writes, Subjects!Drafts, SubjectsIsAsked
<1>5. (Subjects!SawAll /\ Subjects!NothingLoads)'
  BY <1>1
     DEF Subjects!TakeAlias, Subjects!Others, Subjects!IInv, Subjects!SawAll,
         Subjects!NothingLoads, SubjectsWireIs, SubjectsIsAsked
<1>6. (Subjects!AliasOK /\ Subjects!AliasesAreCurrent)'
  BY <1>1a DEF Subjects!TakeAlias, Subjects!IInv, Subjects!AliasOK, Subjects!AliasesAreCurrent
<1>7. (Subjects!StaleIsKnown /\ Subjects!AwaitedIsComing)'
  BY <1>1, <1>1a, <1>1b
     DEF Subjects!TakeAlias, Subjects!Others, Subjects!IInv, Subjects!StaleIsKnown,
         Subjects!AwaitedIsComing, Subjects!Wanted, Subjects!FormOf, SubjectsWireIs,
         SubjectsIsAsked
<1> QED BY <1>2, <1>3, <1>4, <1>5, <1>6, <1>7 DEF Subjects!IInv

LEMMA SubjectsTakeChangedKnownPreserves ==
  ASSUME Subjects!IInv, NEW m \in x10, Subjects!TakeChanged(m), ~(x2 = "list" /\ ~x3.loading)
  PROVE  Subjects!IInv'
<1>1. SubjectsWireIs({}, {m}, {})
  BY SubjectsWireStays DEF Subjects!TakeChanged, Subjects!Others, Subjects!IInv
<1>1a. /\ x3'.stale = TRUE /\ x3'.loading = x3.loading /\ x3'.shown = x3.shown
       /\ UNCHANGED <<x1, x2, x4, x5, x6, x7, x8, x9>>
  BY DEF Subjects!TakeChanged, Subjects!Others, Subjects!IInv, Subjects!TypeOK, Subjects!Lists
<1>1b. m.kind = "changed" /\ x10' = x10 \ {m}
  BY DEF Subjects!TakeChanged
<1>2. Subjects!TypeOK'
  BY <1>1a DEF Subjects!TakeChanged, Subjects!IInv, Subjects!TypeOK, Subjects!Lists
<1>3. (Subjects!WaitsWhereAsked /\ Subjects!SuspendedDraftReturns)'
  BY <1>1a, <1>1b
     DEF Subjects!IInv, Subjects!WaitsWhereAsked, Subjects!SuspendedDraftReturns, Subjects!Drafts
<1>4. (Subjects!Wanted /\ Subjects!OneWanted)'
  BY <1>1a, <1>1b DEF Subjects!IInv, Subjects!Wanted, Subjects!OneWanted
<1>5. (Subjects!SawAll /\ Subjects!NothingLoads)'
  BY <1>1a, <1>1b DEF Subjects!IInv, Subjects!SawAll, Subjects!NothingLoads
<1>6. (Subjects!AliasOK /\ Subjects!AliasesAreCurrent)'
  BY <1>1a, <1>1b DEF Subjects!IInv, Subjects!AliasOK, Subjects!AliasesAreCurrent
<1>7. (Subjects!StaleIsKnown /\ Subjects!AwaitedIsComing)'
  <2>1. Subjects!StaleIsKnown'
    BY <1>1a DEF Subjects!StaleIsKnown
  <2>2. Subjects!AwaitedIsComing'
    BY <1>1a, <1>1b DEF Subjects!IInv, Subjects!AwaitedIsComing, Subjects!Reads
  <2> QED BY <2>1, <2>2
<1> QED BY <1>2, <1>3, <1>4, <1>5, <1>6, <1>7 DEF Subjects!IInv

LEMMA SubjectsTakeChangedReadPreserves ==
  ASSUME Subjects!IInv, NEW m \in x10, Subjects!TakeChanged(m), x2 = "list" /\ ~x3.loading
  PROVE  Subjects!IInv'
<1>0. PICK g : g = Subjects!Message("list", 0)
  OBVIOUS
<1>1. SubjectsWireIs(Subjects!Reads, {m}, {g}) /\ SubjectsIsAsked(g, "list", 0)
  <2>1. x10' = (Subjects!Retire(Subjects!Reads) \ {m}) \cup {g}
    BY <1>0 DEF Subjects!TakeChanged, Subjects!Others
  <2>2. Subjects!TypeOK /\ Subjects!Reads \in SUBSET Subjects!Kind /\ "list" \in Subjects!Kind
        /\ 0 \in 0..MaxSubject
    BY SubjectsAssumption
       DEF Subjects!TakeChanged, Subjects!Others, Subjects!IInv, Subjects!TypeOK, Subjects!Kind,
           Subjects!Reads, Subjects!Writes, Subjects!Drafts, Subjects!Messages, Subjects!Subject
  <2>3. "list" \in {"get", "aliases", "alias"} => 0 # 0
    BY SubjectsAssumption
       DEF Subjects!TakeChanged, Subjects!Others, Subjects!IInv, Subjects!TypeOK,
           Subjects!AliasOK, Subjects!Drafts, Subjects!MessageOK, Subjects!Subject
  <2> QED BY <1>0, <2>1, <2>2, <2>3, SubjectsAsked
<1>1a. /\ x2' = "list" /\ x3'.stale /\ UNCHANGED <<x1, x6>>
  BY DEF Subjects!TakeChanged, Subjects!Others, Subjects!IInv, Subjects!TypeOK, Subjects!Lists
<1>1b. g \in x10' /\ g.live /\ g.kind \in Subjects!Reads
  BY <1>1 DEF SubjectsWireIs, SubjectsIsAsked, Subjects!Reads
<1>2. Subjects!TypeOK'
  BY <1>1, <1>1a
     DEF Subjects!TakeChanged, Subjects!Others, Subjects!IInv, Subjects!TypeOK, Subjects!Lists,
         SubjectsWireIs
<1>3. (Subjects!WaitsWhereAsked /\ Subjects!SuspendedDraftReturns)'
  BY <1>1
     DEF Subjects!TakeChanged, Subjects!Others, Subjects!IInv, Subjects!WaitsWhereAsked,
         Subjects!SuspendedDraftReturns, Subjects!Drafts, SubjectsWireIs, Subjects!Reads
<1>4. (Subjects!Wanted /\ Subjects!OneWanted)'
  BY <1>1, <1>1b
     DEF Subjects!TakeChanged, Subjects!Others, Subjects!IInv, Subjects!Wanted,
         Subjects!OneWanted, SubjectsWireIs, Subjects!Reads, Subjects!Writes, Subjects!Drafts
<1>5. (Subjects!SawAll /\ Subjects!NothingLoads)'
  BY <1>1, <1>1a
     DEF Subjects!TakeChanged, Subjects!IInv, Subjects!SawAll, Subjects!NothingLoads,
         SubjectsWireIs, SubjectsIsAsked
<1>6. (Subjects!AliasOK /\ Subjects!AliasesAreCurrent)'
  BY <1>1a DEF Subjects!IInv, Subjects!AliasOK, Subjects!AliasesAreCurrent
<1>7. (Subjects!StaleIsKnown /\ Subjects!AwaitedIsComing)'
  <2>1. Subjects!StaleIsKnown'
    BY <1>1a DEF Subjects!StaleIsKnown
  <2>2. Subjects!AwaitedIsComing'
    BY <1>1a, <1>1b DEF Subjects!AwaitedIsComing
  <2> QED BY <2>1, <2>2
<1> QED BY <1>2, <1>3, <1>4, <1>5, <1>6, <1>7 DEF Subjects!IInv
LEMMA SubjectsRunPreserves ==
  ASSUME Subjects!IInv, NEW m \in x10, Subjects!Run(m)
  PROVE  Subjects!IInv'
<1>1. m \in Subjects!Messages /\ m.is = "work" /\ m.kind \notin Subjects!Drafts \cup {"changed"}
      /\ Subjects!MessageOK(m)
      /\ UNCHANGED <<x2, x3, x4, x5, x6, x7, x8, x9>>
  BY SubjectsCardinality DEF Subjects!Run, Subjects!IInv, Subjects!TypeOK
<1>2. PICK done \in {"done", "failed"}, n \in Nat :
        /\ m.kind = "list" => n = x1.changes
        /\ m.kind = "aliases" => n = x1.aliases[m.subject]
        /\ x10' = (x10 \ {m}) \cup {[m EXCEPT !.is = done, !.shown = n]}
        /\ x1' = CASE done = "failed" \/ m.kind \in {"list", "get", "aliases"} -> x1
                      [] done = "done" /\ m.kind = "alias" ->
                           [x1 EXCEPT !.aliases[m.subject] = @ + 1]
                      [] done = "done" /\ m.kind = "create" ->
                           [[x1 EXCEPT !.changes = @ + 1]
                              EXCEPT !.subjects = @ \cup {Cardinality(@) + 1}]
                      [] done = "done" /\ m.kind \in {"edit", "delete"} ->
                           [x1 EXCEPT !.changes = @ + 1]
        /\ done = "done" /\ m.kind = "create" => x1.subjects # Subjects!Subject
  <2>1. x1.changes \in Nat /\ (m.kind = "aliases" => x1.aliases[m.subject] \in Nat)
    BY <1>1, SubjectsAssumption
       DEF Subjects!IInv, Subjects!TypeOK, Subjects!MessageOK, Subjects!Messages,
           Subjects!Subject
  <2>2. PICK n \in Nat : n = CASE m.kind = "list" -> x1.changes
                               [] m.kind = "aliases" -> x1.aliases[m.subject]
                               [] OTHER -> 0
    BY <2>1
  <2>3. (m.kind = "list" => n = x1.changes)
        /\ (m.kind = "aliases" => n = x1.aliases[m.subject])
    BY <2>2
  <2> QED BY <2>2, <2>3, Zenon, SubjectsCardinality DEF Subjects!Run
<1>2a. PICK g : g = [m EXCEPT !.is = done, !.shown = n]
  OBVIOUS
<1>3. g \in Subjects!Messages /\ g.kind = m.kind /\ g.subject = m.subject /\ g.live = m.live
      /\ g.is = done /\ g.shown = n
  BY <1>1, <1>2, <1>2a DEF Subjects!Messages
<1>4. SubjectsWireIs({}, {m}, {g})
  BY <1>1, <1>2, <1>2a, <1>3
     DEF SubjectsWireIs, Subjects!MessageOK, Subjects!IInv, Subjects!TypeOK, Subjects!Drafts
<1>5. /\ x1' \in [subjects : SUBSET Subjects!Subject, changes : Nat, aliases : [Subjects!Subject -> Nat]]
      /\ x1'.changes = x1.changes \/ (done = "done" /\ m.kind \in Subjects!Writes)
      /\ x1'.aliases = x1.aliases \/ (done = "done" /\ m.kind = "alias")
  <2>1. x1 \in [subjects : SUBSET Subjects!Subject, changes : Nat, aliases : [Subjects!Subject -> Nat]]
    BY DEF Subjects!IInv, Subjects!TypeOK
  <2>2. CASE done = "failed" \/ m.kind \in {"list", "get", "aliases"}
    BY <1>2, <2>1, <2>2
  <2>3. CASE done = "done" /\ m.kind = "alias"
    <3>1. m.subject \in Subjects!Subject /\ x1' = [x1 EXCEPT !.aliases[m.subject] = @ + 1]
      BY <1>1, <1>2, <2>3, SubjectsAssumption
         DEF Subjects!MessageOK, Subjects!Messages, Subjects!Subject
    <3> QED BY <2>1, <2>3, <3>1
  <2>4. CASE done = "done" /\ m.kind = "create"
    <3>1. PICK next : next = Cardinality(x1.subjects) + 1
      OBVIOUS
    <3>2. next \in Subjects!Subject
      BY <1>2, <2>1, <2>4, <3>1, SubjectsSubjectsAreFew, SubjectsAssumption DEF Subjects!Subject
    <3>3. x1' = [x1 EXCEPT !.changes = @ + 1, !.subjects = @ \cup {next}]
      BY <1>2, <2>1, <2>4, <3>1
    <3>4. PICK all \in SUBSET Subjects!Subject : all = x1.subjects \cup {next}
      BY <2>1, <3>2
    <3>5. x1' = [x1 EXCEPT !.changes = @ + 1, !.subjects = all]
      BY <3>3, <3>4
    <3>6. PICK c \in Nat : c = x1.changes + 1
      BY <2>1
    <3>7. x1' = [x1 EXCEPT !.changes = c, !.subjects = all]
      BY <3>5, <3>6
    <3>8. x1'.aliases = x1.aliases
      BY <2>1, <3>7
    <3>9. x1' \in [subjects : SUBSET Subjects!Subject, changes : Nat, aliases : [Subjects!Subject -> Nat]]
      BY <2>1, <3>7
    <3> QED BY <2>4, <3>8, <3>9 DEF Subjects!Writes
  <2>5. CASE done = "done" /\ m.kind \in {"edit", "delete"}
    BY <1>2, <2>1, <2>5 DEF Subjects!Writes
  <2>6. m.kind \in Subjects!Writes \cup Subjects!Reads \cup {"alias", "aliases"}
    BY <1>1 DEF Subjects!Messages, Subjects!Kind, Subjects!Writes, Subjects!Reads
  <2> QED BY <1>2, <2>2, <2>3, <2>4, <2>5, <2>6 DEF Subjects!Writes, Subjects!Reads
<1>6. Subjects!TypeOK'
  BY <1>1, <1>4, <1>5 DEF Subjects!IInv, Subjects!TypeOK, SubjectsWireIs
<1>7. (Subjects!WaitsWhereAsked /\ Subjects!SuspendedDraftReturns)'
  BY <1>1, <1>4
     DEF Subjects!IInv, Subjects!WaitsWhereAsked, Subjects!SuspendedDraftReturns, SubjectsWireIs
<1>8. (Subjects!Wanted /\ Subjects!OneWanted)'
  <2>1. Subjects!Wanted'
    BY <1>1, <1>3, <1>4 DEF Subjects!IInv, Subjects!Wanted, Subjects!FormOf, SubjectsWireIs
  <2>2. Subjects!OneWanted'
    BY <1>1, <1>3, <1>4 DEF Subjects!IInv, Subjects!OneWanted, SubjectsWireIs
  <2> QED BY <2>1, <2>2
<1>9. (Subjects!SawAll /\ Subjects!NothingLoads)'
  <2>1. ASSUME NEW r \in x10', r.live, r.is = "done"
        PROVE  /\ r.kind = "list" => r.shown = x1'.changes
               /\ r.kind = "aliases" => r.shown = x1'.aliases[x5]
    <3>1. r = g \/ r \in x10
      BY <1>4 DEF SubjectsWireIs
    <3>2. r.kind = "list" => m.kind \notin Subjects!Writes
      BY <1>3, <2>1, <3>1
         DEF Subjects!IInv, Subjects!Wanted, Subjects!FormOf, Subjects!Reads, Subjects!Writes
    <3>3. r.kind = "aliases" => m.kind # "alias" /\ r.subject = x5
      BY <1>3, <2>1, <3>1 DEF Subjects!IInv, Subjects!Wanted, Subjects!Writes
    <3>4. r.kind = "list" => x1'.changes = x1.changes
      BY <1>5, <3>2
    <3>5. r.kind = "aliases" => x1'.aliases = x1.aliases
      BY <1>5, <3>3
    <3>6. r.kind = "list" => r.shown = x1.changes
      BY <1>2, <1>3, <2>1, <3>1 DEF Subjects!IInv, Subjects!SawAll
    <3>7. r.kind = "aliases" => r.shown = x1.aliases[x5]
      BY <1>2, <1>3, <2>1, <3>1, <3>3 DEF Subjects!IInv, Subjects!SawAll
    <3> QED BY <3>4, <3>5, <3>6, <3>7
  <2> QED BY <1>1, <2>1 DEF Subjects!IInv, Subjects!SawAll, Subjects!NothingLoads
<1>10. (Subjects!AliasOK /\ Subjects!AliasesAreCurrent)'
  <2>1. m.kind = "alias" => /\ x6.saving /\ x6.loading /\ x2 = "aliases"
                            /\ \A r \in x10 : r.kind = "alias" => r.is # "done"
    BY <1>1 DEF Subjects!IInv, Subjects!Wanted, Subjects!OneWanted, Subjects!AliasOK
  <2>2. (\A r \in x10' : r.kind = "alias" => r.is # "done")
          => /\ \A r \in x10 : r.kind = "alias" => r.is # "done"
             /\ x1'.aliases = x1.aliases
    BY <1>1, <1>3, <1>4, <1>5 DEF SubjectsWireIs
  <2>3. Subjects!AliasOK'
    BY <1>1, <2>2 DEF Subjects!IInv, Subjects!AliasOK
  <2>4. Subjects!AliasesAreCurrent'
    BY <1>1, <1>5, <2>1 DEF Subjects!IInv, Subjects!AliasesAreCurrent
  <2> QED BY <2>3, <2>4
<1>11. (Subjects!StaleIsKnown /\ Subjects!AwaitedIsComing)'
  <2>1. \A r \in x10 : r # m => r \in x10'
    BY <1>2
  <2>2. g \in x10'
        /\ (m.kind \in Subjects!Writes /\ done = "done" => g.kind \in Subjects!Writes /\ g.is = "done")
    BY <1>2, <1>2a, <1>3
  <2>3. Subjects!StaleIsKnown'
    BY <1>1, <1>5, <2>1, <2>2 DEF Subjects!IInv, Subjects!StaleIsKnown
  <2>4. ASSUME NEW kinds, \E r \in x10 : r.live /\ r.kind \in kinds
        PROVE  \E r \in x10' : r.live /\ r.kind \in kinds
    BY <1>3, <2>1, <2>2, <2>4
  <2>5. Subjects!AwaitedIsComing'
    BY <1>1, <2>4 DEF Subjects!IInv, Subjects!AwaitedIsComing
  <2> QED BY <2>3, <2>5
<1> QED BY <1>6, <1>7, <1>8, <1>9, <1>10, <1>11 DEF Subjects!IInv

LEMMA SubjectsInitIInv == Subjects!Init => Subjects!IInv
<1> SUFFICES ASSUME Subjects!Init PROVE Subjects!IInv
  OBVIOUS
<1>1. Subjects!TypeOK
  <2>1. {1} \in SUBSET Subjects!Subject /\ 0 \in 0..MaxSubject
    BY SubjectsAssumption DEF Subjects!Subject
  <2>2. [s \in Subjects!Subject |-> 0] \in [Subjects!Subject -> Nat]
    OBVIOUS
  <2>3. Subjects!NoAlias \in Subjects!AliasStates
    BY <2>1 DEF Subjects!NoAlias, Subjects!AliasStates
  <2> QED BY <2>1, <2>2, <2>3
             DEF Subjects!Init, Subjects!TypeOK, Subjects!ScreenNames, Subjects!Lists,
                 Subjects!AskedOn, Subjects!Drafts
<1> QED BY <1>1
           DEF Subjects!Init, Subjects!IInv, Subjects!WaitsWhereAsked,
               Subjects!SuspendedDraftReturns, Subjects!Wanted, Subjects!OneWanted,
               Subjects!SawAll, Subjects!AliasOK, Subjects!AliasesAreCurrent,
               Subjects!NothingLoads, Subjects!StaleIsKnown, Subjects!AwaitedIsComing,
               Subjects!NoAlias

LEMMA SubjectsNextPreserves ==
  ASSUME Subjects!IInv, Subjects!Next \/ UNCHANGED Subjects!vars
  PROVE  Subjects!IInv'
<1>1. CASE UNCHANGED Subjects!vars
  BY <1>1
     DEF Subjects!vars, Subjects!IInv, Subjects!TypeOK, Subjects!WaitsWhereAsked,
         Subjects!SuspendedDraftReturns, Subjects!Wanted, Subjects!OneWanted, Subjects!SawAll,
         Subjects!AliasOK, Subjects!AliasesAreCurrent, Subjects!NothingLoads,
         Subjects!StaleIsKnown, Subjects!AwaitedIsComing
<1>2. CASE \/ Subjects!OpenList \/ Subjects!OpenGoals \/ Subjects!LeaveGoals
           \/ Subjects!OpenVoice \/ Subjects!LeaveVoice \/ Subjects!SaveThought
           \/ \E d \in Subjects!Drafts : Subjects!Ask(d)
           \/ Subjects!Retry \/ Subjects!LeaveList
  BY <1>2, SubjectsOpenListPreserves, SubjectsOpenGoalsPreserves, SubjectsLeaveGoalsPreserves,
     SubjectsOpenVoicePreserves, SubjectsLeaveVoicePreserves, SubjectsSaveThoughtPreserves,
     SubjectsAskPreserves, SubjectsRetryPreserves, SubjectsLeaveListPreserves
<1>3. CASE Subjects!ChooseRow
  BY <1>3, SubjectsChooseRowMiscPreserves, SubjectsChooseRowCreatePreserves,
     SubjectsChooseRowGetPreserves DEF Subjects!ChooseRow
<1>4. CASE \/ Subjects!SubmitCreate \/ Subjects!ReviewAlias \/ Subjects!KeepAlias
           \/ Subjects!SubmitPromotion \/ Subjects!CancelCreate
           \/ Subjects!OpenForm \/ Subjects!LeaveForm \/ Subjects!SubmitForm
  BY <1>4, SubjectsSubmitCreatePreserves, SubjectsReviewAliasPreserves,
     SubjectsKeepAliasPreserves, SubjectsSubmitPromotionPreserves, SubjectsCancelCreatePreserves,
     SubjectsOpenFormPreserves, SubjectsLeaveFormPreserves, SubjectsSubmitFormPreserves
<1>5. CASE Subjects!LeaveDetail
  BY <1>5, SubjectsLeaveDetailFreshPreserves, SubjectsLeaveDetailStalePreserves
<1>6. CASE \/ Subjects!OpenAliases \/ Subjects!RetryAliases \/ Subjects!LeaveAliases
           \/ Subjects!AliasForm \/ Subjects!LeaveAliasForm \/ Subjects!SaveAlias
  BY <1>6, SubjectsOpenAliasesPreserves, SubjectsRetryAliasesPreserves,
     SubjectsLeaveAliasesPreserves, SubjectsAliasFormPreserves, SubjectsLeaveAliasFormPreserves,
     SubjectsSaveAliasPreserves
<1>7. ASSUME NEW m \in x10,
             \/ Subjects!TakeAsk(m) \/ Subjects!DropAsk(m) \/ Subjects!Run(m)
             \/ Subjects!Discard(m) \/ Subjects!TakeList(m)
             \/ Subjects!TakeSubject(m) \/ Subjects!TakeCreated(m) \/ Subjects!TakeEdited(m)
             \/ Subjects!TakeAliases(m)
      PROVE  Subjects!IInv'
  BY <1>7, SubjectsTakeAskPreserves, SubjectsDropAskPreserves, SubjectsRunPreserves,
     SubjectsDiscardPreserves, SubjectsTakeListPreserves, SubjectsTakeSubjectPreserves,
     SubjectsTakeCreatedPreserves, SubjectsTakeEditedPreserves, SubjectsTakeAliasesPreserves
<1>8. ASSUME NEW m \in x10,
                 Subjects!TakeDeleted(m) \/ Subjects!TakeAlias(m) \/ Subjects!TakeChanged(m)
      PROVE  Subjects!IInv'
  BY <1>8, SubjectsTakeDeletedNotPreserves, SubjectsTakeDeletedDonePreserves,
     SubjectsTakeAliasNotPreserves, SubjectsTakeAliasDonePreserves,
     SubjectsTakeChangedKnownPreserves, SubjectsTakeChangedReadPreserves
<1> QED BY <1>1, <1>2, <1>3, <1>4, <1>5, <1>6, <1>7, <1>8 DEF Subjects!Next
=============================================================================
