--------------------------- MODULE PatchScriptsProofs ---------------------------
(***************************************************************************)
(* Proofs about PatchScripts, for any number of runs and of faults.        *)
(*                                                                         *)
(* Typed, Rerouted and SerialInv are inductive, each under the ones before *)
(* it.  The last is about runs that do not overlap: no edit is ever lost,  *)
(* be it while its file is emptied and written again in place.             *)
(***************************************************************************)
EXTENDS PatchScripts, TLAPS

USE RunsAssumption

-----------------------------------------------------------------------------
(* The invariants.                                                         *)

\* A run that edits is at a step that edits, what it read is of the file of that
\* step, and only a step of the base script has a temporary file.
RunSound(r) ==
  /\ run[r].phase \in {"open", "fill", "replace"} => Step(r) \in Edits
  /\ run[r].phase = "replace" => Renames(Step(r))
  /\ run[r].phase \in {"open", "fill"} => run[r].seen.has \subseteq EditsOf(FileOf[Step(r)])
  /\ handle[r] = "tmp" => Renames(Step(r))

Typed ==
  /\ TypeOK
  /\ handle \in [Runs -> {"none", "tmp", "path", "orphan"}]
  /\ \A s \in Edits : tmp[s].has \subseteq EditsOf(FileOf[s])
  /\ \A r \in Runs : RunSound(r)

\* A whole text with the exact top-k has the reroute under it.
Ordered(c) == c.text = "whole" /\ "DBs" \in c.has => "A4" \in c.has

\* So does every text that may become the file: what the steps of the base script have
\* in their temporary files and what a run read and is about to write.
Rerouted ==
  /\ Ordered(disk["sai"])
  /\ \A s \in Edits : FileOf[s] = "sai" => Ordered(tmp[s])
  /\ \A r \in Runs :
       /\ run[r].phase \in {"open", "fill"}
       /\ FileOf[Step(r)] = "sai"
       => Ordered(run[r].seen) /\ (Step(r) = "DBs" => "A4" \in run[r].seen.has)

\* An edit is in its file, or in what the run read that is writing the file in place.
Keeps(s) ==
  \/ s \in disk[FileOf[s]].has
  \/ \E r \in Runs : Interrupts(r) /\ FileOf[Step(r)] = FileOf[s] /\ s \in run[r].seen.has

\* What the only run under way has read and written so far.
Editing(r) ==
  LET s == Step(r)
      f == disk[FileOf[Step(r)]]
  IN /\ InPhase(r, "open") => run[r].seen = f /\ s \notin f.has
     /\ InPhase(r, "fill") =>
          /\ s \notin run[r].seen.has
          /\ run[r].seen.text = "whole"
          /\ IF Renames(s) THEN handle[r] = "tmp" /\ tmp[s] = Emptied /\ run[r].seen = f
                           ELSE handle[r] = "path" /\ f = Emptied
     /\ InPhase(r, "replace") => tmp[s] = Edited(s, f)
     /\ InPhase(r, "compile") => s \in Edits /\ s \in f.has

\* How many steps a run has behind it, and that they have done what they do.
StepsBehind(r) == IF InPhase(r, "done") THEN Len(Script) ELSE run[r].at - 1

Behind(r) ==
  /\ \A i \in 1 .. StepsBehind(r) : Script[i] \in Edits => Keeps(Script[i])
  /\ StepsBehind(r) >= 1 => marker
  /\ StepsBehind(r) >= 5 => b12x /\ mode # "none"
  /\ InPhase(r, "probe") => b12x /\ Step(r) = "B"

\* One run at a time: a file is whole but while a DCP step writes it.
Serial ==
  /\ \A q, r \in UnderWay : q = r
  /\ \A f \in Files : \/ disk[f].text = "whole"
                      \/ \E r \in Runs : Interrupts(r) /\ FileOf[Step(r)] = f
  /\ \A r \in UnderWay : Editing(r)
  /\ \A r \in Runs : r \in UnderWay \/ InPhase(r, "done") => Behind(r)
  /\ \A r \in Runs : InPhase(r, "foreign") => odd = {Step(r)}
  /\ \A r \in Runs : InPhase(r, "idle") => run[r].at = 1

Alone == ~overlap /\ ~interrupted

OneOdd == odd = {} \/ \E s \in Edits : odd = {s}

SerialInv == OneOdd /\ (Alone => Serial)

-----------------------------------------------------------------------------
(* The steps and their files.                                              *)

\* The steps in their order.
LEMMA Steps ==
  /\ Len(Script) = 11
  /\ Script[1] = "A1" /\ Script[2] = "A2" /\ Script[3] = "A3" /\ Script[4] = "A4"
  /\ Script[5] = "B" /\ Script[6] = "C" /\ Script[7] = "DA" /\ Script[8] = "DBi"
  /\ Script[9] = "DBs" /\ Script[10] = "DCi" /\ Script[11] = "DCs"
BY DEF Script

\* A step edits a file, or is one of the two that do not.
LEMMA EditSteps ==
  /\ Edits = {"A2", "A3", "A4", "C", "DA", "DBi", "DBs", "DCi", "DCs"}
  /\ FileOf["A3"] = "sai" /\ FileOf["A4"] = "sai" /\ FileOf["DBs"] = "sai"
  /\ \A s \in Edits : FileOf[s] \in Files /\ s \in EditsOf(FileOf[s])
  /\ \A f \in Files : EditsOf(f) \subseteq Edits
  /\ "sai" \in Files
<1>1. Edits = {"A2", "A3", "A4", "C", "DA", "DBi", "DBs", "DCi", "DCs"}
  BY DEF Edits, FileOf
<1>2. FileOf["A3"] = "sai" /\ FileOf["A4"] = "sai" /\ FileOf["DBs"] = "sai"
  BY DEF FileOf
<1>3. \A s \in Edits : FileOf[s] \in Files /\ s \in EditsOf(FileOf[s])
  BY DEF Files, EditsOf
<1>4. QED
  BY <1>1, <1>2, <1>3 DEF EditsOf

\* Every edit is at its place in the script.
LEMMA EditPlace ==
  ASSUME NEW s \in Edits
  PROVE  \E i \in 1 .. 11 : Script[i] = s /\ i \notin {1, 5}
BY Steps, EditSteps

-----------------------------------------------------------------------------
(* Types.                                                                  *)

RunType == [at : 1 .. Len(Script), phase : Phases, seen : Contents]

\* Entering a phase changes the phase only.
LEMMA EnterFacts ==
  ASSUME run \in [Runs -> RunType], NEW r \in Runs, NEW p \in Phases, Enter(r, p)
  PROVE  /\ run' \in [Runs -> RunType]
         /\ run'[r].at = run[r].at /\ run'[r].seen = run[r].seen /\ run'[r].phase = p
         /\ \A q \in Runs \ {r} : run'[q] = run[q]
BY DEF Enter, RunType

\* Going on leads to the next step or to the end.
LEMMA ProceedFacts ==
  ASSUME run \in [Runs -> RunType], NEW r \in Runs, Proceed(r)
  PROVE  /\ run' \in [Runs -> RunType]
         /\ \/ run[r].at = 11 /\ run'[r].at = 11 /\ run'[r].phase = "done"
            \/ run[r].at < 11 /\ run'[r].at = run[r].at + 1 /\ run'[r].phase = "read"
         /\ \A q \in Runs \ {r} : run'[q] = run[q]
<1>1. Pristine \in Contents /\ {"done", "read"} \subseteq Phases
  BY DEF Pristine, Contents, Phases, Ended
<1>2. run[r] \in RunType /\ Len(Script) = 11
  BY Steps
<1>3. CASE run[r].at = 11
  <2>1. run' = [run EXCEPT ![r] = [@ EXCEPT !.phase = "done", !.seen = Pristine]]
    BY <1>2, <1>3 DEF Proceed
  <2>2. [run[r] EXCEPT !.phase = "done", !.seen = Pristine] \in RunType
    BY <1>1, <1>2 DEF RunType
  <2>3. QED
    BY <1>2, <1>3, <2>1, <2>2 DEF RunType
<1>4. CASE run[r].at # 11
  <2> DEFINE next == [at |-> run[r].at + 1, phase |-> "read", seen |-> Pristine]
  <2>1. run' = [run EXCEPT ![r] = next]
    BY <1>2, <1>4 DEF Proceed
  <2>2. next \in RunType /\ run[r].at < 11
    BY <1>1, <1>2, <1>4 DEF RunType
  <2>3. QED
    BY <1>2, <1>4, <2>1, <2>2 DEF RunType
<1>5. QED
  BY <1>3, <1>4

\* What the files hold are contents.
LEMMA ContentsFacts ==
  /\ Pristine \in Contents /\ Emptied \in Contents /\ Emptied # NoFile
  /\ Pristine.has = {} /\ Emptied.has = {} /\ Emptied.text = "empty" /\ NoFile.has = {}
  /\ \A c \in Contents : c # NoFile
BY DEF Pristine, Emptied, NoFile, Contents

\* An edit of the file of a step, made to a content with edits of that file only, gives one.
LEMMA EditedFacts ==
  ASSUME NEW s \in Edits, NEW c \in Contents
  PROVE  /\ Edited(s, c) \in Contents
         /\ Edited(s, c).has = c.has \cup {s} /\ Edited(s, c).text = c.text
         /\ c.has \subseteq EditsOf(FileOf[s]) => Edited(s, c).has \subseteq EditsOf(FileOf[s])
BY EditSteps DEF Edited, Contents

\* Typed without the variables of the steps that edit no file and of the past.
DataTyped ==
  /\ disk \in [Files -> Contents]
  /\ \A f \in Files : disk[f].has \subseteq EditsOf(f)
  /\ tmp \in [Edits -> Contents \cup {NoFile}]
  /\ \A s \in Edits : tmp[s].has \subseteq EditsOf(FileOf[s])
  /\ run \in [Runs -> RunType]
  /\ handle \in [Runs -> {"none", "tmp", "path", "orphan"}]
  /\ \A r \in Runs : /\ handle[r] # "none" <=> InPhase(r, "fill")
                     /\ handle[r] = "tmp" => tmp[Step(r)] # NoFile
                     /\ RunSound(r)

SetupTyped ==
  /\ marker \in BOOLEAN /\ b12x \in BOOLEAN /\ mode \in {"none", "FULL", "PIECEWISE"}
  /\ odd \subseteq Edits /\ overlap \in BOOLEAN /\ interrupted \in BOOLEAN
  /\ faults \in 0 .. MaxFaults

\* Typed is what it says of the files and the runs, and what it says of the rest.
LEMMA TypedSplit == Typed <=> DataTyped /\ SetupTyped
<1>1. Typed => DataTyped /\ SetupTyped
  BY DEF Typed, TypeOK, DataTyped, SetupTyped, RunType
<1>2. DataTyped /\ SetupTyped => Typed
  BY DEF Typed, TypeOK, DataTyped, SetupTyped, RunType
<1>3. QED
  BY <1>1, <1>2

\* The same of the next state.
LEMMA TypedSplitNext ==
  ASSUME DataTyped', SetupTyped'
  PROVE  Typed'
BY DEF Typed, TypeOK, DataTyped, SetupTyped, RunType

\* A step that leaves the files and the handles alone, of a run that is neither in the
\* middle of an edit before nor after.
LEMMA ControlTyped ==
  ASSUME DataTyped, NEW r \in Runs, run' \in [Runs -> RunType],
         \A q \in Runs \ {r} : run'[q] = run[q],
         UNCHANGED <<disk, tmp, handle>>,
         ~InPhase(r, "fill"), run'[r].phase \notin {"open", "fill", "replace"}
  PROVE  DataTyped'
<1>1. \A q \in Runs : run'[q] = run[q] => Step(q)' = Step(q) /\ InPhase(q, "fill")' = InPhase(q, "fill")
  BY DEF Step, InPhase
<1>2. \A q \in Runs \ {r} : /\ (handle[q] # "none" <=> InPhase(q, "fill"))'
                            /\ (handle[q] = "tmp" => tmp[Step(q)] # NoFile)'
                            /\ RunSound(q)'
  BY <1>1 DEF DataTyped, RunSound
<1>3. handle'[r] = "none" /\ ~InPhase(r, "fill")'
  BY DEF DataTyped, InPhase
<1>4. RunSound(r)'
  BY <1>3 DEF RunSound
<1>5. QED
  BY <1>2, <1>3, <1>4 DEF DataTyped

\* The program starts in a state of its type.
LEMMA TypedInit == Init => Typed
<1> SUFFICES ASSUME Init PROVE DataTyped /\ SetupTyped
  BY TypedSplit
<1>1. DataTyped
  <2>1. [at |-> 1, phase |-> "idle", seen |-> Pristine] \in RunType
    BY ContentsFacts, Steps DEF RunType, Phases
  <2>2. run \in [Runs -> RunType] /\ \A r \in Runs : run[r].phase = "idle"
    BY <2>1 DEF Init
  <2>3. \A r \in Runs : handle[r] = "none" /\ RunSound(r)
    BY <2>2 DEF Init, RunSound
  <2>4. tmp \in [Edits -> Contents \cup {NoFile}] /\ \A s \in Edits : tmp[s].has = {}
    BY ContentsFacts DEF Init
  <2>5. disk \in [Files -> Contents] /\ \A f \in Files : disk[f].has = {}
    BY ContentsFacts DEF Init
  <2>6. handle \in [Runs -> {"none", "tmp", "path", "orphan"}]
    BY DEF Init
  <2>7. QED
    BY <2>2, <2>3, <2>4, <2>5, <2>6 DEF DataTyped, InPhase
<1>2. SetupTyped
  <2>1. marker \in BOOLEAN /\ b12x \in BOOLEAN /\ overlap \in BOOLEAN /\ interrupted \in BOOLEAN
    BY Zenon DEF Init
  <2>2. QED
    BY <2>1 DEF Init, SetupTyped
<1>3. QED
  BY <1>1, <1>2

\* The steps that edit no file keep the types, and so does giving up on a file.
LEMMA ControlTypedStep ==
  ASSUME Typed, NEW r \in Runs,
         Start(r) \/ MakeMarker(r) \/ Install(r) \/ Probe(r) \/ Compile(r)
  PROVE  Typed'
<1>1. DataTyped /\ SetupTyped /\ run \in [Runs -> RunType]
  BY TypedSplit DEF DataTyped
<1>2. ~InPhase(r, "fill")
  BY DEF Start, MakeMarker, Install, Probe, Compile, InPhase
<1>3. {"read", "probe", "failed"} \subseteq Phases
  BY DEF Phases, Ended
<1>4. UNCHANGED <<disk, tmp, handle>>
  BY DEF Start, MakeMarker, Install, Probe, Compile
<1>5. Proceed(r) \/ \E p \in {"read", "probe", "failed"} : Enter(r, p)
  BY DEF Start, MakeMarker, Install, Probe, Compile
<1>6. /\ run' \in [Runs -> RunType] /\ \A q \in Runs \ {r} : run'[q] = run[q]
      /\ run'[r].phase \notin {"open", "fill", "replace"}
  BY <1>1, <1>3, <1>5, EnterFacts, ProceedFacts
<1>7. DataTyped'
  BY <1>1, <1>2, <1>4, <1>6, ControlTyped
<1>8. SetupTyped'
  <2>1. overlap' \in BOOLEAN
    BY <1>1 DEF Start, MakeMarker, Install, Probe, Compile, past, setup, SetupTyped
  <2>2. b12x' \in BOOLEAN /\ marker' \in BOOLEAN /\ mode' \in {"none", "FULL", "PIECEWISE"}
    <3>1. CASE Install(r)
      BY <1>1, <3>1 DEF Install, SetupTyped
    <3>2. CASE Probe(r)
      BY <1>1, <3>2 DEF Probe, SetupTyped
    <3>3. CASE MakeMarker(r)
      BY <1>1, <3>3 DEF MakeMarker, SetupTyped
    <3>4. QED
      BY <1>1, <3>1, <3>2, <3>3 DEF Start, Compile, setup, SetupTyped
  <2>3. odd' = odd /\ interrupted' = interrupted
    BY DEF Start, MakeMarker, Install, Probe, Compile, past, setup
  <2>4. faults' \in 0 .. MaxFaults
    <3>1. faults' = faults \/ (faults < MaxFaults /\ faults' = faults + 1)
      BY DEF Start, MakeMarker, Install, Probe, Compile, past
    <3>2. QED
      BY <1>1, <3>1 DEF SetupTyped
  <2>5. QED
    BY <1>1, <2>1, <2>2, <2>3, <2>4 DEF SetupTyped
<1>9. QED
  BY <1>7, <1>8, TypedSplitNext

\* Reading a file keeps the types: what is read is what the file holds.
LEMMA ReadTyped ==
  ASSUME Typed, NEW r \in Runs, Read(r)
  PROVE  Typed'
<1> DEFINE s == Step(r)
           c == disk[FileOf[s]]
<1>1. DataTyped /\ SetupTyped /\ run \in [Runs -> RunType]
  BY TypedSplit DEF DataTyped
<1>2. s \in Edits /\ FileOf[s] \in Files /\ c \in Contents /\ c.has \subseteq EditsOf(FileOf[s])
  BY <1>1, EditSteps DEF Read, DataTyped
<1>3. UNCHANGED <<disk, tmp, handle, marker, b12x, mode, odd, overlap, interrupted, faults>>
  BY DEF Read, setup, past
<1>4. SetupTyped'
  BY <1>1, <1>3 DEF SetupTyped
<1>5. ~InPhase(r, "fill") /\ InPhase(r, "read")
  BY DEF Read, InPhase
<1>6. CASE Proceed(r) \/ \E p \in {"compile", "foreign"} : Enter(r, p)
  <2>1. {"compile", "foreign"} \subseteq Phases
    BY DEF Phases, Ended
  <2>2. /\ run' \in [Runs -> RunType] /\ \A q \in Runs \ {r} : run'[q] = run[q]
        /\ run'[r].phase \notin {"open", "fill", "replace"}
    BY <1>1, <1>6, <2>1, EnterFacts, ProceedFacts
  <2>3. DataTyped'
    BY <1>1, <1>3, <1>5, <2>2, ControlTyped
  <2>4. QED
    BY <1>4, <2>3, TypedSplitNext
<1>7. CASE run' = [run EXCEPT ![r].phase = "open", ![r].seen = c]
  <2>1. run[r] \in RunType /\ "open" \in Phases
    BY <1>1 DEF Phases
  <2>2. [run[r] EXCEPT !.phase = "open", !.seen = c] \in RunType
    BY <1>2, <2>1 DEF RunType
  <2>3. /\ run' \in [Runs -> RunType] /\ \A q \in Runs \ {r} : run'[q] = run[q]
        /\ run'[r].phase = "open" /\ run'[r].seen = c /\ run'[r].at = run[r].at
    BY <1>1, <1>7, <2>1, <2>2 DEF RunType
  <2>4. \A q \in Runs : Step(q)' = Step(q)
    BY <2>3 DEF Step
  <2>5. handle'[r] = "none" /\ ~InPhase(r, "fill")'
    BY <1>1, <1>3, <1>5, <2>3 DEF DataTyped, InPhase
  <2>6. RunSound(r)'
    BY <1>2, <2>3, <2>4, <2>5 DEF RunSound
  <2>7. \A q \in Runs \ {r} : /\ (handle[q] # "none" <=> InPhase(q, "fill"))'
                              /\ (handle[q] = "tmp" => tmp[Step(q)] # NoFile)'
                              /\ RunSound(q)'
    BY <1>1, <1>3, <2>3, <2>4 DEF DataTyped, RunSound, InPhase
  <2>8. DataTyped'
    BY <1>1, <1>3, <2>3, <2>5, <2>6, <2>7 DEF DataTyped
  <2>9. QED
    BY <1>4, <2>8, TypedSplitNext
<1>8. QED
  BY <1>6, <1>7 DEF Read

\* Opening the temporary file or the file keeps the types.
LEMMA OpenTyped ==
  ASSUME Typed, NEW r \in Runs, Open(r)
  PROVE  Typed'
<1> DEFINE s == Step(r)
<1>1. DataTyped /\ SetupTyped /\ run \in [Runs -> RunType] /\ "fill" \in Phases
  BY TypedSplit DEF DataTyped, Phases
<1>2. InPhase(r, "open") /\ s \in Edits /\ FileOf[s] \in Files
  BY <1>1, EditSteps DEF Open, DataTyped, RunSound, InPhase
<1>3. SetupTyped'
  BY <1>1 DEF Open, setup, past, SetupTyped
<1>4. /\ run' \in [Runs -> RunType] /\ \A q \in Runs \ {r} : run'[q] = run[q]
      /\ run'[r].at = run[r].at /\ run'[r].seen = run[r].seen /\ run'[r].phase = "fill"
  BY <1>1, EnterFacts DEF Open
<1>5. \A q \in Runs : Step(q)' = Step(q)
  BY <1>4 DEF Step
<1>6. /\ disk' \in [Files -> Contents] /\ \A f \in Files : disk'[f].has \subseteq EditsOf(f)
      /\ tmp' \in [Edits -> Contents \cup {NoFile}]
      /\ \A e \in Edits : tmp'[e].has \subseteq EditsOf(FileOf[e])
      /\ \A e \in Edits : tmp[e] # NoFile => tmp'[e] # NoFile
  <2>1. CASE Renames(s)
    BY <1>1, <1>2, <2>1, ContentsFacts DEF Open, DataTyped
  <2>2. CASE ~Renames(s)
    BY <1>1, <1>2, <2>2, ContentsFacts DEF Open, DataTyped
  <2>3. QED
    BY <2>1, <2>2
<1>7. /\ handle' \in [Runs -> {"none", "tmp", "path", "orphan"}]
      /\ \A q \in Runs \ {r} : handle'[q] = handle[q]
      /\ handle'[r] \in {"tmp", "path"}
      /\ handle'[r] = "tmp" => Renames(s) /\ tmp'[s] # NoFile
  BY <1>1, <1>2, ContentsFacts DEF Open, DataTyped
<1>8. RunSound(r)'
  BY <1>1, <1>2, <1>4, <1>5, <1>7 DEF RunSound, DataTyped, InPhase
<1>9. \A q \in Runs \ {r} : /\ (handle[q] # "none" <=> InPhase(q, "fill"))'
                            /\ (handle[q] = "tmp" => tmp[Step(q)] # NoFile)'
                            /\ RunSound(q)'
  <2> SUFFICES ASSUME NEW q \in Runs \ {r}
               PROVE  /\ (handle[q] # "none" <=> InPhase(q, "fill"))'
                      /\ (handle[q] = "tmp" => tmp[Step(q)] # NoFile)'
                      /\ RunSound(q)'
    OBVIOUS
  <2>1. handle[q] = "tmp" => Step(q) \in Edits
    BY <1>1 DEF DataTyped, RunSound, InPhase
  <2>2. QED
    BY <1>1, <1>4, <1>5, <1>6, <1>7, <2>1 DEF DataTyped, RunSound, InPhase
<1>10. DataTyped'
  BY <1>4, <1>5, <1>6, <1>7, <1>8, <1>9 DEF DataTyped, InPhase
<1>11. QED
  BY <1>3, <1>10, TypedSplitNext

\* What a write does to the files, given that what is written is of the file of the step.
LEMMA WrittenFacts ==
  ASSUME DataTyped, NEW r \in Runs, InPhase(r, "fill"), NEW c \in Contents,
         c.has \subseteq EditsOf(FileOf[Step(r)]), Written(r, c)
  PROVE  /\ disk' \in [Files -> Contents] /\ \A f \in Files : disk'[f].has \subseteq EditsOf(f)
         /\ tmp' \in [Edits -> Contents \cup {NoFile}]
         /\ \A e \in Edits : tmp'[e].has \subseteq EditsOf(FileOf[e])
         /\ \A e \in Edits : tmp[e] # NoFile => tmp'[e] # NoFile
         /\ handle' \in [Runs -> {"none", "tmp", "path", "orphan"}]
         /\ handle'[r] = "none" /\ \A q \in Runs \ {r} : handle'[q] = handle[q]
<1>1. Step(r) \in Edits /\ FileOf[Step(r)] \in Files
  BY EditSteps DEF DataTyped, RunSound, InPhase
<1>2. /\ disk' \in [Files -> Contents] /\ \A f \in Files : disk'[f].has \subseteq EditsOf(f)
  BY <1>1 DEF DataTyped, Written
<1>3. /\ tmp' \in [Edits -> Contents \cup {NoFile}]
      /\ \A e \in Edits : tmp'[e].has \subseteq EditsOf(FileOf[e])
      /\ \A e \in Edits : tmp[e] # NoFile => tmp'[e] # NoFile
  BY <1>1, ContentsFacts DEF DataTyped, Written
<1>4. /\ handle' \in [Runs -> {"none", "tmp", "path", "orphan"}]
      /\ handle'[r] = "none" /\ \A q \in Runs \ {r} : handle'[q] = handle[q]
  BY DEF DataTyped, Written
<1>5. QED
  BY <1>2, <1>3, <1>4

\* A write, and going on after it, keeps the types.
LEMMA WrittenTyped ==
  ASSUME DataTyped, NEW r \in Runs, InPhase(r, "fill"), NEW c \in Contents,
         c.has \subseteq EditsOf(FileOf[Step(r)]), Written(r, c),
         run' \in [Runs -> RunType], \A q \in Runs \ {r} : run'[q] = run[q],
         run'[r].phase \notin {"open", "fill"},
         run'[r].phase = "replace" => run'[r].at = run[r].at /\ Renames(Step(r))
  PROVE  DataTyped'
<1>1. \A q \in Runs \ {r} : Step(q)' = Step(q) /\ InPhase(q, "fill")' = InPhase(q, "fill")
  BY DEF Step, InPhase
<1>2. Step(r) \in Edits
  BY DEF DataTyped, RunSound, InPhase
<1>3. \A q \in Runs \ {r} : /\ (handle[q] # "none" <=> InPhase(q, "fill"))'
                            /\ (handle[q] = "tmp" => tmp[Step(q)] # NoFile)'
                            /\ RunSound(q)'
  <2> SUFFICES ASSUME NEW q \in Runs \ {r}
               PROVE  /\ (handle[q] # "none" <=> InPhase(q, "fill"))'
                      /\ (handle[q] = "tmp" => tmp[Step(q)] # NoFile)'
                      /\ RunSound(q)'
    OBVIOUS
  <2>1. handle[q] = "tmp" => Step(q) \in Edits
    BY DEF DataTyped, RunSound, InPhase
  <2>2. QED
    BY <1>1, <2>1, WrittenFacts DEF DataTyped, RunSound
<1>4. /\ handle'[r] = "none" /\ ~InPhase(r, "fill")' /\ RunSound(r)'
  BY <1>2, WrittenFacts DEF InPhase, RunSound, Step
<1>5. QED
  BY <1>3, <1>4, WrittenFacts DEF DataTyped

\* Filling the open file keeps the types.
LEMMA FillTyped ==
  ASSUME Typed, NEW r \in Runs, Fill(r)
  PROVE  Typed'
<1> DEFINE s == Step(r)
           new == Edited(s, run[r].seen)
<1>1. DataTyped /\ SetupTyped /\ run \in [Runs -> RunType] /\ {"replace", "compile"} \subseteq Phases
  BY TypedSplit DEF DataTyped, Phases
<1>2. /\ InPhase(r, "fill") /\ s \in Edits /\ run[r].seen \in Contents
      /\ run[r].seen.has \subseteq EditsOf(FileOf[s])
  BY <1>1 DEF Fill, DataTyped, RunSound, InPhase, RunType
<1>3. new \in Contents /\ new.has \subseteq EditsOf(FileOf[s])
  BY <1>2, EditedFacts
<1>4. PICK c \in Contents : c.has \subseteq EditsOf(FileOf[s]) /\ Written(r, c)
  <2>1. CASE Written(r, new)
    BY <1>3, <2>1
  <2>2. CASE \E rest \in SUBSET Holds(r).has :
                Written(r, [has |-> new.has \cup rest, text |-> "cut"])
    <3>1. PICK rest \in SUBSET Holds(r).has :
                Written(r, [has |-> new.has \cup rest, text |-> "cut"])
      BY <2>2
    <3>2. handle[r] \in {"tmp", "path", "orphan"}
      BY <1>1, <1>2 DEF DataTyped
    <3>3. Holds(r).has \subseteq EditsOf(FileOf[s])
      <4>1. FileOf[s] \in Files
        BY <1>2, EditSteps
      <4>2. CASE handle[r] = "tmp"
        BY <1>1, <1>2, <4>2 DEF Holds, DataTyped
      <4>3. CASE handle[r] = "path"
        BY <1>1, <4>1, <4>3 DEF Holds, DataTyped
      <4>4. CASE handle[r] = "orphan"
        BY <4>4, ContentsFacts DEF Holds
      <4>5. QED
        BY <3>2, <4>2, <4>3, <4>4
    <3>4. [has |-> new.has \cup rest, text |-> "cut"] \in Contents
      BY <1>3, <3>3, EditSteps DEF Contents, EditsOf
    <3>5. [has |-> new.has \cup rest, text |-> "cut"].has \subseteq EditsOf(FileOf[s])
      BY <1>3, <3>3
    <3>6. QED
      BY <3>1, <3>4, <3>5
  <2>3. QED
    BY <2>1, <2>2 DEF Fill
<1>5. /\ run' \in [Runs -> RunType] /\ \A q \in Runs \ {r} : run'[q] = run[q]
      /\ run'[r].phase \notin {"open", "fill"}
      /\ run'[r].phase = "replace" => run'[r].at = run[r].at /\ Renames(s)
  <2>1. CASE Renames(s)
    BY <1>1, <2>1, EnterFacts DEF Fill
  <2>2. CASE ~Renames(s) /\ CompilesWritten(s)
    BY <1>1, <2>2, EnterFacts DEF Fill
  <2>3. CASE ~Renames(s) /\ ~CompilesWritten(s)
    BY <1>1, <2>3, ProceedFacts DEF Fill
  <2>4. QED
    BY <2>1, <2>2, <2>3
<1>6. DataTyped'
  BY <1>1, <1>2, <1>4, <1>5, WrittenTyped
<1>7. SetupTyped'
  BY <1>1 DEF Fill, setup, past, SetupTyped
<1>8. QED
  BY <1>6, <1>7, TypedSplitNext

\* A run that dies, or whose write fails, keeps the types.
LEMMA DieTyped ==
  ASSUME Typed, NEW r \in Runs, Die(r)
  PROVE  Typed'
<1> DEFINE s == Step(r)
<1>1. DataTyped /\ SetupTyped /\ run \in [Runs -> RunType] /\ "failed" \in Phases
  BY TypedSplit DEF DataTyped, Phases, Ended
<1>2. /\ run' \in [Runs -> RunType] /\ \A q \in Runs \ {r} : run'[q] = run[q]
      /\ run'[r].phase = "failed" /\ run'[r].at = run[r].at
  BY <1>1, EnterFacts DEF Die
<1>3. ASSUME handle' = [handle EXCEPT ![r] = "none"], UNCHANGED <<disk, tmp>>
      PROVE  DataTyped'
  <2>1. /\ handle' \in [Runs -> {"none", "tmp", "path", "orphan"}]
        /\ handle'[r] = "none" /\ \A q \in Runs \ {r} : handle'[q] = handle[q]
    BY <1>1, <1>3 DEF DataTyped
  <2>2. \A q \in Runs : Step(q)' = Step(q)
    BY <1>2 DEF Step
  <2>3. \A q \in Runs \ {r} : /\ (handle[q] # "none" <=> InPhase(q, "fill"))'
                              /\ (handle[q] = "tmp" => tmp[Step(q)] # NoFile)'
                              /\ RunSound(q)'
    BY <1>1, <1>2, <1>3, <2>1, <2>2 DEF DataTyped, RunSound, InPhase
  <2>4. ~InPhase(r, "fill")' /\ RunSound(r)'
    BY <1>2, <2>1 DEF InPhase, RunSound
  <2>5. QED
    BY <1>1, <1>2, <1>3, <2>1, <2>3, <2>4 DEF DataTyped
<1>4. ASSUME InPhase(r, "fill"),
             \E kept \in SUBSET Edited(s, run[r].seen).has :
               Written(r, [has |-> kept, text |-> "cut"])
      PROVE  DataTyped'
  <2>1. PICK kept \in SUBSET Edited(s, run[r].seen).has :
                Written(r, [has |-> kept, text |-> "cut"])
    BY <1>4
  <2>2. s \in Edits /\ run[r].seen \in Contents /\ run[r].seen.has \subseteq EditsOf(FileOf[s])
    BY <1>1, <1>4 DEF DataTyped, RunSound, InPhase, RunType
  <2>3. kept \subseteq EditsOf(FileOf[s]) /\ EditsOf(FileOf[s]) \subseteq Edits
    BY <2>1, <2>2, EditedFacts DEF EditsOf
  <2>4. [has |-> kept, text |-> "cut"] \in Contents
    BY <2>3 DEF Contents
  <2>5. QED
    BY <1>1, <1>2, <1>4, <2>1, <2>3, <2>4, WrittenTyped
<1>5. DataTyped'
  BY <1>3, <1>4 DEF Die
<1>6. SetupTyped'
  <2>1. interrupted' \in BOOLEAN
    BY Zenon DEF Die
  <2>2. faults' \in 0 .. MaxFaults
    BY <1>1 DEF Die, SetupTyped
  <2>3. QED
    BY <1>1, <2>1, <2>2 DEF Die, setup, SetupTyped
<1>7. QED
  BY <1>5, <1>6, TypedSplitNext

\* A rename keeps the types: a file another run has open under the temporary name goes
\* on as the file itself, so no run writes to a temporary file that is not there.
LEMMA ReplaceTyped ==
  ASSUME Typed, NEW r \in Runs, Replace(r)
  PROVE  Typed'
<1> DEFINE s == Step(r)
<1>1. DataTyped /\ SetupTyped /\ run \in [Runs -> RunType] /\ {"failed", "compile"} \subseteq Phases
  BY TypedSplit DEF DataTyped, Phases, Ended
<1>2. InPhase(r, "replace") /\ s \in Edits /\ FileOf[s] \in Files /\ handle[r] = "none"
  BY <1>1, EditSteps DEF Replace, DataTyped, RunSound, InPhase
<1>3. SetupTyped'
  BY <1>1 DEF Replace, setup, past, SetupTyped
<1>4. CASE tmp[s] = NoFile
  <2>1. Enter(r, "failed") /\ UNCHANGED <<disk, tmp, handle>>
    BY <1>4 DEF Replace
  <2>2. /\ run' \in [Runs -> RunType] /\ \A q \in Runs \ {r} : run'[q] = run[q]
        /\ run'[r].phase = "failed"
    BY <1>1, <2>1, EnterFacts
  <2>3. ~InPhase(r, "fill")
    BY <1>2 DEF InPhase
  <2>4. DataTyped'
    BY <1>1, <2>1, <2>2, <2>3, ControlTyped
  <2>5. QED
    BY <1>3, <2>4, TypedSplitNext
<1>5. CASE tmp[s] # NoFile
  <2>1. /\ disk' = [disk EXCEPT ![FileOf[s]] = tmp[s]]
        /\ tmp' = [tmp EXCEPT ![s] = NoFile]
        /\ handle' = [q \in Runs |-> Adrift(q, r)]
        /\ Proceed(r) \/ Enter(r, "compile")
    BY <1>5 DEF Replace
  <2>2. /\ run' \in [Runs -> RunType] /\ \A q \in Runs \ {r} : run'[q] = run[q]
        /\ run'[r].phase \notin {"open", "fill", "replace"}
    BY <1>1, <2>1, EnterFacts, ProceedFacts
  <2>3. tmp[s] \in Contents /\ tmp[s].has \subseteq EditsOf(FileOf[s])
    BY <1>1, <1>2, <1>5 DEF DataTyped
  <2>4. disk' \in [Files -> Contents] /\ \A f \in Files : disk'[f].has \subseteq EditsOf(f)
    BY <1>1, <1>2, <2>1, <2>3 DEF DataTyped
  <2>5. /\ tmp' \in [Edits -> Contents \cup {NoFile}]
        /\ \A e \in Edits : tmp'[e].has \subseteq EditsOf(FileOf[e])
        /\ \A e \in Edits \ {s} : tmp'[e] = tmp[e]
    BY <1>1, <1>2, <2>1, ContentsFacts DEF DataTyped
  <2>6. \A q \in Runs : handle[q] \in {"none", "tmp", "path", "orphan"}
    BY <1>1 DEF DataTyped
  <2>7. handle' \in [Runs -> {"none", "tmp", "path", "orphan"}]
    BY <2>1, <2>6 DEF Adrift
  <2>8. \A q \in Runs : /\ handle'[q] = "none" <=> handle[q] = "none"
                        /\ handle'[q] = "tmp" => handle[q] = "tmp" /\ Step(q) # s
    BY <2>1, <2>6 DEF Adrift
  <2>9. handle'[r] = "none" /\ ~InPhase(r, "fill")' /\ RunSound(r)'
    BY <1>2, <2>2, <2>8 DEF InPhase, RunSound
  <2>10. \A q \in Runs \ {r} : /\ (handle[q] # "none" <=> InPhase(q, "fill"))'
                               /\ (handle[q] = "tmp" => tmp[Step(q)] # NoFile)'
                               /\ RunSound(q)'
    <3> SUFFICES ASSUME NEW q \in Runs \ {r}
                 PROVE  /\ (handle[q] # "none" <=> InPhase(q, "fill"))'
                        /\ (handle[q] = "tmp" => tmp[Step(q)] # NoFile)'
                        /\ RunSound(q)'
      OBVIOUS
    <3>1. Step(q)' = Step(q) /\ InPhase(q, "fill")' = InPhase(q, "fill")
      BY <2>2 DEF Step, InPhase
    <3>2. handle'[q] = "tmp" => Step(q) \in Edits \ {s}
      BY <1>1, <2>8 DEF DataTyped, RunSound, InPhase
    <3>3. QED
      BY <1>1, <2>2, <2>5, <2>8, <3>1, <3>2 DEF DataTyped, RunSound
  <2>11. DataTyped'
    BY <2>2, <2>4, <2>5, <2>7, <2>9, <2>10 DEF DataTyped
  <2>12. QED
    BY <1>3, <2>11, TypedSplitNext
<1>6. QED
  BY <1>4, <1>5

\* Every step keeps the types.
LEMMA TypedStep == Typed /\ [Next]_vars => Typed'
<1> SUFFICES ASSUME Typed, [Next]_vars PROVE Typed'
  OBVIOUS
<1>1. CASE UNCHANGED vars
  <2>1. DataTyped /\ SetupTyped
    BY TypedSplit
  <2>2. \A r \in Runs : Step(r)' = Step(r) /\ RunSound(r)'
    BY <1>1, <2>1 DEF vars, DataTyped, RunSound, Step
  <2>3. DataTyped'
    BY <1>1, <2>1, <2>2 DEF vars, DataTyped, InPhase
  <2>4. SetupTyped'
    BY <1>1, <2>1 DEF vars, SetupTyped
  <2>5. QED
    BY <2>3, <2>4, TypedSplitNext
<1>2. ASSUME NEW r \in Runs, RunStep(r) PROVE Typed'
  BY <1>2, ControlTypedStep, ReadTyped, OpenTyped, FillTyped, DieTyped, ReplaceTyped DEF RunStep
<1>3. QED
  BY <1>1, <1>2 DEF Next

\* The types hold always.
LEMMA TypedAlways == Spec => []Typed
BY TypedInit, TypedStep, PTL DEF Spec

\* The types hold for any number of runs of the scripts in the container, and a file a
\* run has open under a temporary name is there under that name, whoever renames it.
THEOREM TypeCorrect == Spec => []TypeOK
<1>1. Typed => TypeOK
  BY DEF Typed
<1>2. QED
  BY <1>1, TypedAlways, PTL

-----------------------------------------------------------------------------
(* The reroute under the exact top-k.                                      *)

\* What a run has read of the file of "sai" and what it asks of it.
SeenOrdered(r) ==
  run[r].phase \in {"open", "fill"} /\ FileOf[Step(r)] = "sai"
  => Ordered(run[r].seen) /\ (Step(r) = "DBs" => "A4" \in run[r].seen.has)

\* Nothing is edited at the start.
LEMMA ReroutedInit == Init => Rerouted
BY ContentsFacts, EditSteps DEF Init, Rerouted, Ordered

\* What a step makes of a text it was right to edit is in order.
LEMMA EditedOrdered ==
  ASSUME NEW s \in Edits, NEW c \in Contents, Ordered(c), s = "DBs" => "A4" \in c.has
  PROVE  Ordered(Edited(s, c))
BY EditedFacts DEF Ordered

\* A cut text is in order whatever it has, and an emptied one too.
LEMMA CutOrdered ==
  /\ \A h : Ordered([has |-> h, text |-> "cut"])
  /\ Ordered(Emptied) /\ Ordered(NoFile)
BY DEF Ordered, Emptied, NoFile

\* The files stay in order when what is written is, where the step writes to "sai".
LEMMA WrittenOrdered ==
  ASSUME Typed, Rerouted, NEW r \in Runs, InPhase(r, "fill"), NEW c,
         FileOf[Step(r)] = "sai" => Ordered(c), Written(r, c)
  PROVE  /\ Ordered(disk'["sai"])
         /\ \A s \in Edits : FileOf[s] = "sai" => Ordered(tmp'[s])
<1>1. DataTyped /\ Step(r) \in Edits /\ FileOf[Step(r)] \in Files
  BY TypedSplit, EditSteps DEF DataTyped, RunSound, InPhase
<1>2. \/ disk' = disk \/ disk' = [disk EXCEPT ![FileOf[Step(r)]] = c]
  BY DEF Written
<1>3. \/ tmp' = tmp \/ tmp' = [tmp EXCEPT ![Step(r)] = c]
  BY DEF Written
<1>4. Ordered(disk'["sai"])
  <2>1. disk'["sai"] = disk["sai"] \/ (FileOf[Step(r)] = "sai" /\ disk'["sai"] = c)
    BY <1>1, <1>2, EditSteps DEF DataTyped
  <2>2. QED
    BY <2>1 DEF Rerouted
<1>5. \A s \in Edits : FileOf[s] = "sai" => Ordered(tmp'[s])
  BY <1>1, <1>3 DEF DataTyped, Rerouted
<1>6. QED
  BY <1>4, <1>5

\* The parts of Rerouted in the next state: the files, and the run that moved.
LEMMA ReroutedNext ==
  ASSUME Rerouted, NEW r \in Runs, \A q \in Runs \ {r} : run'[q] = run[q],
         Ordered(disk'["sai"]), \A s \in Edits : FileOf[s] = "sai" => Ordered(tmp'[s]),
         SeenOrdered(r)'
  PROVE  Rerouted'
<1>1. \A q \in Runs : SeenOrdered(q)
  BY DEF Rerouted, SeenOrdered
<1>2. \A q \in Runs \ {r} : SeenOrdered(q)'
  BY <1>1 DEF SeenOrdered, Step
<1>3. \A q \in Runs : SeenOrdered(q)'
  BY <1>2
<1>4. QED
  BY <1>3 DEF Rerouted, SeenOrdered

\* No step of any run makes a text that has the exact top-k without the reroute.
LEMMA ReroutedStep == Typed /\ Rerouted /\ [Next]_vars => Rerouted'
<1> SUFFICES ASSUME Typed, Rerouted, [Next]_vars PROVE Rerouted'
  OBVIOUS
<1>1. DataTyped /\ run \in [Runs -> RunType]
  BY TypedSplit DEF DataTyped
<1>2. CASE UNCHANGED vars
  BY <1>2 DEF vars, Rerouted, Step
<1>3. ASSUME NEW r \in Runs, RunStep(r) PROVE Rerouted'
  <2> DEFINE s == Step(r)
  <2>0. {"read", "probe", "failed", "compile", "foreign", "fill", "replace"} \subseteq Phases
    BY DEF Phases, Ended
  <2>1. CASE Start(r) \/ MakeMarker(r) \/ Install(r) \/ Probe(r) \/ Compile(r)
    <3>1. Proceed(r) \/ \E p \in {"read", "probe", "failed"} : Enter(r, p)
      BY <2>1 DEF Start, MakeMarker, Install, Probe, Compile
    <3>2. /\ \A q \in Runs \ {r} : run'[q] = run[q]
          /\ run'[r].phase \notin {"open", "fill"}
      BY <1>1, <2>0, <3>1, EnterFacts, ProceedFacts
    <3>3. UNCHANGED <<disk, tmp>>
      BY <2>1 DEF Start, MakeMarker, Install, Probe, Compile
    <3>4. SeenOrdered(r)'
      BY <3>2 DEF SeenOrdered
    <3>5. QED
      BY <3>2, <3>3, <3>4, ReroutedNext DEF Rerouted
  <2>2. CASE Read(r)
    <3> DEFINE c == disk[FileOf[s]]
    <3>1. UNCHANGED <<disk, tmp>>
      BY <2>2 DEF Read
    <3>2. CASE Proceed(r) \/ \E p \in {"compile", "foreign"} : Enter(r, p)
      <4>1. /\ \A q \in Runs \ {r} : run'[q] = run[q]
            /\ run'[r].phase \notin {"open", "fill"}
        BY <1>1, <2>0, <3>2, EnterFacts, ProceedFacts
      <4>2. SeenOrdered(r)'
        BY <4>1 DEF SeenOrdered
      <4>3. QED
        BY <3>1, <4>1, <4>2, ReroutedNext DEF Rerouted
    <3>3. CASE /\ Anchored(s, c)
               /\ run' = [run EXCEPT ![r].phase = "open", ![r].seen = c]
      <4>1. /\ \A q \in Runs \ {r} : run'[q] = run[q]
            /\ run'[r].at = run[r].at /\ run'[r].seen = c
        BY <1>1, <3>3 DEF RunType
      <4>2. SeenOrdered(r)'
        BY <3>3, <4>1 DEF SeenOrdered, Step, Anchored, Rerouted
      <4>3. QED
        BY <3>1, <4>1, <4>2, ReroutedNext DEF Rerouted
    <3>4. QED
      BY <2>2, <3>2, <3>3 DEF Read
  <2>3. CASE Open(r)
    <3>1. /\ \A q \in Runs \ {r} : run'[q] = run[q]
          /\ run'[r].at = run[r].at /\ run'[r].seen = run[r].seen
      BY <1>1, <2>0, <2>3, EnterFacts DEF Open
    <3>2. InPhase(r, "open") /\ SeenOrdered(r)
      BY <2>3 DEF Open, Rerouted, SeenOrdered
    <3>3. SeenOrdered(r)'
      BY <3>1, <3>2 DEF SeenOrdered, Step, InPhase
    <3>4. s \in Edits /\ FileOf[s] \in Files
      BY <1>1, <3>2, EditSteps DEF DataTyped, RunSound, InPhase
    <3>5. disk'["sai"] = disk["sai"] \/ disk'["sai"] = Emptied
      BY <1>1, <2>3, <3>4, EditSteps DEF Open, DataTyped
    <3>6. \A e \in Edits : tmp'[e] = tmp[e] \/ tmp'[e] = Emptied
      BY <1>1, <2>3, <3>4 DEF Open, DataTyped
    <3>7. /\ Ordered(disk'["sai"])
          /\ \A e \in Edits : FileOf[e] = "sai" => Ordered(tmp'[e])
      BY <3>5, <3>6, CutOrdered DEF Rerouted
    <3>8. QED
      BY <3>1, <3>3, <3>7, ReroutedNext
  <2>4. CASE Fill(r)
    <3> DEFINE new == Edited(s, run[r].seen)
    <3>1. InPhase(r, "fill") /\ s \in Edits /\ run[r].seen \in Contents /\ SeenOrdered(r)
      BY <1>1, <2>4 DEF Fill, DataTyped, RunSound, InPhase, RunType, Rerouted, SeenOrdered
    <3>2. FileOf[s] = "sai" => Ordered(new)
      BY <3>1, EditedOrdered DEF SeenOrdered, InPhase
    <3>3. \E c : (FileOf[s] = "sai" => Ordered(c)) /\ Written(r, c)
      BY <2>4, <3>2, CutOrdered DEF Fill
    <3>4. /\ Ordered(disk'["sai"])
          /\ \A e \in Edits : FileOf[e] = "sai" => Ordered(tmp'[e])
      BY <3>1, <3>3, WrittenOrdered
    <3>5. Proceed(r) \/ \E p \in {"replace", "compile"} : Enter(r, p)
      BY <2>4 DEF Fill
    <3>6. /\ \A q \in Runs \ {r} : run'[q] = run[q]
          /\ run'[r].phase \notin {"open", "fill"}
      BY <1>1, <2>0, <3>5, EnterFacts, ProceedFacts
    <3>7. SeenOrdered(r)'
      BY <3>6 DEF SeenOrdered
    <3>8. QED
      BY <3>4, <3>6, <3>7, ReroutedNext
  <2>5. CASE Replace(r)
    <3>1. s \in Edits
      BY <1>1, <2>5 DEF Replace, DataTyped, RunSound, InPhase
    <3>2. disk'["sai"] = disk["sai"] \/ (FileOf[s] = "sai" /\ disk'["sai"] = tmp[s])
      BY <1>1, <2>5, <3>1, EditSteps DEF Replace, DataTyped
    <3>3. \A e \in Edits : tmp'[e] = tmp[e] \/ tmp'[e] = NoFile
      BY <1>1, <2>5, <3>1 DEF Replace, DataTyped
    <3>4. /\ Ordered(disk'["sai"])
          /\ \A e \in Edits : FileOf[e] = "sai" => Ordered(tmp'[e])
      BY <3>1, <3>2, <3>3, CutOrdered DEF Rerouted
    <3>5. Proceed(r) \/ \E p \in {"failed", "compile"} : Enter(r, p)
      BY <2>5 DEF Replace
    <3>6. /\ \A q \in Runs \ {r} : run'[q] = run[q]
          /\ run'[r].phase \notin {"open", "fill"}
      BY <1>1, <2>0, <3>5, EnterFacts, ProceedFacts
    <3>7. SeenOrdered(r)'
      BY <3>6 DEF SeenOrdered
    <3>8. QED
      BY <3>4, <3>6, <3>7, ReroutedNext
  <2>6. CASE Die(r)
    <3>1. /\ \A q \in Runs \ {r} : run'[q] = run[q]
          /\ run'[r].phase = "failed"
      BY <1>1, <2>0, <2>6, EnterFacts DEF Die
    <3>2. SeenOrdered(r)'
      BY <3>1 DEF SeenOrdered
    <3>3. CASE UNCHANGED <<disk, tmp>>
      BY <3>1, <3>2, <3>3, ReroutedNext DEF Rerouted
    <3>4. CASE InPhase(r, "fill") /\ \E kept : Written(r, [has |-> kept, text |-> "cut"])
      <4>1. PICK kept : Written(r, [has |-> kept, text |-> "cut"])
        BY <3>4
      <4>2. /\ Ordered(disk'["sai"])
            /\ \A e \in Edits : FileOf[e] = "sai" => Ordered(tmp'[e])
        BY <3>4, <4>1, CutOrdered, WrittenOrdered
      <4>3. QED
        BY <3>1, <3>2, <4>2, ReroutedNext
    <3>5. QED
      BY <2>6, <3>3, <3>4 DEF Die
  <2>7. QED
    BY <1>3, <2>1, <2>2, <2>3, <2>4, <2>5, <2>6 DEF RunStep
<1>4. QED
  BY <1>2, <1>3 DEF Next

\* However many runs of the scripts overlap, and wherever they die, a whole sparse
\* attention file with the exact top-k of the DCP script has the reroute of the base
\* script under it (RerouteUnderTopK).
THEOREM RerouteAlways == Spec => []RerouteUnderTopK
<1>1. Rerouted => RerouteUnderTopK
  BY DEF Rerouted, Ordered, RerouteUnderTopK
<1>2. QED
  BY <1>1, TypedAlways, ReroutedInit, ReroutedStep, PTL DEF Spec

-----------------------------------------------------------------------------
(* One run at a time.                                                      *)

\* Before the only run under way reads or after it has written, an edit is kept if and
\* only if its file has it, and every file is whole.
LEMMA Calm ==
  ASSUME Typed, Serial, NEW r \in UnderWay, ~Interrupts(r)
  PROVE  /\ \A s \in Edits : Keeps(s) => s \in disk[FileOf[s]].has
         /\ \A f \in Files : disk[f].text = "whole"
<1>1. \A q \in Runs : ~Interrupts(q)
  BY DEF Serial, UnderWay, Interrupts, InPhase, Ended
<1>2. QED
  BY <1>1 DEF Keeps, Serial

\* What the only run under way may do to what Serial says, so that it stays true.
LEMMA SerialNext ==
  ASSUME Typed, Serial, NEW r \in UnderWay, \A q \in Runs \ {r} : run'[q] = run[q],
         run'[r].phase # "idle",
         \A s \in Edits : Keeps(s) => Keeps(s)',
         marker => marker', b12x => b12x', mode # "none" => mode' # "none", odd' = odd,
         \A f \in Files : disk'[f].text = "whole"
                          \/ (Interrupts(r)' /\ FileOf[Step(r)'] = f),
         run'[r].phase \notin Ended => Editing(r)',
         run'[r].phase \notin {"failed", "foreign"} => Behind(r)',
         run'[r].phase = "foreign" => odd = {Step(r)'}
  PROVE  Serial'
<1>1. \A q \in Runs \ {r} : q \notin UnderWay /\ run[q].phase \in Ended \cup {"idle"}
  BY DEF Serial, UnderWay
<1>2. \A q \in Runs \ {r} : Step(q)' = Step(q)
  BY DEF Step
<1>3. \A q \in UnderWay' : q = r /\ run'[r].phase \notin Ended
  BY <1>1 DEF UnderWay
<1>4. \A q, p \in UnderWay' : q = p
  BY <1>3
<1>5. \A f \in Files : \/ disk'[f].text = "whole"
                       \/ \E q \in Runs : Interrupts(q)' /\ FileOf[Step(q)'] = f
  BY DEF UnderWay
<1>6. \A q \in UnderWay' : Editing(q)'
  BY <1>3
<1>7. \A q \in Runs : (q \in UnderWay \/ InPhase(q, "done"))' => Behind(q)'
  <2> SUFFICES ASSUME NEW q \in Runs, (q \in UnderWay \/ InPhase(q, "done"))'
               PROVE  Behind(q)'
    OBVIOUS
  <2>1. CASE q = r
    BY <2>1, <1>3 DEF Ended, InPhase
  <2>2. CASE q # r
    <3>1. InPhase(q, "done") /\ InPhase(q, "done")' /\ Behind(q)
      BY <1>3, <2>2 DEF InPhase, Serial
    <3>2. StepsBehind(q) = 11 /\ StepsBehind(q)' = 11 /\ ~InPhase(q, "probe")'
      BY <3>1, Steps DEF StepsBehind, InPhase
    <3>3. QED
      BY <3>1, <3>2 DEF Behind
  <2>3. QED
    BY <2>1, <2>2
<1>8. \A q \in Runs : InPhase(q, "foreign")' => odd' = {Step(q)'}
  BY <1>2 DEF Serial, InPhase
<1>9. \A q \in Runs : InPhase(q, "idle")' => run'[q].at = 1
  BY DEF Serial, InPhase
<1>10. QED
  BY <1>4, <1>5, <1>6, <1>7, <1>8, <1>9 DEF Serial

\* What has been done stays done when the run enters another phase of its step.
LEMMA EnterBehind ==
  ASSUME NEW r \in UnderWay, Behind(r), run'[r].at = run[r].at,
         run'[r].phase \notin {"done", "probe"},
         \A s \in Edits : Keeps(s) => Keeps(s)',
         marker => marker', b12x => b12x', mode # "none" => mode' # "none"
  PROVE  Behind(r)'
<1>1. StepsBehind(r)' = StepsBehind(r) /\ ~InPhase(r, "probe")'
  BY DEF StepsBehind, InPhase, UnderWay, Ended
<1>2. QED
  BY <1>1 DEF Behind

\* Going on adds the step to what has been done.
LEMMA ProceedBehind ==
  ASSUME Typed, NEW r \in UnderWay, Behind(r), Proceed(r),
         \A s \in Edits : Keeps(s) => Keeps(s)',
         marker => marker', b12x => b12x', mode # "none" => mode' # "none",
         \A s \in Edits : s = Step(r) => Keeps(s)',
         Step(r) = "A1" => marker',
         Step(r) = "B" => b12x' /\ mode' # "none"
  PROVE  Behind(r)'
<1>1. run \in [Runs -> RunType] /\ r \in Runs /\ run[r].at \in 1 .. 11
  BY Steps, TypedSplit DEF DataTyped, UnderWay, RunType
<1>2. StepsBehind(r)' = run[r].at /\ StepsBehind(r) = run[r].at - 1 /\ ~InPhase(r, "probe")'
  BY <1>1, ProceedFacts, Steps DEF StepsBehind, InPhase, UnderWay, Ended
<1>3. \A i \in 1 .. StepsBehind(r)' : Script[i] \in Edits => Keeps(Script[i])'
  BY <1>1, <1>2 DEF Behind, Step
<1>4. StepsBehind(r)' >= 1 => marker'
  BY <1>1, <1>2, Steps DEF Behind, Step
<1>5. StepsBehind(r)' >= 5 => b12x' /\ mode' # "none"
  BY <1>1, <1>2, Steps DEF Behind, Step
<1>6. QED
  BY <1>2, <1>3, <1>4, <1>5 DEF Behind

\* The phase after going on, which is outside every edit.
LEMMA ProceedPhase ==
  ASSUME Typed, NEW r \in UnderWay, Proceed(r)
  PROVE  /\ \A q \in Runs \ {r} : run'[q] = run[q]
         /\ run'[r].phase \in {"done", "read"} /\ Editing(r)' /\ ~Interrupts(r)'
<1>1. run \in [Runs -> RunType] /\ r \in Runs
  BY TypedSplit DEF DataTyped, UnderWay
<1>2. /\ \A q \in Runs \ {r} : run'[q] = run[q]
      /\ run'[r].phase \in {"done", "read"}
  BY <1>1, ProceedFacts
<1>3. Editing(r)' /\ ~Interrupts(r)'
  BY <1>2 DEF Editing, Interrupts, InPhase
<1>4. QED
  BY <1>2, <1>3

\* A run that goes on, with every file whole, every edit kept and its step done.
LEMMA SerialProceed ==
  ASSUME Typed, Serial, NEW r \in UnderWay, Proceed(r),
         \A s \in Edits : Keeps(s) => Keeps(s)',
         marker => marker', b12x => b12x', mode # "none" => mode' # "none", odd' = odd,
         \A f \in Files : disk'[f].text = "whole",
         \A s \in Edits : s = Step(r) => Keeps(s)',
         Step(r) = "A1" => marker',
         Step(r) = "B" => b12x' /\ mode' # "none"
  PROVE  Serial'
<1>1. Behind(r) /\ r \in Runs
  BY DEF Serial, UnderWay
<1>2. Behind(r)'
  BY <1>1, ProceedBehind
<1>3. /\ \A q \in Runs \ {r} : run'[q] = run[q]
      /\ run'[r].phase \in {"done", "read"} /\ Editing(r)'
  BY ProceedPhase
<1>4. run'[r].phase # "idle" /\ run'[r].phase # "foreign"
  BY <1>3
<1>5. \A f \in Files : disk'[f].text = "whole" \/ (Interrupts(r)' /\ FileOf[Step(r)'] = f)
  OBVIOUS
<1>6. QED
  BY <1>2, <1>3, <1>4, <1>5, SerialNext

\* A run that goes to another phase of its step with every file whole.
LEMMA SerialEnter ==
  ASSUME Typed, Serial, NEW r \in UnderWay, NEW p \in Phases \ {"idle", "done", "probe"},
         Enter(r, p),
         \A s \in Edits : Keeps(s) => Keeps(s)',
         marker => marker', b12x => b12x', mode # "none" => mode' # "none", odd' = odd,
         \A f \in Files : disk'[f].text = "whole"
                          \/ (Interrupts(r)' /\ FileOf[Step(r)'] = f),
         p \notin Ended => Editing(r)',
         p = "foreign" => odd = {Step(r)}
  PROVE  Serial'
<1>1. run \in [Runs -> RunType] /\ r \in Runs /\ Behind(r)
  BY TypedSplit DEF DataTyped, UnderWay, Serial
<1>2. /\ \A q \in Runs \ {r} : run'[q] = run[q]
      /\ run'[r].phase = p /\ run'[r].at = run[r].at
  BY <1>1, EnterFacts
<1>3. Step(r)' = Step(r)
  BY <1>2 DEF Step
<1>4. Behind(r)'
  BY <1>1, <1>2, EnterBehind
<1>5. QED
  BY <1>2, <1>3, <1>4, SerialNext

\* With the files left alone and nothing open in place, every edit stays kept.
LEMMA KeepsSame ==
  ASSUME Typed, Serial, NEW r \in UnderWay, ~Interrupts(r), disk' = disk
  PROVE  /\ \A s \in Edits : Keeps(s) => Keeps(s)'
         /\ \A f \in Files : disk'[f].text = "whole"
BY Calm DEF Keeps

\* The edits of the steps before the one of a run that reads are in their files, and so
\* the anchors of a step can be missing only if they never were there.
LEMMA AnchorsOfOthers ==
  ASSUME Typed, Rerouted, Serial, NEW r \in UnderWay, ~Interrupts(r), Step(r) \in Edits,
         Step(r) \notin disk[FileOf[Step(r)]].has,
         ~Anchored(Step(r), disk[FileOf[Step(r)]])
  PROVE  Step(r) \in odd
<1> DEFINE s == Step(r)
<1>1. run[r].at \in 1 .. 11 /\ ~InPhase(r, "done") /\ Behind(r)
  BY Steps, TypedSplit DEF DataTyped, RunType, UnderWay, InPhase, Ended, Serial
<1>2. s = "DBs" => "A4" \in disk["sai"].has
  <2> SUFFICES ASSUME s = "DBs" PROVE "A4" \in disk["sai"].has
    OBVIOUS
  <2>1. run[r].at = 9
    BY <1>1, Steps DEF Step
  <2>2. Keeps("A4")
    BY <1>1, <2>1, Steps, EditSteps DEF Behind, StepsBehind
  <2>3. QED
    BY <2>2, Calm, EditSteps
<1>3. s = "A4" => "DBs" \notin disk["sai"].has
  <2> SUFFICES ASSUME s = "A4", "DBs" \in disk["sai"].has PROVE FALSE
    OBVIOUS
  <2>1. disk["sai"].text = "whole"
    BY Calm, EditSteps
  <2>2. "A4" \in disk["sai"].has
    BY <2>1 DEF Rerouted, Ordered
  <2>3. QED
    BY <2>2, EditSteps
<1>4. QED
  BY <1>2, <1>3, EditSteps DEF Anchored

\* A run that starts alone finds every file whole and has nothing behind it.
LEMMA SerialStart ==
  ASSUME Typed, Serial, Alone', NEW r \in Runs, Start(r)
  PROVE  Serial'
<1>1. run \in [Runs -> RunType] /\ "read" \in Phases
  BY TypedSplit DEF DataTyped, Phases
<1>2. /\ \A q \in Runs \ {r} : run'[q] = run[q]
      /\ run'[r].phase = "read" /\ run'[r].at = 1
  BY <1>1, EnterFacts DEF Start, Serial
<1>3. UnderWay = {}
  BY DEF Start, Alone
<1>4. UnderWay' \subseteq {r}
  BY <1>2, <1>3 DEF UnderWay
<1>5. UNCHANGED <<disk, tmp, handle, marker, b12x, mode, odd>>
  BY DEF Start, setup
<1>6. \A q \in Runs : ~Interrupts(q)
  BY <1>3 DEF UnderWay, Interrupts, InPhase, Ended
<1>7. \A f \in Files : disk'[f].text = "whole"
  BY <1>5, <1>6 DEF Serial
<1>8. \A s \in Edits : Keeps(s) => Keeps(s)'
  BY <1>5, <1>6 DEF Keeps
<1>9. Editing(r)' /\ Behind(r)'
  <2>1. StepsBehind(r)' = 0
    BY <1>2 DEF StepsBehind, InPhase
  <2>2. QED
    BY <1>2, <2>1 DEF Editing, Behind, InPhase
<1>10. \A q \in Runs \ {r} : InPhase(q, "done")' => Behind(q)'
  <2> SUFFICES ASSUME NEW q \in Runs \ {r}, InPhase(q, "done")' PROVE Behind(q)'
    OBVIOUS
  <2>1. InPhase(q, "done") /\ Behind(q)
    BY <1>2 DEF InPhase, Serial
  <2>2. StepsBehind(q) = 11 /\ StepsBehind(q)' = 11 /\ ~InPhase(q, "probe")'
    BY <2>1, Steps DEF StepsBehind, InPhase
  <2>3. QED
    BY <1>5, <1>8, <2>1, <2>2 DEF Behind
<1>11. \A q \in Runs : InPhase(q, "foreign")' => odd' = {Step(q)'}
  BY <1>2, <1>5 DEF Serial, InPhase, Step
<1>12. \A q \in Runs : InPhase(q, "idle")' => run'[q].at = 1
  BY <1>2 DEF Serial, InPhase
<1>13. \A q \in Runs : (q \in UnderWay \/ InPhase(q, "done"))' => Behind(q)'
  BY <1>4, <1>9, <1>10
<1>14. \A q, p \in UnderWay' : q = p
  BY <1>4
<1>15. \A q \in UnderWay' : Editing(q)'
  BY <1>4, <1>9
<1>16. QED
  BY <1>7, <1>11, <1>12, <1>13, <1>14, <1>15 DEF Serial

\* The steps that edit no file do what the later ones count on.
LEMMA SerialSetup ==
  ASSUME Typed, Serial, NEW r \in UnderWay, MakeMarker(r) \/ Install(r) \/ Probe(r)
  PROVE  Serial'
<1>1. run \in [Runs -> RunType] /\ r \in Runs /\ Behind(r)
  BY TypedSplit DEF DataTyped, UnderWay, Serial
<1>2. disk' = disk /\ odd' = odd /\ ~Interrupts(r)
  BY DEF MakeMarker, Install, Probe, Interrupts, InPhase
<1>3. /\ \A s \in Edits : Keeps(s) => Keeps(s)'
      /\ \A f \in Files : disk'[f].text = "whole"
  BY <1>2, KeepsSame
<1>4. "A1" \notin Edits /\ "B" \notin Edits
  BY EditSteps
<1>5. CASE MakeMarker(r)
  <2>1. Proceed(r) /\ marker' /\ b12x' = b12x /\ mode' = mode /\ Step(r) = "A1"
    BY <1>5 DEF MakeMarker
  <2>2. QED
    BY <1>2, <1>3, <1>4, <2>1, SerialProceed
<1>6. CASE Probe(r)
  <2>1. Proceed(r) /\ marker' = marker /\ b12x' = b12x /\ mode' # "none"
    BY <1>6 DEF Probe
  <2>2. Step(r) = "B" /\ b12x
    BY <1>1, <1>6 DEF Behind, Probe
  <2>3. QED
    BY <1>2, <1>3, <1>4, <2>1, <2>2, SerialProceed
<1>7. CASE Install(r)
  <2>1. {"probe", "failed"} \subseteq Phases
    BY DEF Phases, Ended
  <2>2. CASE b12x' = TRUE /\ Enter(r, "probe")
    <3>1. marker' = marker /\ mode' = mode /\ Step(r) = "B" /\ ~InPhase(r, "done")
      BY <1>7 DEF Install, InPhase
    <3>2. /\ \A q \in Runs \ {r} : run'[q] = run[q]
          /\ run'[r].phase = "probe" /\ run'[r].at = run[r].at
      BY <1>1, <2>1, <2>2, EnterFacts
    <3>3. StepsBehind(r)' = StepsBehind(r) /\ Step(r)' = Step(r) /\ Editing(r)'
      BY <3>1, <3>2 DEF StepsBehind, Step, Editing, InPhase
    <3>4. Behind(r)'
      BY <1>1, <1>3, <2>2, <3>1, <3>3 DEF Behind
    <3>5. QED
      BY <1>2, <1>3, <2>2, <3>1, <3>2, <3>3, <3>4, SerialNext
  <2>3. CASE Enter(r, "failed") /\ b12x' = b12x
    <3>1. marker' = marker /\ mode' = mode
      BY <1>7 DEF Install
    <3>2. QED
      BY <1>2, <1>3, <2>1, <2>3, <3>1, SerialEnter DEF Ended
  <2>4. QED
    BY <1>7, <2>2, <2>3 DEF Install
<1>8. QED
  BY <1>5, <1>6, <1>7

\* A step skips what is there, starts on a text without its edit, or refuses a foreign file.
LEMMA SerialRead ==
  ASSUME Typed, Rerouted, Serial, OneOdd, NEW r \in UnderWay, Read(r)
  PROVE  Serial'
<1> DEFINE s == Step(r)
           c == disk[FileOf[s]]
<1>1. run \in [Runs -> RunType] /\ r \in Runs /\ Behind(r) /\ DataTyped
  BY TypedSplit DEF DataTyped, UnderWay, Serial
<1>2. /\ UNCHANGED <<disk, tmp, handle, marker, b12x, mode, odd>>
      /\ InPhase(r, "read") /\ ~Interrupts(r) /\ s \in Edits /\ FileOf[s] \in Files
  BY EditSteps DEF Read, setup, Interrupts, InPhase
<1>3. /\ \A e \in Edits : Keeps(e) => Keeps(e)'
      /\ \A f \in Files : disk'[f].text = "whole" /\ disk[f].text = "whole"
  BY <1>2, KeepsSame
<1>4. s # "A1" /\ s # "B" /\ {"open", "compile", "foreign"} \subseteq Phases
  BY <1>2, EditSteps DEF Phases, Ended
<1>5. CASE s \in c.has /\ Proceed(r)
  <2>1. \A e \in Edits : e = s => Keeps(e)'
    BY <1>2, <1>5 DEF Keeps
  <2>2. QED
    BY <1>2, <1>3, <1>4, <1>5, <2>1, SerialProceed
<1>6. CASE s \in c.has /\ Enter(r, "compile")
  <2>1. run'[r].phase = "compile" /\ run'[r].at = run[r].at
    BY <1>1, <1>4, <1>6, EnterFacts
  <2>2. Editing(r)'
    BY <1>2, <1>6, <2>1 DEF Editing, InPhase, Step
  <2>3. QED
    BY <1>2, <1>3, <1>4, <1>6, <2>2, SerialEnter
<1>7. CASE /\ s \notin c.has
           /\ run' = [run EXCEPT ![r].phase = "open", ![r].seen = c]
  <2>1. /\ \A q \in Runs \ {r} : run'[q] = run[q]
        /\ run'[r].phase = "open" /\ run'[r].at = run[r].at /\ run'[r].seen = c
    BY <1>1, <1>7 DEF RunType
  <2>2. Editing(r)'
    BY <1>2, <1>7, <2>1 DEF Editing, InPhase, Step
  <2>3. Behind(r)'
    BY <1>1, <1>2, <1>3, <2>1, EnterBehind
  <2>4. QED
    BY <1>2, <1>3, <2>1, <2>2, <2>3, SerialNext
<1>8. CASE s \notin c.has /\ (c.text # "whole" \/ ~Anchored(s, c)) /\ Enter(r, "foreign")
  <2>1. s \in odd
    BY <1>2, <1>3, <1>8, AnchorsOfOthers
  <2>2. odd = {s}
    BY <2>1 DEF OneOdd
  <2>3. QED
    BY <1>2, <1>3, <1>4, <1>8, <2>2, SerialEnter DEF Ended
<1>9. QED
  BY <1>5, <1>6, <1>7, <1>8 DEF Read

\* Emptying the file in place keeps its edits in what the run has read.
LEMMA SerialOpen ==
  ASSUME Typed, Serial, NEW r \in UnderWay, Open(r)
  PROVE  Serial'
<1> DEFINE s == Step(r)
           F == FileOf[s]
<1>1. /\ run \in [Runs -> RunType] /\ r \in Runs /\ Editing(r) /\ DataTyped
      /\ "fill" \in Phases
  BY TypedSplit DEF DataTyped, UnderWay, Serial, Phases
<1>2. InPhase(r, "open") /\ ~Interrupts(r) /\ s \in Edits /\ F \in Files
  BY <1>1, EditSteps DEF Open, Interrupts, InPhase, DataTyped, RunSound
<1>3. /\ \A e \in Edits : Keeps(e) => e \in disk[FileOf[e]].has
      /\ \A f \in Files : disk[f].text = "whole"
  BY <1>2, Calm
<1>4. run[r].seen = disk[F] /\ s \notin run[r].seen.has /\ run[r].seen.text = "whole"
  BY <1>1, <1>2, <1>3 DEF Editing
<1>5. /\ run'[r].phase = "fill" /\ run'[r].at = run[r].at /\ run'[r].seen = run[r].seen
      /\ Step(r)' = s /\ Enter(r, "fill")
  BY <1>1, EnterFacts DEF Open, Step
<1>6. marker' = marker /\ b12x' = b12x /\ mode' = mode /\ odd' = odd
  BY DEF Open, setup
<1>7. CASE Renames(s)
  <2>1. /\ disk' = disk /\ tmp'[s] = Emptied /\ handle'[r] = "tmp"
    BY <1>1, <1>2, <1>7 DEF Open, DataTyped
  <2>2. Editing(r)'
    BY <1>4, <1>5, <1>7, <2>1 DEF Editing, InPhase
  <2>3. \A e \in Edits : Keeps(e) => Keeps(e)'
    BY <1>3, <2>1 DEF Keeps
  <2>4. QED
    BY <1>3, <1>5, <1>6, <2>1, <2>2, <2>3, <1>1, SerialEnter DEF Ended
<1>8. CASE ~Renames(s)
  <2>1. /\ disk' = [disk EXCEPT ![F] = Emptied] /\ handle'[r] = "path"
    BY <1>1, <1>2, <1>8 DEF Open, DataTyped
  <2>2. Interrupts(r)'
    BY <1>5, <1>8 DEF Interrupts, InPhase, Renames
  <2>3. disk'[F] = Emptied /\ \A f \in Files \ {F} : disk'[f] = disk[f]
    BY <1>1, <1>2, <2>1 DEF DataTyped
  <2>4. Editing(r)'
    BY <1>4, <1>5, <1>8, <2>1, <2>3 DEF Editing, InPhase
  <2>5. \A e \in Edits : Keeps(e) => Keeps(e)'
    <3> SUFFICES ASSUME NEW e \in Edits, e \in disk[FileOf[e]].has PROVE Keeps(e)'
      BY <1>3
    <3>1. CASE FileOf[e] = F
      BY <1>1, <1>4, <1>5, <2>2, <3>1 DEF Keeps
    <3>2. CASE FileOf[e] # F
      BY <2>3, <3>2, EditSteps DEF Keeps
    <3>3. QED
      BY <3>1, <3>2
  <2>6. \A f \in Files : disk'[f].text = "whole" \/ (Interrupts(r)' /\ FileOf[Step(r)'] = f)
    BY <1>3, <1>5, <2>2, <2>3
  <2>7. QED
    BY <1>1, <1>5, <1>6, <2>4, <2>5, <2>6, SerialEnter DEF Ended
<1>9. QED
  BY <1>7, <1>8

\* A file that comes to hold what was read and the edit of the step, as the file itself.
LEMMA KeepsEdited ==
  ASSUME Typed, Serial, NEW r \in UnderWay, Step(r) \in Edits,
         disk' = [disk EXCEPT ![FileOf[Step(r)]] = Edited(Step(r), run[r].seen)],
         run[r].seen \in Contents, run[r].seen.text = "whole",
         ~Interrupts(r) => run[r].seen.has = disk[FileOf[Step(r)]].has,
         Interrupts(r) => disk[FileOf[Step(r)]] = Emptied
  PROVE  /\ \A e \in Edits : Keeps(e) => Keeps(e)'
         /\ \A e \in Edits : e = Step(r) => Keeps(e)'
         /\ \A f \in Files : disk'[f].text = "whole"
         /\ Step(r) \in disk'[FileOf[Step(r)]].has
<1> DEFINE s == Step(r)
           F == FileOf[s]
           new == Edited(s, run[r].seen)
<1>1. disk \in [Files -> Contents] /\ F \in Files /\ r \in Runs
  BY TypedSplit, EditSteps DEF DataTyped, UnderWay
<1>2. new.has = run[r].seen.has \cup {s} /\ new.text = "whole"
  BY EditedFacts
<1>3. disk'[F] = new /\ \A f \in Files \ {F} : disk'[f] = disk[f]
  BY <1>1
<1>4. \A q \in Runs \ {r} : ~Interrupts(q)
  BY DEF Serial, UnderWay, Interrupts, InPhase, Ended
<1>5. \A e \in Edits : Keeps(e) => e \in disk'[FileOf[e]].has
  <2> SUFFICES ASSUME NEW e \in Edits, Keeps(e) PROVE e \in disk'[FileOf[e]].has
    OBVIOUS
  <2>1. \/ e \in disk[FileOf[e]].has
        \/ Interrupts(r) /\ F = FileOf[e] /\ e \in run[r].seen.has
    BY <1>4 DEF Keeps
  <2>2. CASE FileOf[e] = F
    BY <1>2, <1>3, <2>1, <2>2, ContentsFacts
  <2>3. CASE FileOf[e] # F
    BY <1>3, <2>1, <2>3, EditSteps
  <2>4. QED
    BY <2>2, <2>3
<1>6. \A f \in Files : disk'[f].text = "whole"
  BY <1>2, <1>3, <1>4 DEF Serial, Interrupts
<1>7. s \in disk'[F].has
  BY <1>2, <1>3
<1>8. QED
  BY <1>5, <1>6, <1>7 DEF Keeps

\* The text is written back with all it had and the edit of the step.
LEMMA SerialFill ==
  ASSUME Typed, Serial, NEW r \in UnderWay, Fill(r)
  PROVE  Serial'
<1> DEFINE s == Step(r)
           F == FileOf[s]
           new == Edited(s, run[r].seen)
<1>1. /\ run \in [Runs -> RunType] /\ r \in Runs /\ Editing(r) /\ DataTyped
      /\ {"replace", "compile"} \subseteq Phases
  BY TypedSplit DEF DataTyped, UnderWay, Serial, Phases
<1>2. InPhase(r, "fill") /\ s \in Edits /\ F \in Files /\ run[r].seen \in Contents
  BY <1>1, EditSteps DEF Fill, InPhase, DataTyped, RunSound, RunType
<1>3. s # "A1" /\ s # "B"
  BY <1>2, EditSteps
<1>4. marker' = marker /\ b12x' = b12x /\ mode' = mode /\ odd' = odd
  BY DEF Fill, setup
<1>5. CASE Renames(s)
  <2>1. handle[r] = "tmp" /\ tmp[s] = Emptied /\ run[r].seen = disk[F]
    BY <1>1, <1>2, <1>5 DEF Editing
  <2>2. Holds(r) = Emptied
    BY <2>1 DEF Holds
  <2>3. Written(r, new)
    BY <2>2, ContentsFacts DEF Fill
  <2>4. disk' = disk /\ tmp'[s] = new
    BY <1>1, <1>2, <2>1, <2>3 DEF Written, DataTyped
  <2>5. ~Interrupts(r) /\ Enter(r, "replace")
    BY <1>5 DEF Fill, Interrupts, Renames
  <2>6. run'[r].phase = "replace" /\ run'[r].at = run[r].at
    BY <1>1, <2>5, EnterFacts
  <2>7. Editing(r)'
    BY <2>1, <2>4, <2>6 DEF Editing, InPhase, Step
  <2>8. /\ \A e \in Edits : Keeps(e) => Keeps(e)'
        /\ \A f \in Files : disk'[f].text = "whole"
    BY <2>4, <2>5, KeepsSame
  <2>9. QED
    BY <1>1, <1>4, <2>5, <2>7, <2>8, SerialEnter DEF Ended
<1>6. CASE ~Renames(s)
  <2>1. handle[r] = "path" /\ disk[F] = Emptied /\ run[r].seen.text = "whole"
    BY <1>1, <1>2, <1>6 DEF Editing
  <2>2. Holds(r) = Emptied
    BY <2>1 DEF Holds
  <2>3. Written(r, new)
    BY <2>2, ContentsFacts DEF Fill
  <2>4. disk' = [disk EXCEPT ![F] = new]
    BY <2>1, <2>3 DEF Written
  <2>5. Interrupts(r)
    BY <1>2, <1>6 DEF Interrupts, Renames
  <2>6. /\ \A e \in Edits : Keeps(e) => Keeps(e)'
        /\ \A e \in Edits : e = s => Keeps(e)'
        /\ \A f \in Files : disk'[f].text = "whole"
        /\ s \in disk'[F].has
    BY <1>2, <2>1, <2>4, <2>5, KeepsEdited
  <2>7. CASE Proceed(r)
    BY <1>3, <1>4, <2>6, <2>7, SerialProceed
  <2>8. CASE Enter(r, "compile")
    <3>1. run'[r].phase = "compile" /\ run'[r].at = run[r].at
      BY <1>1, <2>8, EnterFacts
    <3>2. Editing(r)'
      BY <1>2, <2>6, <3>1 DEF Editing, InPhase, Step
    <3>3. QED
      BY <1>1, <1>4, <2>6, <2>8, <3>2, SerialEnter
  <2>9. QED
    BY <1>6, <2>7, <2>8 DEF Fill
<1>7. QED
  BY <1>5, <1>6

\* A rename puts the text with the edit in place of the file.
LEMMA SerialReplace ==
  ASSUME Typed, Serial, NEW r \in UnderWay, Replace(r)
  PROVE  Serial'
<1> DEFINE s == Step(r)
           F == FileOf[s]
<1>1. /\ run \in [Runs -> RunType] /\ r \in Runs /\ Editing(r) /\ DataTyped
      /\ "compile" \in Phases
  BY TypedSplit DEF DataTyped, UnderWay, Serial, Phases
<1>2. InPhase(r, "replace") /\ ~Interrupts(r) /\ s \in Edits /\ F \in Files
  BY <1>1, EditSteps DEF Replace, InPhase, Interrupts, DataTyped, RunSound
<1>3. s # "A1" /\ s # "B"
  BY <1>2, EditSteps
<1>4. marker' = marker /\ b12x' = b12x /\ mode' = mode /\ odd' = odd
  BY DEF Replace, setup
<1>5. disk[F] \in Contents /\ disk[F].text = "whole"
  BY <1>1, <1>2, Calm DEF DataTyped
<1>6. tmp[s] = Edited(s, disk[F]) /\ tmp[s] # NoFile
  BY <1>1, <1>2, <1>5, EditedFacts, ContentsFacts DEF Editing
<1>7. disk' = [disk EXCEPT ![F] = Edited(s, disk[F])]
  BY <1>6 DEF Replace
<1>8. /\ \A e \in Edits : Keeps(e) => Keeps(e)'
      /\ \A f \in Files : disk'[f].text = "whole"
      /\ s \in disk'[F].has
  <2>1. Edited(s, disk[F]).has = disk[F].has \cup {s} /\ Edited(s, disk[F]).text = "whole"
    BY <1>2, <1>5, EditedFacts
  <2>2. disk'[F] = Edited(s, disk[F]) /\ \A f \in Files \ {F} : disk'[f] = disk[f]
    BY <1>1, <1>2, <1>7 DEF DataTyped
  <2>3. \A e \in Edits : e \in disk[FileOf[e]].has => e \in disk'[FileOf[e]].has
    BY <2>1, <2>2, EditSteps
  <2>4. \A e \in Edits : Keeps(e) => Keeps(e)'
    BY <1>2, <2>3, Calm DEF Keeps
  <2>5. \A f \in Files : disk'[f].text = "whole"
    BY <1>2, <2>1, <2>2, Calm
  <2>6. QED
    BY <2>1, <2>2, <2>4, <2>5
<1>9. CASE Proceed(r)
  <2>1. \A e \in Edits : e = s => Keeps(e)'
    BY <1>8 DEF Keeps
  <2>2. QED
    BY <1>3, <1>4, <1>8, <1>9, <2>1, SerialProceed
<1>10. CASE Enter(r, "compile")
  <2>1. run'[r].phase = "compile" /\ run'[r].at = run[r].at
    BY <1>1, <1>10, EnterFacts
  <2>2. Editing(r)'
    BY <1>2, <1>8, <2>1 DEF Editing, InPhase, Step
  <2>3. QED
    BY <1>1, <1>4, <1>8, <1>10, <2>2, SerialEnter
<1>11. QED
  BY <1>6, <1>9, <1>10 DEF Replace

\* Compiling changes nothing, and the edit is there.
LEMMA SerialCompile ==
  ASSUME Typed, Serial, NEW r \in UnderWay, Compile(r)
  PROVE  Serial'
<1>1. /\ r \in Runs /\ Editing(r) /\ Behind(r) /\ "failed" \in Phases
      /\ disk' = disk /\ InPhase(r, "compile") /\ ~Interrupts(r)
      /\ marker' = marker /\ b12x' = b12x /\ mode' = mode /\ odd' = odd
  BY DEF UnderWay, Serial, Phases, Ended, Compile, setup, Interrupts, InPhase
<1>2. /\ \A e \in Edits : Keeps(e) => Keeps(e)'
      /\ \A f \in Files : disk'[f].text = "whole"
  BY <1>1, KeepsSame
<1>3. CASE Proceed(r)
  <2>1. \A e \in Edits : e = Step(r) => Keeps(e)'
    BY <1>1 DEF Editing, Keeps
  <2>2. Step(r) \in Edits
    BY <1>1 DEF Editing
  <2>3. Step(r) # "A1" /\ Step(r) # "B"
    BY <2>2, EditSteps
  <2>4. QED
    BY <1>1, <1>2, <1>3, <2>1, <2>3, SerialProceed
<1>4. CASE Enter(r, "failed")
  BY <1>1, <1>2, <1>4, SerialEnter DEF Ended
<1>5. QED
  BY <1>3, <1>4 DEF Compile

\* A death that does not interrupt a write in place leaves the files as they are.
LEMMA SerialDie ==
  ASSUME Typed, Serial, Alone', NEW r \in UnderWay, Die(r)
  PROVE  Serial'
<1>1. ~Interrupts(r) /\ Enter(r, "failed") /\ r \in Runs /\ "failed" \in Phases
  BY DEF Die, Alone, UnderWay, Phases, Ended
<1>2. marker' = marker /\ b12x' = b12x /\ mode' = mode /\ odd' = odd
  BY DEF Die, setup
<1>3. disk' = disk
  <2>1. CASE UNCHANGED <<disk, tmp>>
    BY <2>1
  <2>2. CASE InPhase(r, "fill") /\ \E kept : Written(r, [has |-> kept, text |-> "cut"])
    <3>1. Editing(r) /\ DataTyped /\ Step(r) \in Edits
      BY <2>2, TypedSplit DEF Serial, DataTyped, RunSound, InPhase, UnderWay
    <3>2. Renames(Step(r))
      BY <1>1, <2>2, <3>1 DEF Interrupts, Renames
    <3>3. handle[r] = "tmp"
      BY <2>2, <3>1, <3>2 DEF Editing
    <3>4. QED
      BY <2>2, <3>3 DEF Written
  <2>3. QED
    BY <2>1, <2>2 DEF Die
<1>4. /\ \A e \in Edits : Keeps(e) => Keeps(e)'
      /\ \A f \in Files : disk'[f].text = "whole"
  BY <1>1, <1>3, KeepsSame
<1>5. QED
  BY <1>1, <1>2, <1>4, SerialEnter DEF Ended

\* No run is under way at the start, and every file is whole.
LEMMA SerialInit == Init => SerialInv
<1> SUFFICES ASSUME Init PROVE SerialInv
  OBVIOUS
<1>1. \A r \in Runs : run[r].phase = "idle" /\ run[r].at = 1
  BY DEF Init
<1>2. UnderWay = {} /\ \A r \in Runs : ~InPhase(r, "done") /\ ~InPhase(r, "foreign")
  BY <1>1 DEF UnderWay, InPhase
<1>3. \A f \in Files : disk[f].text = "whole"
  BY DEF Init, Pristine
<1>4. OneOdd
  BY DEF Init, OneOdd
<1>5. QED
  BY <1>1, <1>2, <1>3, <1>4 DEF SerialInv, Serial

\* As long as runs do not overlap and no DCP step dies in its write, Serial stays true.
LEMMA SerialStep == Typed /\ Rerouted /\ SerialInv /\ [Next]_vars => SerialInv'
<1> SUFFICES ASSUME Typed, Rerouted, SerialInv, [Next]_vars PROVE SerialInv'
  OBVIOUS
<1>1. CASE UNCHANGED vars
  <2>1. \A s : Keeps(s) => Keeps(s)'
    BY <1>1 DEF vars, Keeps, Interrupts, InPhase, Step
  <2>2. \A r \in Runs : /\ Editing(r) => Editing(r)'
                        /\ Behind(r) => Behind(r)'
    BY <1>1, <2>1 DEF vars, Editing, Behind, StepsBehind, InPhase, Step
  <2>3. UnderWay' = UnderWay /\ UnderWay \subseteq Runs
    BY <1>1 DEF vars, UnderWay
  <2>4. \A r \in Runs : Interrupts(r)' = Interrupts(r) /\ Step(r)' = Step(r)
    BY <1>1 DEF vars, Interrupts, InPhase, Step
  <2>5. Serial => Serial'
    BY <1>1, <2>2, <2>3, <2>4 DEF vars, Serial, InPhase
  <2>6. QED
    BY <1>1, <2>5 DEF vars, SerialInv, OneOdd, Alone
<1>2. ASSUME NEW r \in Runs, RunStep(r) PROVE SerialInv'
  <2>1. odd' = odd
    BY <1>2 DEF RunStep, Start, MakeMarker, Install, Probe, Read, Open, Fill, Replace,
                Compile, Die, setup
  <2>2. Alone' => Alone
    BY <1>2 DEF RunStep, Start, MakeMarker, Install, Probe, Read, Open, Fill, Replace,
                Compile, Die, past, Alone
  <2>3. ASSUME Alone' PROVE Serial'
    <3>1. Serial /\ OneOdd
      BY <2>2, <2>3 DEF SerialInv
    <3>2. CASE Start(r)
      BY <2>3, <3>1, <3>2, SerialStart
    <3>3. CASE ~Start(r)
      <4>1. r \in UnderWay
        BY <1>2, <3>3 DEF RunStep, MakeMarker, Install, Probe, Read, Open, Fill, Replace,
                          Compile, Die, InPhase, UnderWay, Ended
      <4>2. QED
        BY <1>2, <2>3, <3>1, <3>3, <4>1, SerialSetup, SerialRead, SerialOpen, SerialFill,
           SerialReplace, SerialCompile, SerialDie DEF RunStep
    <3>4. QED
      BY <3>2, <3>3
  <2>4. QED
    BY <2>1, <2>3 DEF SerialInv, OneOdd
<1>3. QED
  BY <1>1, <1>2 DEF Next

\* Serial holds for as long as that is so.
LEMMA SerialAlways == Spec => []SerialInv
<1>1. Typed /\ Rerouted /\ SerialInv /\ [Next]_vars => SerialInv'
  BY SerialStep
<1>2. Spec => [](Typed /\ Rerouted)
  BY TypedAlways, ReroutedInit, ReroutedStep, PTL DEF Spec
<1>3. QED
  BY <1>1, <1>2, SerialInit, PTL DEF Spec

\* When the script has exited with 0, and runs have not overlapped nor a DCP step died in
\* its write, every file of vLLM is whole and has every edit (ExitZeroIsPatched), however
\* often the script ran before and wherever it was killed.
THEOREM ExitZero == Spec => []ExitZeroIsPatched
<1>1. Typed /\ SerialInv => ExitZeroIsPatched
  <2> SUFFICES ASSUME Typed, SerialInv, UnderWay = {}, ~overlap, ~interrupted,
                      NEW r \in Runs, InPhase(r, "done")
               PROVE  Prepared /\ \A f \in Files : Patched(f)
    BY DEF ExitZeroIsPatched
  <2>1. Serial /\ Behind(r) /\ StepsBehind(r) = 11
    BY Steps DEF SerialInv, Alone, Serial, StepsBehind
  <2>2. Prepared
    BY <2>1 DEF Behind, Prepared
  <2>3. \A q \in Runs : ~Interrupts(q)
    BY DEF UnderWay, Interrupts, InPhase, Ended
  <2>4. \A s \in Edits : s \in disk[FileOf[s]].has
    <3> SUFFICES ASSUME NEW s \in Edits PROVE s \in disk[FileOf[s]].has
      OBVIOUS
    <3>1. Keeps(s)
      BY <2>1, EditPlace DEF Behind
    <3>2. QED
      BY <2>3, <3>1 DEF Keeps
  <2>5. ASSUME NEW f \in Files PROVE Patched(f)
    <3>1. disk[f].text = "whole" /\ disk[f] \in Contents /\ disk[f].has \subseteq EditsOf(f)
      BY <2>1, <2>3, TypedSplit DEF Serial, DataTyped
    <3>2. EditsOf(f) \subseteq disk[f].has
      BY <2>4 DEF EditsOf
    <3>3. disk[f].has = EditsOf(f)
      BY <3>1, <3>2
    <3>4. QED
      BY <3>1, <3>3 DEF Patched, Contents
  <2>6. QED
    BY <2>2, <2>5
<1>2. QED
  BY <1>1, TypedAlways, SerialAlways, PTL

\* The script can be run again: unless runs overlap or a DCP step died in its write, it
\* refuses a file only if the anchors of that step were never there (AbortsAreForeign).
THEOREM AbortsForeign == Spec => []AbortsAreForeign
<1>1. SerialInv => AbortsAreForeign
  BY DEF SerialInv, Serial, Alone, AbortsAreForeign
<1>2. QED
  BY <1>1, SerialAlways, PTL
=============================================================================
