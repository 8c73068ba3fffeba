----------------------------- MODULE PatchScripts -----------------------------
(***************************************************************************)
(* The scripts that rewrite vLLM's sources in a container before it serves *)
(* (8node-nvfp4/glm52-sparse-patches.sh with glm52-dcp-patches.sh appended *)
(* by build-dcp-patch.sh).  Each step looks in a file for its sentinel and *)
(* skips, looks for its anchors and gives up, or writes the file back: the *)
(* steps of the base script into a temporary file that is renamed, those   *)
(* of the DCP script in place.                                             *)
(*                                                                         *)
(* The launcher runs the script in a container it has just created.  Two   *)
(* launches at a time (ClusterOps) run it twice in the same container, and *)
(* it says of itself that it can be run again; a run may die anywhere.     *)
(***************************************************************************)
EXTENDS Integers, Sequences, FiniteSets

CONSTANTS Runs,     \* executions of the script in the container
          MaxFaults \* bound on the runs that are killed or cannot write

ASSUME RunsAssumption == IsFiniteSet(Runs) /\ MaxFaults \in Nat

\* The steps in their order.  "A1" makes the package marker and "B" installs b12x;
\* the others edit a file.
Script == <<"A1", "A2", "A3", "A4", "B", "C", "DA", "DBi", "DBs", "DCi", "DCs">>

FileOf == [A2 |-> "deep_gemm", A3 |-> "sai", A4 |-> "sai", C |-> "nvfp4", DA |-> "mla_attention",
           DBi |-> "indexer", DBs |-> "sai", DCi |-> "indexer", DCs |-> "sai"]

Edits      == DOMAIN FileOf
Files      == {FileOf[s] : s \in Edits}
DcpSteps   == {"DA", "DBi", "DBs", "DCi", "DCs"}
EditsOf(f) == {s \in Edits : FileOf[s] = f}

\* What a file holds: the steps whose sentinel is found in it, and whether the text
\* is all there ("cut": some of it; "empty": opened and not written yet).
Pristine == [has |-> {}, text |-> "whole"]
Emptied  == [has |-> {}, text |-> "empty"]
NoFile   == [has |-> {}, text |-> "none"]
Contents == [has : SUBSET Edits, text : {"whole", "cut", "empty"}]

VARIABLES
  disk,        \* each file of vLLM
  tmp,         \* the temporary file of each step that renames one
  run,         \* each run: [at, phase, seen], its step, where in it, and what it read
  handle,      \* what its open file is now: "none", "tmp", "path" or "orphan"
  marker,      \* deepseek_v4_ops/__init__.py is there
  b12x,        \* b12x is installed
  mode,        \* GLM52_CUDAGRAPH_MODE in glm52-b12x.env
  odd,         \* the steps whose anchors are not in this build of vLLM
  overlap,     \* two runs were under way at a time
  interrupted, \* a DCP step died between opening its file and closing it
  faults

vars == <<disk, tmp, run, handle, marker, b12x, mode, odd, overlap, interrupted, faults>>

Ended     == {"done", "failed", "foreign"}
Phases    == {"idle", "read", "open", "fill", "replace", "compile", "probe"} \cup Ended
UnderWay  == {r \in Runs : run[r].phase \notin Ended \cup {"idle"}}
Step(r)   == Script[run[r].at]
InPhase(r, p) == run[r].phase = p

Init ==
  /\ disk = [f \in Files |-> Pristine]
  /\ tmp = [s \in Edits |-> NoFile]
  /\ run = [r \in Runs |-> [at |-> 1, phase |-> "idle", seen |-> Pristine]]
  /\ handle = [r \in Runs |-> "none"]
  /\ marker = FALSE /\ b12x = FALSE /\ mode = "none"
  /\ odd \in {{}} \cup {{s} : s \in Edits}
  /\ overlap = FALSE /\ interrupted = FALSE /\ faults = 0

setup == <<marker, b12x, mode, odd>>
past  == <<overlap, interrupted, faults>>

-----------------------------------------------------------------------------
(* Sentinels, anchors and what a step writes.                              *)

Enter(r, p) == run' = [run EXCEPT ![r].phase = p]

\* The step after this one, or the end with status 0.
Proceed(r) ==
  run' = [run EXCEPT ![r] = IF @.at = Len(Script)
                              THEN [@ EXCEPT !.phase = "done", !.seen = Pristine]
                              ELSE [at |-> @.at + 1, phase |-> "read", seen |-> Pristine]]

\* A3 compiles its own file and that of A2, patched or not; so does each item of the
\* DCP script with its two files.  A4 and C compile what they have written.
CompilesAlways(s)  == s \in {"A3", "DBs", "DCs"}
CompilesWritten(s) == s \in {"A3", "A4", "C", "DBs", "DCs"}
Compiled(s) == CASE s = "A3" -> {"deep_gemm", "sai"}
                 [] s \in {"DBs", "DCs"} -> {"indexer", "sai"}
                 [] OTHER -> {FileOf[s]}

\* Mutant: DBs does without its third anchor.
AnchoredNoR3(s, c) == s \notin odd /\ (s = "A4" => "DBs" \notin c.has)

\* R3, the third anchor of DBs, is the text A4 puts in, and DBs rewrites the gate
\* that is A4's anchor.
Anchored(s, c) ==
  /\ s \notin odd
  /\ s = "DBs" => "A4" \in c.has
  /\ s = "A4" => "DBs" \notin c.has

\* Mutant: the text DBs puts in place of A4's gate lacks A4's sentinel.
EditedNoReroute(s, c) ==
  [c EXCEPT !.has = (IF s = "DBs" THEN @ \ {"A4"} ELSE @) \cup {s}]

Edited(s, c) == [c EXCEPT !.has = @ \cup {s}]

\* Mutant: every step writes in place.
RenamesNever(s) == FALSE

Renames(s) == s \notin DcpSteps

-----------------------------------------------------------------------------
(* The steps that edit no file of vLLM.                                    *)

\* docker exec runs the script.
Start(r) ==
  /\ InPhase(r, "idle")
  /\ Enter(r, "read")
  /\ overlap' = (overlap \/ UnderWay # {})
  /\ UNCHANGED <<disk, tmp, handle, setup, interrupted, faults>>

MakeMarker(r) ==
  /\ InPhase(r, "read") /\ Step(r) = "A1"
  /\ marker' = TRUE
  /\ Proceed(r)
  /\ UNCHANGED <<disk, tmp, handle, b12x, mode, odd, past>>

\* pip, unless the version is there; set -e ends the script when both sources fail.
Install(r) ==
  /\ InPhase(r, "read") /\ Step(r) = "B"
  /\ \/ /\ b12x' = TRUE
        /\ Enter(r, "probe")
        /\ UNCHANGED faults
     \/ /\ ~b12x /\ faults < MaxFaults
        /\ faults' = faults + 1
        /\ Enter(r, "failed")
        /\ UNCHANGED b12x
  /\ UNCHANGED <<disk, tmp, handle, marker, mode, odd, overlap, interrupted>>

\* Whether the decode modules can be imported is up to the wheel.
Probe(r) ==
  /\ InPhase(r, "probe")
  /\ mode' \in {"FULL", "PIECEWISE"}
  /\ Proceed(r)
  /\ UNCHANGED <<disk, tmp, handle, marker, b12x, odd, past>>

-----------------------------------------------------------------------------
(* A step that edits a file.                                               *)

\* The file is read, then its sentinel and its anchors are looked for.  What is left
\* of a file that was cut may hold the anchors or not.
Read(r) ==
  LET s == Step(r)
      c == disk[FileOf[s]]
  IN /\ InPhase(r, "read") /\ s \in Edits
     /\ \/ /\ s \in c.has
           /\ IF CompilesAlways(s) THEN Enter(r, "compile") ELSE Proceed(r)
        \/ /\ s \notin c.has /\ c.text # "empty" /\ Anchored(s, c)
           /\ run' = [run EXCEPT ![r].phase = "open", ![r].seen = c]
        \/ /\ s \notin c.has /\ (c.text # "whole" \/ ~Anchored(s, c))
           /\ Enter(r, "foreign")
     /\ UNCHANGED <<disk, tmp, handle, setup, past>>

\* open(..., "w") creates or empties the temporary file or the file itself.
Open(r) ==
  LET s == Step(r)
  IN /\ InPhase(r, "open")
     /\ IF Renames(s)
          THEN /\ tmp' = [tmp EXCEPT ![s] = Emptied]
               /\ handle' = [handle EXCEPT ![r] = "tmp"]
               /\ UNCHANGED disk
          ELSE /\ disk' = [disk EXCEPT ![FileOf[s]] = Emptied]
               /\ handle' = [handle EXCEPT ![r] = "path"]
               /\ UNCHANGED tmp
     /\ Enter(r, "fill")
     /\ UNCHANGED <<setup, past>>

\* The file r has open comes to hold c.
Written(r, c) ==
  /\ tmp'  = IF handle[r] = "tmp" THEN [tmp EXCEPT ![Step(r)] = c] ELSE tmp
  /\ disk' = IF handle[r] = "path" THEN [disk EXCEPT ![FileOf[Step(r)]] = c] ELSE disk
  /\ handle' = [handle EXCEPT ![r] = "none"]

\* What the file r has open holds so far, which another run may have written.
Holds(r) == CASE handle[r] = "tmp"    -> tmp[Step(r)]
              [] handle[r] = "path"   -> disk[FileOf[Step(r)]]
              [] handle[r] = "orphan" -> Emptied

\* Writing starts at the beginning of the file: a longer text leaves its end there.
Fill(r) ==
  LET new == Edited(Step(r), run[r].seen)
  IN /\ InPhase(r, "fill")
     /\ \/ Holds(r).has \subseteq new.has /\ Written(r, new)
        \/ /\ ~(Holds(r).has \subseteq new.has)
           /\ \E rest \in SUBSET Holds(r).has :
                Written(r, [has |-> new.has \cup rest, text |-> "cut"])
     /\ IF Renames(Step(r)) THEN Enter(r, "replace")
        ELSE IF CompilesWritten(Step(r)) THEN Enter(r, "compile") ELSE Proceed(r)
     /\ UNCHANGED <<setup, past>>

\* Mutant: a file that is open stays with its name.
AdriftNever(q, r) == handle[q]

\* What becomes of the file q has open when r renames: one that was renamed goes on as
\* the file itself, one that was replaced is gone.
Adrift(q, r) ==
  IF handle[q] = "tmp" /\ Step(q) = Step(r) THEN "path"
  ELSE IF handle[q] = "path" /\ FileOf[Step(q)] = FileOf[Step(r)] THEN "orphan"
  ELSE handle[q]

\* os.replace; the temporary file is gone if another run has renamed it.
Replace(r) ==
  LET s == Step(r)
  IN /\ InPhase(r, "replace")
     /\ IF tmp[s] = NoFile
          THEN Enter(r, "failed") /\ UNCHANGED <<disk, tmp, handle>>
          ELSE /\ disk' = [disk EXCEPT ![FileOf[s]] = tmp[s]]
               /\ tmp' = [tmp EXCEPT ![s] = NoFile]
               /\ handle' = [q \in Runs |-> Adrift(q, r)]
               /\ IF CompilesWritten(s) THEN Enter(r, "compile") ELSE Proceed(r)
     /\ UNCHANGED <<setup, past>>

\* py_compile with doraise: it takes an empty file, and a cut one by chance.
Compile(r) ==
  /\ InPhase(r, "compile")
  /\ \/ Proceed(r)
     \/ /\ \E f \in Compiled(Step(r)) : disk[f].text = "cut"
        /\ Enter(r, "failed")
  /\ UNCHANGED <<disk, tmp, handle, setup, past>>

-----------------------------------------------------------------------------
(* Failures.                                                               *)

Interrupts(r) == InPhase(r, "fill") /\ Step(r) \in DcpSteps

\* The run is killed, or its write fails after the part that is kept.
Die(r) ==
  /\ r \in UnderWay /\ faults < MaxFaults
  /\ faults' = faults + 1
  /\ Enter(r, "failed")
  /\ interrupted' = (interrupted \/ Interrupts(r))
  /\ \/ /\ handle' = [handle EXCEPT ![r] = "none"]
        /\ UNCHANGED <<disk, tmp>>
     \/ /\ InPhase(r, "fill")
        /\ \E kept \in SUBSET Edited(Step(r), run[r].seen).has :
             Written(r, [has |-> kept, text |-> "cut"])
  /\ UNCHANGED <<setup, overlap>>

RunStep(r) ==
  \/ Start(r) \/ MakeMarker(r) \/ Install(r) \/ Probe(r)
  \/ Read(r) \/ Open(r) \/ Fill(r) \/ Replace(r) \/ Compile(r)
  \/ Die(r)

Next == \E r \in Runs : RunStep(r)

Spec == Init /\ [][Next]_vars

-----------------------------------------------------------------------------
(* Properties.                                                             *)

\* Every variable has its type.  A file that a run has open under the name of a
\* temporary file is there under that name, whoever renames it in the meantime, and
\* a file holds only the edits meant for it.
TypeOK ==
  /\ disk \in [Files -> Contents]
  /\ \A f \in Files : disk[f].has \subseteq EditsOf(f)
  /\ tmp \in [Edits -> Contents \cup {NoFile}]
  /\ run \in [Runs -> [at : 1 .. Len(Script), phase : Phases, seen : Contents]]
  /\ \A r \in Runs : /\ handle[r] \in {"none", "tmp", "path", "orphan"}
                     /\ handle[r] # "none" <=> InPhase(r, "fill")
                     /\ handle[r] = "tmp" => tmp[Step(r)] # NoFile
  /\ marker \in BOOLEAN /\ b12x \in BOOLEAN /\ mode \in {"none", "FULL", "PIECEWISE"}
  /\ odd \subseteq Edits /\ overlap \in BOOLEAN /\ interrupted \in BOOLEAN
  /\ faults \in 0 .. MaxFaults

Prepared == marker /\ b12x /\ mode # "none"

Patched(f) == disk[f] = [has |-> EditsOf(f), text |-> "whole"]

\* The launcher serves when the script exits with 0 (start_glm52_8node.sh:354).  Then
\* every file is whole and has every edit: a run makes up for whatever an earlier one
\* left behind, except a DCP step that died in the middle of its write.
ExitZeroIsPatched ==
  /\ UnderWay = {} /\ ~overlap /\ ~interrupted
  /\ \E r \in Runs : InPhase(r, "done")
  => Prepared /\ \A f \in Files : Patched(f)

\* Two racing launches run the script twice at the same time, and a write of one may
\* take back edits of the other.  Even so no whole file has the exact top-k of the DCP
\* script without the reroute of the base script under it, whose decode path it
\* replaces (PERF2-DECODE-SPEC.md:54: "verify ordering"): the third anchor is what
\* keeps the order, whoever else writes.
RerouteUnderTopK ==
  disk["sai"].text = "whole" /\ "DBs" \in disk["sai"].has => "A4" \in disk["sai"].has

\* The script can be run again ("Idempotent", glm52-sparse-patches.sh:29): unless runs
\* overlap or a DCP step died writing, it refuses a file only if that file's anchors
\* were never there.  The edits of one step never hide another's sentinel or anchors.
AbortsAreForeign ==
  ~overlap /\ ~interrupted => \A r \in Runs : InPhase(r, "foreign") => odd = {Step(r)}
=============================================================================
