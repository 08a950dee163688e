----------------------------- MODULE SourceTree -----------------------------
(***************************************************************************)
(* The build of the source tree, scripts/fetch-upstream.sh: a clone of     *)
(* Bitcoin Core is patched, renamed, checked, given the coin's own words   *)
(* and stamped, by one program after another, each of which rewrites the   *)
(* files in place.  A run may die at any step, also between the truncation *)
(* of a file and the writing of it, and the operator runs it again on what *)
(* is there, perhaps at another version, or begins from a new clone.       *)
(*                                                                         *)
(* A file is a bag of texts.  The copies the patcher keeps of what it      *)
(* overwrites are read by no program and are left out.                     *)
(***************************************************************************)
EXTENDS BuildSteps

CONSTANTS Drifts,    \* what upstream may have changed, [kind, file, text]
          MaxRuns    \* bound: runs of the script

VARIABLES tree,      \* the files, and what is in them
          hole,      \* a truncated file and what is to be written to it
          torn,      \* files that a run left truncated when it died
          at,        \* the item at hand; 0 when no run is under way
          dry,       \* the run is patch_upstream.py --check
          outcome,   \* of the last run
          stamp,     \* .wam-patched is there
          release,   \* index of the version of this repository
          runs, drift

vars == <<tree, hole, torn, at, dry, outcome, stamp, release, runs, drift>>

-----------------------------------------------------------------------------
Clone ==
  [file \in Files |->
     LET whole == SetToBag(Stock[file])
         one == SetToBag({drift.text} \cap BagToSet(whole))
     IN  CASE drift.file # file         -> whole
           [] drift.kind = "missing"    -> whole (-) one
           [] drift.kind = "twice"      -> whole (+) one
           [] OTHER                     -> EmptyBag]

Gone(file) == drift.kind = "gone" /\ drift.file = file

-----------------------------------------------------------------------------
Now == WorkLists[release][at]

Running(op) == at > 0 /\ hole = <<>> /\ Now.op = op

\* The release, the drift and the count change in few actions.
rest == <<dry, stamp, release, runs, drift>>

GoOn == /\ IF dry /\ at = PatcherEnds THEN at' = 0 /\ outcome' = "foretold"
                                      ELSE at' = at + 1 /\ UNCHANGED outcome
        /\ UNCHANGED rest

Skip == GoOn /\ UNCHANGED <<tree, hole, torn>>

Abort == /\ at' = 0 /\ outcome' = "aborted"
         /\ UNCHANGED <<tree, hole, torn>> /\ UNCHANGED rest

\* open(path, "w"): the file is empty until the text is written.
Truncate(file, content) ==
  /\ tree' = [tree EXCEPT ![file] = EmptyBag]
  /\ hole' = <<file, content>>
  /\ UNCHANGED <<torn, at, outcome>> /\ UNCHANGED rest

WriteOut ==
  /\ hole # <<>>
  /\ tree' = [tree EXCEPT ![hole[1]] = hole[2]]
  /\ hole' = <<>> /\ torn' = torn \ {hole[1]}
  /\ GoOn

-----------------------------------------------------------------------------
\* patch_upstream.py
Copied(file) == SetToBag({"WAM: " \o file})

CopyFile ==
  /\ Running("copy")
  /\ IF Gone(Now.what) THEN Abort
     ELSE IF dry THEN Skip
     ELSE Truncate(Now.what, Copied(Now.what))

\* A mutant: every edit is made on every run.
Done_Never(edit, src) == FALSE
Done(edit, src) == BagIn(edit.marker, src)
Unique(anchor, src) == CopiesIn(anchor, src) = 1

Transformed(edit, src) ==
  (IF edit.keeps THEN src ELSE src (-) SetToBag({edit.anchor} \cup edit.takes))
  (+) SetToBag(Inserted(edit))

apply_edit ==
  /\ Running("edit")
  /\ LET edit == Now.what
         src == tree[edit.file]
     IN  \/ Gone(edit.file) /\ edit.required /\ Abort
         \/ Gone(edit.file) /\ ~edit.required /\ Skip
         \/ ~Gone(edit.file) /\ Done(edit, src) /\ Skip
         \/ ~Gone(edit.file) /\ ~Done(edit, src) /\ ~Unique(edit.anchor, src) /\ Abort
         \/ ~Gone(edit.file) /\ ~Done(edit, src) /\ Unique(edit.anchor, src)
            /\ IF dry THEN Skip ELSE Truncate(edit.file, Transformed(edit, src))

-----------------------------------------------------------------------------
\* rename_binaries.py
NewName(text) ==
  IF text \in ToSet(PROGRAMS) THEN WAM_PROGRAMS[IndexFirstSubSeq(<<text>>, PROGRAMS)]
  ELSE IF text = "qt_bitcoin_qt_" THEN "qt_wam_qt_" ELSE text

RewriteFile(file, new) == IF new = tree[file] THEN Skip ELSE Truncate(file, new)

RenameMakefile == Running("makefile") /\ RewriteFile(Now.what, BagOfAll(NewName, tree[Now.what]))

RenameMessages == Running("messages") /\ RewriteFile(Now.what, BagOfAll(MessageText, tree[Now.what]))

\* Every copy of the old text; a file without it is a warning and no more.
SwapIn(swap, src) ==
  LET n == CopiesIn(swap.old, src)
  IN  IF n = 0 THEN src
      ELSE [t \in (BagToSet(src) \ {swap.old}) \cup {swap.new} |->
              CopiesIn(t, src) + IF t = swap.new THEN n ELSE 0]

apply_exact ==
  /\ Running("swap")
  /\ LET swap == Now.what IN
       IF BagIn(swap.new, tree[swap.file]) THEN Skip
       ELSE RewriteFile(swap.file, SwapIn(swap, tree[swap.file]))

apply_rc ==
  /\ Running("rc")
  /\ RewriteFile("*.rc", FoldLeft(LAMBDA src, swap : SwapIn(swap, src), tree["*.rc"], RC_EDITS))

StillNamed ==
  \/ \E p \in ToSet(PROGRAMS) : BagIn(p, tree[Makefile])
  \/ \E i \in DOMAIN EXACT : BagIn(EXACT[i].old, tree[EXACT[i].file])
  \/ \E f \in ConfWriters, t \in ConfTexts : BagIn(t, tree[f])

check == Running("check") /\ IF StillNamed THEN Abort ELSE Skip

-----------------------------------------------------------------------------
\* rebrand_qt.py, and the stamp
process_screen == Running("screen") /\ RewriteFile(Now.what, BagOfAll(rewrite, tree[Now.what]))

process_locale == Running("locale") /\ RewriteFile(Now.what, BagOfAll(process_ts, tree[Now.what]))

Stamp ==
  /\ Running("stamp")
  /\ stamp' = TRUE /\ at' = 0 /\ outcome' = "done"
  /\ UNCHANGED <<tree, hole, torn, dry, release, runs, drift>>

-----------------------------------------------------------------------------
\* The operator.
Start ==
  /\ at = 0 /\ runs < MaxRuns
  /\ dry' \in BOOLEAN
  /\ at' = 1 /\ runs' = runs + 1 /\ outcome' = "none"
  /\ UNCHANGED <<tree, hole, torn, stamp, release, drift>>

Die ==
  /\ at > 0
  /\ at' = 0 /\ hole' = <<>> /\ outcome' = "died"
  /\ torn' = IF hole = <<>> THEN torn ELSE torn \cup {hole[1]}
  /\ UNCHANGED tree /\ UNCHANGED rest

CloneAgain ==
  /\ at = 0 /\ runs \in 1 .. MaxRuns - 1 /\ outcome \in {"aborted", "died"}
  /\ tree' = Clone /\ torn' = {} /\ stamp' = FALSE /\ outcome' = "none"
  /\ UNCHANGED <<hole, at, dry, release, runs, drift>>

set_version ==
  /\ at = 0 /\ runs \in 1 .. MaxRuns - 1 /\ release < Len(Versions)
  /\ release' = release + 1 /\ outcome' = "none"
  /\ UNCHANGED <<tree, hole, torn, at, dry, stamp, runs, drift>>

Init ==
  /\ drift \in Drifts /\ release \in DOMAIN Versions
  /\ tree = Clone
  /\ hole = <<>> /\ torn = {} /\ at = 0 /\ dry = FALSE /\ outcome = "none" /\ stamp = FALSE
  /\ runs = 0

Next == \/ Start \/ Die \/ CloneAgain \/ set_version
        \/ CopyFile \/ apply_edit \/ WriteOut
        \/ RenameMakefile \/ RenameMessages \/ apply_exact \/ apply_rc \/ check
        \/ process_screen \/ process_locale \/ Stamp

Spec == Init /\ [][Next]_vars

-----------------------------------------------------------------------------
\* One version, of which the third number is the release's.
VersionIsOfRelease ==
  LET here == tree[VersionFile]
      of == {v \in ToSet(Versions) \cup {UPSTREAM} : v.build = Versions[release].build}
  IN  /\ BagToSet(here) \cap BuildLines = {BuildLine(Versions[release])}
      /\ \E v \in of : BagToSet(here) \cap SeriesLines = {SeriesLine(v)}
      /\ \A line \in SeriesLines \cup BuildLines : CopiesIn(line, here) <= 1

\* Files with nothing in them: a run died over them, or upstream has them no more.
Emptied == torn \cup {f \in Files : Gone(f)}

Respelled(file, old, new) ==
  /\ old = new \/ ~BagIn(old, tree[file])
  /\ BagIn(new, tree[file]) \/ file \in Emptied

Dropped(file, text) == drift = [kind |-> "missing", file |-> file, text |-> text]

\* A run that ends well leaves the changes whole, whatever upstream changed, however
\* often earlier runs died part-way and whichever version they were of: the files of this
\* repository are there; every patched file has each change once, and one version, whose
\* third number is the release's; and of what is renamed no old spelling is left and every
\* new one is there, but where upstream dropped the old one or a run died over the file.
FinishedIsWhole ==
  outcome = "done" =>
    /\ \A f \in ToSet(WAM_000.copies) : tree[f] = Copied(f)
    /\ \A f \in Patched : \A t \in DOMAIN Intended[f] : CopiesIn(t, tree[f]) = Intended[f][t]
    /\ VersionIsOfRelease
    /\ \A s \in SwapTable : Respelled(s.file, s.old, s.new) \/ Dropped(s.file, s.old)
    /\ \A f \in ToSet(MESSAGE_FILES), t \in Messages : Respelled(f, t, MessageText(t))
    /\ \A i \in DOMAIN PROGRAMS : Respelled(Makefile, PROGRAMS[i], WAM_PROGRAMS[i])
    /\ Respelled(QtMakefile, "qt_bitcoin_qt_", "qt_wam_qt_")
    /\ KeptSources \subseteq BagToSet(tree[Makefile])

\* After a run that ends well no screen of the wallet names the other coin, the keys of its
\* translations are words of its screens, and no translation of a string that names this
\* coin names the other one and not this, in any script.  A form over which a run died has
\* no words.
KeysInStep ==
  outcome = "done" =>
    /\ \A s \in ToSet(SCREENS) : ~BagIn("Bitcoin", tree[s])
    /\ \A f \in ToSet(LOCALES) : \A m \in BagToSet(tree[f]) :
         /\ \A s \in ToSet(SCREENS) \ Emptied : BagIn(m[1], tree[s])
         /\ m[1] = "WAM" => "WAM" \in m[2] \/ ~still_named(m[2])

-----------------------------------------------------------------------------
\* docs/BUILD.md: to see "exactly what will be changed before anything is
\* written", --check.  On a fresh clone it aborts: an edit whose anchor an
\* earlier edit inserts does not find it in the file that was not written: see
\* section 5 of the README.
CheckForetells ==
  dry /\ outcome = "aborted" => drift.kind # "none" \/ tree # Clone

\* patch_upstream.py:875, "A marker must describe what the edit produces, not the family it
\* belongs to."  A release X.Y.0 on a tree of upstream, and one whose third number is that of
\* the release before, are taken for applied.  It does not hold: see section 5 of the README.
VersionIsTheRelease ==
  outcome = "done" => BagIn(SeriesLine(Versions[release]), tree[VersionFile])

\* fetch-upstream.sh:311, "so a partial rename cannot pass silently".  What is looked for
\* are the old names, and an emptied file has none.  It does not hold: see section 5 of the
\* README.
EverySwapIsMade ==
  outcome = "done" => \A swap \in SwapTable : BagIn(swap.new, tree[swap.file])
=============================================================================
