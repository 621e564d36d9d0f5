----------------------------- MODULE HotReload -----------------------------
(***************************************************************************)
(* LiveParameters, LiveModel and LivePostprocess (src/nvidia_pipe/cli.py): *)
(* each watches a file that is edited while the pipeline runs, by its      *)
(* revision, and loads it again when refresh() finds another one.          *)
(*                                                                         *)
(* A save that takes several writes is several revisions, those in between *)
(* whole or broken as the loader sees them. What is in use is named by the *)
(* revision it was read from. A revision, the time and the size of the     *)
(* file, is taken never to come back.                                      *)
(***************************************************************************)
EXTENDS Naturals

CONSTANTS
  Files,        \* the files that are watched
  Checked       \* those whose revision is compared again after the load

ASSUME ReloadAssumption == Checked \subseteq Files

VARIABLES
  file,   \* the file: its last revision, and what a load of it meets
  live    \* the object that watches it, and where a call of refresh() is

reloadVars == <<file, live>>

Texts == {"whole", "broken", "missing"}

Gone == 0                         \* _revision() when stat() fails: None
Revisions == Nat \ {0}
Revision(f) == IF file[f].text = "missing" THEN Gone ELSE file[f].rev

FileType == [rev : Revisions, text : Texts]

\* active: the revision in use; seen: _observed_revision, and first what it was
\* when the constructor returned; read: the candidate a load has produced.
LiveType ==
  [pc : {"unloaded", "loaded first", "idle", "changed", "loaded"},
   active : Revisions \cup {Gone}, seen : Revisions \cup {Gone},
   first : Revisions \cup {Gone}, read : Revisions \cup {Gone}]

ReloadTypeOK == file \in [Files -> FileType] /\ live \in [Files -> LiveType]

Unloaded == [pc |-> "unloaded", active |-> Gone, seen |-> Gone, first |-> Gone, read |-> Gone]

ReloadInit ==
  /\ file = [f \in Files |-> [rev |-> 1, text |-> "whole"]]
  /\ live = [f \in Files |-> Unloaded]

\* The operator: a write, a removal, a file put back.
Save(f) ==
  /\ \E t \in Texts : file' = [file EXCEPT ![f] = [rev |-> @.rev + 1, text |-> t]]
  /\ UNCHANGED live

-----------------------------------------------------------------------------
(***************************************************************************)
(* The start: run_pipeline loads the file, and constructs the object with  *)
(* what it has loaded; the constructor then takes the revision.            *)
(***************************************************************************)
LoadFirst(f) ==
  /\ live[f].pc = "unloaded" /\ file[f].text = "whole"
  /\ live' = [live EXCEPT ![f].pc = "loaded first", ![f].active = file[f].rev]
  /\ UNCHANGED file

Construct(f) ==
  /\ live[f].pc = "loaded first"
  /\ live' = [live EXCEPT ![f].pc = "idle", ![f].seen = Revision(f), ![f].first = Revision(f)]
  /\ UNCHANGED file

-----------------------------------------------------------------------------
(***************************************************************************)
(* refresh(). It has returned when the object is idle.                     *)
(***************************************************************************)
Idle(f) == live[f].pc = "idle"

FindsUnchanged(f) ==
  /\ Idle(f) /\ Revision(f) = live[f].seen
  /\ UNCHANGED reloadVars

FindsChange(f) ==
  /\ Idle(f) /\ Revision(f) # live[f].seen
  /\ live' = [live EXCEPT ![f].pc = "changed", ![f].seen = Revision(f)]
  /\ UNCHANGED file

\* An exception leaves what is in use as it is.
Load(f) ==
  /\ live[f].pc = "changed"
  /\ live' = [live EXCEPT ![f] =
       IF file[f].text = "whole" THEN [@ EXCEPT !.pc = "loaded", !.read = file[f].rev]
                                 ELSE [@ EXCEPT !.pc = "idle"]]
  /\ UNCHANGED file

\* Mutant: the revision is noted once more, when the load is done.
AdoptNoting(f) ==
  /\ live[f].pc = "loaded"
  /\ live' = [live EXCEPT ![f] = [@ EXCEPT !.pc = "idle", !.active = live[f].read, !.read = Gone, !.seen = Revision(f)]]
  /\ UNCHANGED file

\* Mutant: what was loaded is used although the file has changed since.
AdoptUnchecked(f) ==
  /\ live[f].pc = "loaded"
  /\ live' = [live EXCEPT ![f] = [@ EXCEPT !.pc = "idle", !.active = live[f].read, !.read = Gone]]
  /\ UNCHANGED file

Adopt(f) ==
  /\ live[f].pc = "loaded"
  /\ live' = [live EXCEPT ![f] =
       [@ EXCEPT !.pc = "idle", !.read = Gone,
                 !.active = IF f \in Checked /\ Revision(f) # live[f].seen THEN live[f].active ELSE live[f].read]]
  /\ UNCHANGED file

Refresh(f) == FindsUnchanged(f) \/ FindsChange(f) \/ Load(f) \/ Adopt(f)

-----------------------------------------------------------------------------

Settled(f) == Idle(f) /\ live[f].seen = file[f].rev /\ file[f].text = "whole"

\* refresh() (cli.py:157, 193, 232) against an editor that writes at any point of it.
\* Once it has taken note of a revision that loads, it does not rest until that revision
\* is in use; a file that has not been saved since the start is exempt. And a module in
\* use is never newer than the revision noted for it (cli.py:203, 239): the next refresh()
\* would find that one a change, and execute the same source again.
InUseAsNoted ==
  /\ \A f \in Files : Settled(f) /\ live[f].seen # live[f].first => live[f].active = file[f].rev
  /\ \A f \in Checked : Idle(f) /\ live[f].seen # Gone => live[f].active <= live[f].seen

=============================================================================
