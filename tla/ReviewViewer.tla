------------------------------ MODULE ReviewViewer ------------------------------
(***************************************************************************)
(* /delegate review-ui: the picker over a plan's workers and the viewer of *)
(* one worker's patch.  The viewer is a reducer over the detail it read;   *)
(* `v' validates the worker again and then reads the detail again, two     *)
(* awaits during which keys, another `v', a resize, a new run of the       *)
(* worker or the end of the process come in.                               *)
(***************************************************************************)
EXTENDS Integers, FiniteSets, FiniteSetsExt

CONSTANTS MaxRuns, MaxRows

VARIABLES
    screen,     \* "none", the two screens, between them, and how it ended
    terminal,   \* raw mode, alternate screen, our keypress listener
    height,     \* rows of the diff that fit
    disk,       \* the worker's artifacts: the run they are of, and its files
    view,       \* ReviewState
    verifies,   \* the `v's under way, each with the run its verdict is about
    stray       \* a frame was written to the normal screen

reviewVars == <<screen, terminal, height, disk, view, verifies, stray>>

Slots    == {1, 2}
Heights  == {1, 2}
Normal   == [raw |-> FALSE, alt |-> FALSE, keys |-> FALSE]
Owned    == [raw |-> TRUE, alt |-> TRUE, keys |-> TRUE]
Idle     == [stage |-> "idle", of |-> 0]
NoBanner == [up |-> FALSE, of |-> 0]

\* File number f of a patch has f + 1 rows, up to a bound.
Rows(f) == Min({f + 2, MaxRows})

TypeOK ==
    /\ screen \in {"none", "picker", "opening", "viewer", "left", "signalled"}
    /\ terminal \in [raw : BOOLEAN, alt : BOOLEAN, keys : BOOLEAN] /\ height \in Heights
    /\ disk \in [run : 1..MaxRuns, files : 0..2, plan : BOOLEAN]
    /\ view.run \in 0..MaxRuns /\ view.files \in 0..2 /\ view.selected \in -1..1 /\ view.scroll \in Nat
    /\ view.busy \in BOOLEAN /\ view.banner \in [up : BOOLEAN, of : 0..MaxRuns]
    /\ verifies \in [Slots -> [stage : {"idle", "validating", "loading"}, of : 0..MaxRuns]]
    /\ stray \in BOOLEAN

NoView == [run |-> 0, files |-> 0, selected |-> 0, scroll |-> 0, busy |-> FALSE, banner |-> NoBanner, empty |-> FALSE]

Init ==
    /\ screen = "none" /\ terminal = Normal /\ height \in Heights
    /\ disk \in [run : {1}, files : 0..2, plan : {TRUE}]
    /\ view = NoView /\ verifies = [v \in Slots |-> Idle] /\ stray = FALSE

-----------------------------------------------------------------------------
(* The two screens *)

Restored == terminal = Normal

\* Mutated form of Redraw: a late result draws all the same.
RedrawAlways == stray' = (stray \/ ~terminal'.alt)

\* redraw: nothing once the terminal is restored.
Redraw == stray' = (stray \/ (~Restored /\ ~terminal'.alt))

\* getWorkerReviewDetail: null without the plan; a patch that is not there, or
\* has no header, is a preview without a file.
InitReviewState == [NoView EXCEPT !.run = disk.run, !.files = disk.files, !.empty = disk.files = 0]

Open ==
    /\ screen \in {"none", "opening"}
    /\ IF disk.plan THEN screen' = "viewer" /\ terminal' = Owned /\ view' = InitReviewState
                    ELSE screen' = "left" /\ UNCHANGED <<terminal, view>>
    /\ UNCHANGED <<height, disk, verifies, stray>>

\* Two workers or more; the only one of a plan is opened at once.
OpenPicker ==
    /\ screen = "none" /\ disk.plan
    /\ screen' = "picker" /\ terminal' = Owned
    /\ UNCHANGED <<height, disk, view, verifies, stray>>

\* Enter restores the terminal and then reads the chosen worker's detail.
PickerKey ==
    /\ screen = "picker"
    /\ screen' \in {"opening", "left"} /\ terminal' = Normal
    /\ UNCHANGED <<height, disk, view, verifies, stray>>

-----------------------------------------------------------------------------
(* Keys of the viewer *)

Shown     == IF view.selected \in 0..(view.files - 1) THEN Rows(view.selected) ELSE 0
MaxScroll == Max({0, Shown - height})
Clamp(n)  == Max({0, Min({MaxScroll, n})})

Moves == {"up", "down", "top", "bottom", "next", "prev"}

\* reduceReview.
Reduce(move) ==
    CASE move = "up"     -> [view EXCEPT !.scroll = Clamp(view.scroll - 1)]
      [] move = "down"   -> [view EXCEPT !.scroll = Clamp(view.scroll + 1)]
      [] move = "top"    -> [view EXCEPT !.scroll = 0]
      [] move = "bottom" -> [view EXCEPT !.scroll = MaxScroll]
      [] move = "next"   -> [view EXCEPT !.selected = Min({view.files - 1, view.selected + 1}), !.scroll = 0]
      [] move = "prev"   -> [view EXCEPT !.selected = Max({0, view.selected - 1}), !.scroll = 0]

\* Any key takes a banner away; otherwise it moves, opens the path of the
\* worktree in a banner, or is one of the two below.
ViewerKey ==
    /\ screen = "viewer"
    /\ \/ view.banner.up /\ view' = [view EXCEPT !.banner = NoBanner]
       \/ ~view.banner.up /\ \E move \in Moves : view' = Reduce(move)
       \/ ~view.banner.up /\ view' = [view EXCEPT !.banner = [up |-> TRUE, of |-> 0], !.busy = FALSE]
    /\ UNCHANGED <<screen, terminal, height, disk, verifies>> /\ Redraw

\* Mutated form of Leave: the listener is removed and the alternate screen stays.
LeaveUntidy ==
    /\ screen = "viewer"
    /\ screen' = "left" /\ terminal' = [Normal EXCEPT !.alt = TRUE]
    /\ UNCHANGED <<height, disk, view, verifies, stray>>

\* q and escape without a banner, ctrl-c in any case.
Leave ==
    /\ screen = "viewer"
    /\ screen' = "left" /\ terminal' = Normal
    /\ UNCHANGED <<height, disk, view, verifies, stray>>

\* SIGTERM: the terminal is restored; the listener has replaced what would have
\* ended the process, and the viewer's promise is not resolved.
Terminated ==
    /\ screen \in {"picker", "viewer"}
    /\ screen' = "signalled" /\ terminal' = Normal
    /\ UNCHANGED <<height, disk, view, verifies, stray>>

Resize ==
    /\ screen = "viewer" /\ height' \in Heights \ {height}
    /\ UNCHANGED <<screen, terminal, disk, view, verifies>> /\ Redraw

-----------------------------------------------------------------------------
(* Verifying again *)

\* `v', also while another is under way.
StartVerify ==
    \E v \in Slots :
        /\ screen = "viewer" /\ ~view.banner.up /\ verifies[v] = Idle
        /\ verifies' = [verifies EXCEPT ![v] = [stage |-> "validating", of |-> 0]]
        /\ view' = [view EXCEPT !.busy = TRUE]
        /\ UNCHANGED <<screen, terminal, height, disk>> /\ Redraw

\* loadAndValidateWorker has its verdict.
Validated ==
    \E v \in Slots :
        /\ verifies[v].stage = "validating" /\ disk.plan
        /\ verifies' = [verifies EXCEPT ![v] = [stage |-> "loading", of |-> disk.run]]
        /\ UNCHANGED <<screen, terminal, height, disk, view, stray>>

\* Mutated form of RefreshDetail: the reader stays where he was.
RefreshInPlace(st) ==
    [st EXCEPT !.run = disk.run, !.files = disk.files,
               !.selected = Min({st.selected, Max({0, disk.files - 1})}),
               !.empty = @ \/ disk.files = 0]

\* refreshDetail: the selection is clamped from above only.
RefreshDetail(st) ==
    [st EXCEPT !.run = disk.run, !.files = disk.files,
               !.selected = Min({st.selected, Max({0, disk.files - 1})}), !.scroll = 0,
               !.empty = @ \/ disk.files = 0]

\* Mutated form of Loaded: the detail is read again only when it is of another run.
LoadedBanner ==
    \E v \in Slots :
        /\ verifies[v].stage = "loading"
        /\ verifies' = [verifies EXCEPT ![v] = Idle]
        /\ view' = [view EXCEPT !.banner = [up |-> TRUE, of |-> verifies[v].of], !.busy = FALSE]
        /\ UNCHANGED <<screen, terminal, height, disk>> /\ Redraw

\* The detail is read again, if the plan is still there, and the verdict shown.
Loaded ==
    \E v \in Slots :
        /\ verifies[v].stage = "loading"
        /\ verifies' = [verifies EXCEPT ![v] = Idle]
        /\ view' = [(IF disk.plan THEN RefreshDetail(view) ELSE view)
                        EXCEPT !.banner = [up |-> TRUE, of |-> verifies[v].of], !.busy = FALSE]
        /\ UNCHANGED <<screen, terminal, height, disk>> /\ Redraw

\* Mutated form of VerifyFails: the error is not caught.
VerifyThrows ==
    \E v \in Slots :
        /\ verifies[v].stage = "validating"
        /\ verifies' = [verifies EXCEPT ![v] = Idle]
        /\ UNCHANGED <<screen, terminal, height, disk, view, stray>>

\* Validation throws, on a plan that is gone or for any other reason.
VerifyFails ==
    \E v \in Slots :
        /\ verifies[v].stage = "validating"
        /\ verifies' = [verifies EXCEPT ![v] = Idle]
        /\ view' = [view EXCEPT !.banner = [up |-> TRUE, of |-> 0], !.busy = FALSE]
        /\ UNCHANGED <<screen, terminal, height, disk>> /\ Redraw

\* The worker runs again, or its plan is removed, by someone else.
DiskChanges ==
    /\ disk.plan /\ UNCHANGED <<screen, terminal, height, view, verifies, stray>>
    /\ \/ disk.run < MaxRuns /\ \E n \in 0..2 : disk' = [disk EXCEPT !.run = @ + 1, !.files = n]
       \/ disk' = [disk EXCEPT !.plan = FALSE]

Gone == screen \in {"left", "signalled"} /\ verifies = [v \in Slots |-> Idle] /\ UNCHANGED reviewVars

Next ==
    \/ Open \/ OpenPicker \/ PickerKey \/ ViewerKey \/ Leave \/ Terminated \/ Resize
    \/ StartVerify \/ Validated \/ Loaded \/ VerifyFails \/ DiskChanges \/ Gone

Spec == Init /\ [][Next]_reviewVars
-----------------------------------------------------------------------------
(* Properties *)

\* Between the screens and after them the terminal is the shell's, whatever way
\* they ended, and no result that comes late draws on it (reviewUi.ts:76-95).
TerminalIsBack ==
    /\ screen \notin {"picker", "viewer"} => terminal = Normal
    /\ ~stray

\* The verdict in the banner is never of a run later than the patch under it,
\* unless the plan was removed between the two reads (reviewUi.ts:112-121).
VerdictNotNewer == view.banner.of > view.run => ~disk.plan

\* The viewer does not stay busy when no verification is under way
\* (reviewController.ts:103-119).
BusyIsPending == view.busy => \E v \in Slots : verifies[v] # Idle

\* The reader is at a row of a file the patch has; only where it had no file at
\* some moment may the selection be before the first (reviewController.ts:75-108).
ReaderIsInPatch ==
    /\ view.selected <= Max({0, view.files - 1})
    /\ view.selected < 0 => view.empty
    /\ Shown > 0 => view.scroll < Shown

ReviewSound == TypeOK /\ TerminalIsBack /\ VerdictNotNewer /\ BusyIsPending /\ ReaderIsInPatch

\* "Re-split a freshly-reloaded detail, clamping the selection": a patch that has
\* files is shown at one of them.
SelectionIsShown == view.files > 0 => view.selected \in 0..(view.files - 1)
=============================================================================
