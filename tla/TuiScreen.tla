----------------------------- MODULE TuiScreen -----------------------------
(***************************************************************************)
(* The transcript of the terminal UI and the frame that shows it: the      *)
(* blocks that events append (transcript.ts), the cursor over the tool     *)
(* blocks, the scroll position (chatUiState.ts), the rows a block takes at *)
(* the terminal's width (flattenStyled), and the frame, which is written   *)
(* as the difference to the last one (frameWriter.ts).  While an inline    *)
(* slash command has stdout its buffer gets what a redraw writes.          *)
(***************************************************************************)
EXTENDS Integers, Sequences

CONSTANTS
    Window,     \* transcript rows of an idle terminal
    MaxBlocks,  \* MAX_BLOCKS
    MaxMade,    \* bound on the blocks made
    MaxLines,   \* bound on the lines of a message
    WheelRows   \* MOUSE_WHEEL_ROWS

VARIABLES
    blocks,     \* the transcript, oldest first
    made,       \* blocks made so far, which names the next one
    sel,        \* selectedBlockId, 0 for null
    chat,       \* viewportTop and atBottom
    wide,       \* the terminal has the columns for every line
    busy,       \* a run is going on: the activity row is shown
    panel,      \* what owns the window: "none", "help", "tool", "plan" (pendingApproval)
    asking,     \* an approval waits for its key
    captured,   \* an inline slash command has stdout
    frame,      \* prevFrame
    screen,     \* what the terminal shows
    lost        \* a frame went to a buffer and the screen was not cleared since

vars == <<blocks, made, sel, chat, wide, busy, panel, asking, captured, frame, screen, lost>>

Kinds == {"note", "user", "assistant", "start", "result"}
AtMost(a, b) == IF a < b THEN a ELSE b
AtLeast(a, b) == IF a < b THEN b ELSE a

Collapsible(b) == b.kind \in {"start", "result"}
Ids(B) == {B[i].id : i \in 1 .. Len(B)}
At(B, id) == CHOOSE i \in 1 .. Len(B) : B[i].id = id

(***************************************************************************)
(* The rows: a label tells apart every text a row can have.                *)
(***************************************************************************)
Shows(b, s) == b.id = s \/ b.expanded

\* Collapsed, a tool's block has its header and a summary; shown, its header and
\* its output; a message has a header and its lines; any other text one line,
\* which a narrow terminal wraps.
RowCount(b, s, w) ==
    IF Collapsible(b) THEN IF ~Shows(b, s) THEN 2 ELSE IF b.kind = "start" THEN 1 ELSE IF w THEN 3 ELSE 4
    ELSE IF b.kind = "assistant" THEN 1 + b.lines ELSE IF w THEN 1 ELSE 2

\* A tool's rows read differently in each look, and so does a wrapped row.
RowsOf(b, s, w) ==
    [k \in 1 .. RowCount(b, s, w) |->
        [id |-> b.id, part |-> k, wide |-> w,
         look |-> IF ~Collapsible(b) THEN "text" ELSE IF k > 1 THEN IF Shows(b, s) THEN "body" ELSE "card"
                  ELSE IF b.id = s THEN "focused" ELSE IF b.expanded THEN "expanded" ELSE "folded"]]

\* buildLinesWithMeta: the rows of all blocks.
Lines(B, s, w) ==
    LET upTo[i \in 0 .. Len(B)] == IF i = 0 THEN <<>> ELSE upTo[i - 1] \o RowsOf(B[i], s, w)
    IN upTo[Len(B)]

\* How many there are.
Total(B, s, w) ==
    LET upTo[i \in 0 .. Len(B)] == IF i = 0 THEN 0 ELSE upTo[i - 1] + RowCount(B[i], s, w)
    IN upTo[Len(B)]

Text(name) == [id |-> 0, part |-> 0, wide |-> TRUE, look |-> name]
NoRow == Text("none")
Blank == Text("blank")

\* viewportH: the activity row takes one of the window's.
Height(b, p) == IF b /\ p = "none" THEN Window - 1 ELSE Window
\* An overlay has the window; a session of notices alone shows the welcome text.
Covered(B, p) == p # "none" \/ \A i \in 1 .. Len(B) : B[i].kind = "note"

MaxTop(n, h) == AtLeast(0, n - h)
\* redraw: the first line that is shown.
Top(n, h, c) == IF c.bottom THEN MaxTop(n, h) ELSE AtMost(c.top, MaxTop(n, h))

\* transcriptMaxTop, from which every scroll is computed: it knows the menu's
\* rows, not the activity row's.
ScrollMax(B, s, w) == MaxTop(Total(B, s, w), Window)

\* renderFrame: the window, the row that says there is more below, the activity
\* row, the composer.
FrameOf(B, s, c, w, b, p) ==
    LET h     == Height(b, p)
        lines == Lines(B, s, w)
        n     == Len(lines)
        top   == Top(n, h, c)
        shown == IF Covered(B, p)
                 THEN [i \in 1 .. h |-> Text(IF p = "none" THEN "welcome" ELSE p)]
                 ELSE [i \in 1 .. h |-> IF top + i <= n THEN lines[top + i] ELSE Blank]
        below == IF p = "none" /\ ~c.bottom /\ ~Covered(B, p) /\ top < MaxTop(n, h) THEN <<Text("below")>> ELSE <<>>
    IN shown \o below \o (IF b /\ p = "none" THEN <<Text("activity")>> ELSE <<>>) \o <<Text("composer")>>

TermRows == Window + 2
Cell(f, i) == IF i <= Len(f) THEN f[i] ELSE NoRow
Cleared == [i \in 1 .. TermRows |-> Blank]

\* Mutated form of Painted: a row that the new frame does not have stays.
PaintedKeepingTail(scr, prev, next) ==
    [i \in 1 .. TermRows |-> IF Cell(prev, i) = Cell(next, i) \/ i > Len(next) THEN scr[i] ELSE Cell(next, i)]

\* diffFrames: only a row that differs is written; one that is gone is erased.
Painted(scr, prev, next) ==
    [i \in 1 .. TermRows |->
        IF Cell(prev, i) = Cell(next, i) THEN scr[i] ELSE IF Cell(next, i) = NoRow THEN Blank ELSE Cell(next, i)]

\* redraw, from the primed state: base is the last frame, scr the terminal, away
\* whether a frame was lost before, cap whether a buffer gets this one.
Redraw(base, scr, away, cap) ==
    /\ frame' = FrameOf(blocks', sel', chat', wide', busy', panel')
    /\ screen' = IF cap THEN scr ELSE Painted(scr, base, frame')
    /\ lost' = (away \/ (cap /\ base # frame'))

Drawn == Redraw(frame, screen, lost, captured)

\* The screen is cleared and drawn anew: enterAlt, onResize.
DrawnAnew == IF captured THEN Redraw(<<>>, screen, TRUE, TRUE) ELSE Redraw(<<>>, Cleared, FALSE, FALSE)

(***************************************************************************)
(* Blocks.                                                                 *)
(***************************************************************************)
Made(k) == [id |-> made + 1, kind |-> k, expanded |-> FALSE, lines |-> 1, open |-> k = "assistant"]
CanMake(n) == made + n <= MaxMade

\* enforceCaps: the oldest block goes.  pushUser does not call it.
Capped(B) == SubSeq(B, AtLeast(1, Len(B) - MaxBlocks + 1), Len(B))
Adds(k) == blocks' = Capped(Append(blocks, Made(k))) /\ made' = made + 1
PushUser == blocks' = Append(blocks, Made("user")) /\ made' = made + 1

ScrollBottom == chat' = [top |-> ScrollMax(blocks', sel', wide'), bottom |-> TRUE]

\* A message goes on in the block that is open at the end, or opens one.
AssistantDelta ==
    LET n == Len(blocks)
    IN IF n > 0 /\ blocks[n].open
       THEN blocks[n].lines < MaxLines /\ blocks' = [blocks EXCEPT ![n].lines = @ + 1] /\ UNCHANGED made
       ELSE CanMake(1) /\ Adds("assistant")

AssistantDone ==
    LET n == Len(blocks) IN n > 0 /\ blocks[n].open /\ blocks' = [blocks EXCEPT ![n].open = FALSE] /\ UNCHANGED made

\* Mutated form of Emit: an event pins the view to the bottom, as a notice does.
EmitPinning ==
    /\ busy
    /\ AssistantDelta \/ AssistantDone \/ (\E k \in {"start", "result", "note"} : CanMake(1) /\ Adds(k))
    /\ UNCHANGED <<sel, wide, busy, panel, asking, captured>> /\ ScrollBottom /\ Drawn

\* sink.emit: what a run reports.
Emit ==
    /\ busy
    /\ AssistantDelta \/ AssistantDone \/ (\E k \in {"start", "result", "note"} : CanMake(1) /\ Adds(k))
    /\ UNCHANGED <<sel, chat, wide, busy, panel, asking, captured>> /\ Drawn

\* A notice from elsewhere, as when a background subagent ends.
Notice ==
    /\ CanMake(1) /\ Adds("note")
    /\ UNCHANGED <<sel, wide, busy, panel, asking, captured>> /\ ScrollBottom /\ Drawn

(***************************************************************************)
(* The prompt, its runs and their approvals.                               *)
(***************************************************************************)
\* A key that is neither an approval's nor the one that closes the help.
AtPrompt == ~asking /\ panel # "help"

Submit ==
    /\ AtPrompt /\ ~busy /\ CanMake(1)
    /\ PushUser /\ busy' = TRUE
    /\ UNCHANGED <<sel, wide, panel, asking, captured>> /\ ScrollBottom /\ Drawn

TurnEnds ==
    /\ busy /\ ~asking
    /\ busy' = FALSE
    /\ \* in plan mode the user is asked about the plan at once
       \/ UNCHANGED <<panel, asking>>
       \/ panel' = "plan" /\ asking' = TRUE
    /\ UNCHANGED <<blocks, made, sel, wide, captured>> /\ ScrollBottom /\ Drawn

AskTool ==
    /\ busy /\ ~asking
    /\ panel' = "tool" /\ asking' = TRUE
    /\ UNCHANGED <<blocks, made, sel, wide, busy, captured>> /\ ScrollBottom /\ Drawn

AnswerTool ==
    /\ asking /\ panel = "tool"
    /\ panel' = "none" /\ asking' = FALSE
    /\ UNCHANGED <<blocks, made, sel, chat, wide, busy, captured>> /\ Drawn

\* The plan's approval is asked without the wrapper that clears the panel.
AnswerPlan ==
    /\ asking /\ panel = "plan" /\ asking' = FALSE
    /\ \/ busy' = TRUE /\ UNCHANGED <<blocks, made, chat>>
       \/ CanMake(1) /\ Adds("note") /\ UNCHANGED busy /\ chat' = [top |-> ScrollMax(blocks', sel, wide), bottom |-> TRUE]
    /\ UNCHANGED <<sel, wide, panel, captured>> /\ Drawn

\* A slash command: inline, its output is captured until it ends; suspending,
\* it has the normal screen.
CaptureBegins ==
    /\ AtPrompt /\ ~busy /\ ~captured /\ CanMake(1)
    /\ PushUser /\ captured' = TRUE
    /\ UNCHANGED <<sel, wide, busy, panel, asking>> /\ ScrollBottom /\ Drawn

CaptureEnds ==
    /\ captured /\ CanMake(1)
    /\ Adds("note") /\ captured' = FALSE
    /\ UNCHANGED <<sel, wide, busy, panel, asking>> /\ ScrollBottom /\ Redraw(frame, screen, lost, FALSE)

\* Mutated form of Suspended: the last frame is kept as the base.
SuspendedKeepingFrame ==
    /\ AtPrompt /\ ~busy /\ CanMake(1)
    /\ PushUser
    /\ UNCHANGED <<sel, wide, busy, panel, asking, captured>> /\ ScrollBottom
    /\ IF captured THEN Redraw(frame, screen, TRUE, TRUE) ELSE Redraw(frame, Cleared, FALSE, FALSE)

Suspended ==
    /\ AtPrompt /\ ~busy /\ CanMake(1)
    /\ PushUser
    /\ UNCHANGED <<sel, wide, busy, panel, asking, captured>> /\ ScrollBottom /\ DrawnAnew

(***************************************************************************)
(* The reader.                                                             *)
(***************************************************************************)
\* Mutated form of MoveSelection: the cursor stops on every block.
MoveSelectionOverAll ==
    /\ AtPrompt /\ ~busy
    /\ sel' \in Ids(blocks) \ {sel}
    /\ UNCHANGED <<blocks, made, wide, busy, panel, asking, captured>> /\ ScrollBottom /\ Drawn

\* moveSelection: Tab goes to the next block that folds, shift to the one before;
\* from no such block, to the first or the last.
MoveSelection ==
    LET stops == {i \in 1 .. Len(blocks) : Collapsible(blocks[i])}
        here  == IF sel \in Ids(blocks) THEN At(blocks, sel) ELSE 0
        next  == {i \in stops : i > here}
        prev  == {i \in stops : here = 0 \/ i < here}
    IN /\ AtPrompt /\ ~busy /\ stops # {}
       /\ \/ next # {} /\ sel' = blocks[CHOOSE i \in next : \A j \in next : i <= j].id
          \/ prev # {} /\ sel' = blocks[CHOOSE i \in prev : \A j \in prev : i >= j].id
       /\ UNCHANGED <<blocks, made, wide, busy, panel, asking, captured>> /\ ScrollBottom /\ Drawn

ClearSelection ==
    /\ AtPrompt /\ sel # 0 /\ sel' = 0
    /\ UNCHANGED <<blocks, made, wide, busy, panel, asking, captured>> /\ ScrollBottom /\ Drawn

Help ==
    /\ ~asking
    /\ \/ panel = "none" /\ ~busy /\ panel' = "help"
       \/ panel = "help" /\ panel' = "none"
    /\ UNCHANGED <<blocks, made, sel, chat, wide, busy, asking, captured>> /\ Drawn

\* The wheel, and Home and End: reduceChatUi.
Scroll ==
    LET most == ScrollMax(blocks, sel, wide)
        to(t, b) == chat' = [top |-> t, bottom |-> b]
        down == AtMost(chat.top + WheelRows, most)
    IN /\ panel \in {"none", "help"}
       /\ \/ to(AtMost(AtLeast(0, chat.top - WheelRows), most), FALSE)
          \/ to(down, down >= most)
          \/ panel = "none" /\ to(0, FALSE)
          \/ panel = "none" /\ to(most, TRUE)
       /\ UNCHANGED <<blocks, made, sel, wide, busy, panel, asking, captured>> /\ Drawn

\* Mutated form of HitTest: the row is looked up as if nothing were scrolled off.
HitTestFromTheTop(r) ==
    LET lines == Lines(blocks, sel, wide)
        at    == r
    IN IF ~Covered(blocks, panel) /\ at <= Len(lines) /\ lines[at].part = 1 /\ lines[at].look # "text"
       THEN lines[at].id ELSE 0

\* hitTestBlock on the geometry that the last redraw left: the tool's block whose
\* header is at row r of the window.
HitTest(r) ==
    LET lines == Lines(blocks, sel, wide)
        at    == Top(Len(lines), Height(busy, panel), chat) + r
    IN IF ~Covered(blocks, panel) /\ at <= Len(lines) /\ lines[at].part = 1 /\ lines[at].look # "text"
       THEN lines[at].id ELSE 0

\* A click focuses and toggles.
Click ==
    /\ panel \in {"none", "help"} /\ ~busy
    /\ \E r \in 1 .. Window :
        /\ HitTest(r) # 0
        /\ sel' = HitTest(r)
        /\ blocks' = [blocks EXCEPT ![At(blocks, HitTest(r))].expanded = ~@]
    /\ UNCHANGED <<made, chat, wide, busy, panel, asking, captured>> /\ Drawn

Resize ==
    /\ wide' = ~wide
    /\ LET most == ScrollMax(blocks, sel, wide')
       IN chat' = [chat EXCEPT !.top = IF chat.bottom THEN most ELSE AtMost(@, most)]
    /\ UNCHANGED <<blocks, made, sel, busy, panel, asking, captured>> /\ DrawnAnew

Init ==
    /\ \* a new session, or one that is resumed with its conversation
       \/ blocks = <<>> /\ made = 0
       \/ /\ blocks = [i \in 1 .. 2 |-> [id |-> i, kind |-> IF i = 1 THEN "user" ELSE "assistant", expanded |-> FALSE,
                                         lines |-> 1, open |-> FALSE]]
          /\ made = 2
    /\ sel = 0 /\ chat = [top |-> 0, bottom |-> TRUE] /\ wide \in BOOLEAN /\ busy = FALSE
    /\ panel = "none" /\ asking = FALSE /\ captured = FALSE /\ lost = FALSE
    /\ frame = FrameOf(blocks, sel, chat, wide, busy, panel)
    /\ screen = Painted(Cleared, <<>>, frame)

Next ==
    \/ Emit \/ Notice \/ Submit \/ TurnEnds \/ AskTool \/ AnswerTool \/ AnswerPlan
    \/ CaptureBegins \/ CaptureEnds \/ Suspended
    \/ MoveSelection \/ ClearSelection \/ Help \/ Scroll \/ Click \/ Resize

Spec == Init /\ [][Next]_vars

TypeOK ==
    /\ \A i \in 1 .. Len(blocks) : blocks[i].kind \in Kinds /\ blocks[i].lines \in 1 .. MaxLines
    /\ made \in 0 .. MaxMade /\ sel \in 0 .. made /\ chat.top >= 0
    /\ panel \in {"none", "help", "tool", "plan"}
    /\ DOMAIN screen = 1 .. TermRows

\* The terminal shows the last frame, row by row, although only what differs is
\* written: unless a frame went into a command's captured output and the screen
\* was not drawn anew since.
ScreenIsTheFrame == ~lost => \A i \in 1 .. TermRows : screen[i] = IF Cell(frame, i) = NoRow THEN Blank ELSE Cell(frame, i)

\* A view that follows the output shows its last row, also while a run's activity
\* row makes the window smaller.
FollowsTheEnd ==
    chat.bottom /\ ~Covered(blocks, panel) =>
        LET lines == Lines(blocks, sel, wide)
        IN Len(lines) > 0 => \E i \in 1 .. Len(frame) : frame[i] = lines[Len(lines)]

\* The cursor is on a block that folds, or on one that was evicted.
CursorFolds == sel \in Ids(blocks) => Collapsible(blocks[At(blocks, sel)])

\* An approval that waits for a key has the window.
ApprovalIsShown == asking => panel \in {"tool", "plan"} /\ frame[1] = Text(panel)

\* What the screen and the cursor promise in every state.
ScreenSound == TypeOK /\ ScreenIsTheFrame /\ FollowsTheEnd /\ CursorFolds /\ ApprovalIsShown

\* A run's output does not move what a reader who scrolled up looks at, unless the
\* transcript is full and loses its oldest block.
ReaderStays ==
    [][made' = made + 1 /\ blocks'[Len(blocks')].kind \in {"assistant", "start", "result"}
       /\ ~chat.bottom /\ ~Covered(blocks, panel) /\ Len(blocks) > 0 /\ blocks'[1].id = blocks[1].id
       => frame'[1] = frame[1]]_vars

\* A block is folded or unfolded only when its header was on the screen.
ClickTogglesWhatIsShown ==
    [][\A i \in 1 .. Len(blocks) :
        i <= Len(blocks') /\ blocks'[i].id = blocks[i].id /\ blocks'[i].expanded # blocks[i].expanded /\ ~lost
        => \E r \in 1 .. TermRows : screen[r].id = blocks[i].id /\ screen[r].part = 1]_vars

\* What a step of the screen may never do.
ScreenSteps == ReaderStays /\ ClickTogglesWhatIsShown

\* What the code does not do: a notch of the wheel, the only scroll that stops
\* between the ends, moves the view by the rows of a notch at most, and by the
\* activity row's.  The saved top is the one of the last notice or submit, not the
\* one the view has followed the output to.
WheelIsShort ==
    [][LET n == Total(blocks, sel, wide)
           h == Height(busy, panel)
       IN /\ blocks' = blocks /\ sel' = sel /\ wide' = wide /\ busy' = busy
          /\ ~Covered(blocks, panel) /\ ~Covered(blocks, panel')
          /\ chat' # chat /\ ~chat'.bottom /\ chat'.top > 0
          => Top(n, h, chat) - Top(n, h, chat') <= WheelRows + Window - h]_vars
=============================================================================
