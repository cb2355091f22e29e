---------------------------- MODULE TuiComposer ----------------------------
(***************************************************************************)
(* The input line of the terminal UI: the editor with its history          *)
(* (inputEditor.ts), the slash-command dropdown (slashMenu.ts), the file   *)
(* dropdown for a word that starts with @ (fileCompleter.ts) and the       *)
(* search line (transcriptSearch.ts), each of which takes some of the keys *)
(* of onKey before the next one sees them.                                 *)
(***************************************************************************)
EXTENDS Integers, Sequences

CONSTANTS
    Typed,      \* the characters the user types: "/", "@" and letters
    Names,      \* names of the catalog's commands and of the indexed files
    MaxText,    \* bound on the length of a line the user types or completes
    MaxHistory, \* bound on the lines submitted
    MaxHits     \* bound on the lines a search finds

VARIABLES
    text, cursor, history, histPos, draft,  \* EditorState
    menu,       \* the slash dropdown: the commands it lists (none: closed), the one selected
    completer,  \* the file dropdown: the files it lists (none: inactive), the one selected
    search,     \* the search line: active, its query's length, its hits, the one selected
    busy,       \* a run goes on
    typed       \* the line as the user last made it, while not on an entry of the history

vars == <<text, cursor, history, histPos, draft, menu, completer, search, busy, typed>>

Space == "space"
Closed == [list |-> <<>>, sel |-> 0]
NoSearch == [active |-> FALSE, query |-> 0, hits |-> 0, sel |-> 0]
Least(a, b) == IF a < b THEN a ELSE b

StartsWith(s, p) == Len(p) <= Len(s) /\ SubSeq(s, 1, Len(p)) = p
Contains(s, p) == \E i \in 0 .. Len(s) : StartsWith(SubSeq(s, i + 1, Len(s)), p)
Blank(s) == \A i \in 1 .. Len(s) : s[i] = Space
HasSpace(s) == \E i \in 1 .. Len(s) : s[i] = Space

\* The names that pass a test, in one fixed order.
Shortest(S) == CHOOSE x \in S : \A y \in S : Len(x) <= Len(y)
Listing[S \in SUBSET Names] == IF S = {} THEN <<>> ELSE <<Shortest(S)>> \o Listing[S \ {Shortest(S)}]
Listed(S) == Listing[S]

(***************************************************************************)
(* The dropdowns.                                                          *)
(***************************************************************************)
\* Mutated form of MenuFor: the selection is not clamped to the shorter list.
MenuForUnclamped(s, sel) ==
    IF s = <<>> \/ s[1] # "/" \/ HasSpace(s) THEN Closed
    ELSE LET list == Listed({n \in Names : StartsWith(n, Tail(s))})
         IN [list |-> list, sel |-> IF list = <<>> THEN 0 ELSE sel]

\* updateSlashMenu: open while the command's name is being typed.
MenuFor(s, sel) ==
    IF s = <<>> \/ s[1] # "/" \/ HasSpace(s) THEN Closed
    ELSE LET list == Listed({n \in Names : StartsWith(n, Tail(s))})
         IN [list |-> list, sel |-> IF list = <<>> THEN 0 ELSE Least(sel, Len(list) - 1)]

MenuOpen == menu.list # <<>>

\* Mutated form of CompleteSelected: without the space that ends the name.
CompleteSelectedBare == <<"/">> \o menu.list[menu.sel + 1]

\* completeSelected: the space closes the menu.
CompleteSelected == <<"/">> \o menu.list[menu.sel + 1] \o <<Space>>

\* atTokenAtCursor: where the word that ends at the cursor starts, if it starts
\* with @; 0 for null.
TokenStart(s, c) ==
    LET start == CHOOSE i \in 0 .. c : (i = 0 \/ s[i] = Space) /\ \A j \in i + 1 .. c : s[j] # Space
    IN IF start < c /\ s[start + 1] = "@" THEN start + 1 ELSE 0

\* updateFileCompleter: the selection is clamped to the last match, which is -1
\* where nothing matches.
CompleterFor(s, c, sel) ==
    LET at == TokenStart(s, c)
    IN IF at = 0 THEN Closed
       ELSE LET query == SubSeq(s, at + 1, c)
                list  == IF query = <<>> THEN <<>> ELSE Listed({n \in Names : Contains(n, query)})
            IN [list |-> list, sel |-> Least(sel, Len(list) - 1)]

Completing == completer.list # <<>>

(***************************************************************************)
(* The keys, in the order onKey tries them.                                *)
(***************************************************************************)
AtLine == ~search.active /\ ~busy
Edits(s, c) == text' = s /\ cursor' = c /\ histPos' = Len(history) /\ typed' = s /\ UNCHANGED <<history, draft>>
Reads == UNCHANGED <<history, histPos, draft, typed>>
\* A completed line is not taken as an edit: one that was recalled stays where it
\* is in the history.
Completes == UNCHANGED <<history, histPos, draft>> /\ typed' = IF histPos = Len(history) THEN text' ELSE typed
SyncMenu == menu' = MenuFor(text', menu.sel)
SyncCompleter == completer' = CompleterFor(text', cursor', completer.sel)
Rest == UNCHANGED <<search, busy>>

Insert ==
    /\ AtLine /\ Len(text) < MaxText
    /\ \E ch \in Typed : Edits(SubSeq(text, 1, cursor) \o <<ch>> \o SubSeq(text, cursor + 1, Len(text)), cursor + 1)
    /\ SyncMenu /\ SyncCompleter /\ Rest

Backspace ==
    /\ AtLine /\ cursor > 0
    /\ Edits(SubSeq(text, 1, cursor - 1) \o SubSeq(text, cursor + 1, Len(text)), cursor - 1)
    /\ SyncMenu /\ SyncCompleter /\ Rest

\* The cursor's keys look at neither dropdown.
MoveCursor ==
    /\ AtLine
    /\ cursor' \in {cursor - 1, cursor + 1, 0, Len(text)} \cap (0 .. Len(text))
    /\ Reads /\ UNCHANGED <<text, menu, completer>> /\ Rest

\* Mutated form of HistoryPrev: each step back saves the line as the draft.
HistoryPrevSaving ==
    /\ AtLine /\ ~MenuOpen /\ history # <<>>
    /\ draft' = text
    /\ LET pos == IF histPos = 0 THEN 0 ELSE histPos - 1
       IN histPos' = pos /\ text' = history[pos + 1] /\ cursor' = Len(history[pos + 1])
    /\ SyncMenu /\ UNCHANGED <<history, typed, completer>> /\ Rest

\* history-prev: the line that is being written is put away first.
HistoryPrev ==
    /\ AtLine /\ ~MenuOpen /\ history # <<>>
    /\ draft' = IF histPos = Len(history) THEN text ELSE draft
    /\ LET pos == IF histPos = 0 THEN 0 ELSE histPos - 1
       IN histPos' = pos /\ text' = history[pos + 1] /\ cursor' = Len(history[pos + 1])
    /\ SyncMenu /\ UNCHANGED <<history, typed, completer>> /\ Rest

HistoryNext ==
    /\ AtLine /\ ~MenuOpen /\ histPos < Len(history)
    /\ LET line == IF histPos + 1 = Len(history) THEN draft ELSE history[histPos + 2]
       IN histPos' = histPos + 1 /\ text' = line /\ cursor' = Len(line)
    /\ SyncMenu /\ UNCHANGED <<history, draft, typed, completer>> /\ Rest

MenuMove ==
    /\ AtLine /\ MenuOpen
    /\ \E to \in {menu.sel - 1, menu.sel + 1} \cap (0 .. Len(menu.list) - 1) : menu' = [menu EXCEPT !.sel = to]
    /\ Reads /\ UNCHANGED <<text, cursor, completer>> /\ Rest

Complete == text' = CompleteSelected /\ cursor' = Len(CompleteSelected) /\ Completes /\ SyncMenu /\ Rest

\* Tab: the file dropdown comes first, then the menu.  With neither it moves over
\* the transcript.
TabKey ==
    /\ AtLine
    /\ \/ /\ Completing
          /\ \E d \in {-1, 1} : completer' = [completer EXCEPT !.sel = (@ + d + Len(completer.list)) % Len(completer.list)]
          /\ Reads /\ UNCHANGED <<text, cursor, menu>> /\ Rest
       \/ ~Completing /\ MenuOpen /\ Complete /\ SyncCompleter

\* Escape: the same order.
EscapeKey ==
    /\ AtLine
    /\ \/ Completing /\ completer' = Closed /\ UNCHANGED menu
       \/ ~Completing /\ MenuOpen /\ menu' = Closed /\ UNCHANGED completer
    /\ Reads /\ UNCHANGED <<text, cursor>> /\ Rest

\* Enter on the file dropdown: the word at the cursor becomes the selected path,
\* if there is such a word and such a path.
Accept ==
    /\ Completing /\ Len(text) <= MaxText
    /\ completer' = Closed
    /\ LET at == TokenStart(text, cursor)
       IN IF at > 0 /\ completer.sel >= 0
          THEN LET path == completer.list[completer.sel + 1]
               IN /\ text' = SubSeq(text, 1, at) \o path \o SubSeq(text, cursor + 1, Len(text))
                  /\ cursor' = at + Len(path)
          ELSE UNCHANGED <<text, cursor>>
    /\ Completes /\ UNCHANGED menu /\ Rest

\* Enter on the menu: the highlighted command, unless it stands there already.
Trimmed(s) == IF s # <<>> /\ s[Len(s)] = Space THEN SubSeq(s, 1, Len(s) - 1) ELSE s
Takes == MenuOpen /\ Trimmed(CompleteSelected) # Trimmed(text)

\* The line is submitted; what is not blank goes to the history.  A prompt starts
\* a run.
Submits ==
    /\ text' = <<>> /\ cursor' = 0 /\ draft' = <<>> /\ typed' = <<>>
    /\ history' = IF Blank(text) THEN history ELSE Append(history, text)
    /\ histPos' = Len(history')
    /\ menu' = Closed
    /\ busy' = (~Blank(text) /\ text[1] # "/")
    /\ UNCHANGED <<completer, search>>

EnterKey ==
    /\ AtLine
    /\ \/ Accept
       \/ ~Completing /\ Takes /\ Complete /\ UNCHANGED completer
       \/ ~Completing /\ ~Takes /\ Len(history) < MaxHistory /\ Submits

RunEnds == busy /\ busy' = FALSE /\ UNCHANGED <<text, cursor, history, histPos, draft, menu, completer, search, typed>>

(***************************************************************************)
(* The search line.                                                        *)
(***************************************************************************)
Line == <<text, cursor, history, histPos, draft, menu, completer, busy, typed>>

\* Bound: a search starts on an empty line, which it leaves as it is.
SearchToggles == ~busy /\ text = <<>> /\ search' = [NoSearch EXCEPT !.active = ~search.active] /\ UNCHANGED Line

\* updateSearch: a query of nothing has no hits; the selection of another is kept.
SearchEdits ==
    /\ search.active
    /\ \E q \in {search.query - 1, search.query + 1} \cap (0 .. 2), hits \in 0 .. MaxHits :
        /\ q = 0 => hits = 0
        /\ search' = [active |-> TRUE, query |-> q, hits |-> hits, sel |-> IF hits > 0 THEN search.sel ELSE 0]
    /\ UNCHANGED Line

\* moveSearchSelection: around both ends.
SearchMoves ==
    /\ search.active /\ search.hits > 0
    /\ \E d \in {-1, 1} : search' = [search EXCEPT !.sel = (@ + d + search.hits) % search.hits]
    /\ UNCHANGED Line

SearchEnds == search.active /\ search' = NoSearch /\ UNCHANGED Line

Init ==
    /\ text = <<>> /\ cursor = 0 /\ draft = <<>> /\ typed = <<>>
    /\ history \in {<<>>} \cup {<<(<<"/">> \o n)>> : n \in Names} /\ histPos = Len(history)
    /\ menu = Closed /\ completer = Closed /\ search = NoSearch /\ busy = FALSE

Next ==
    \/ Insert \/ Backspace \/ MoveCursor \/ HistoryPrev \/ HistoryNext \/ MenuMove
    \/ TabKey \/ EscapeKey \/ EnterKey \/ RunEnds
    \/ SearchToggles \/ SearchEdits \/ SearchMoves \/ SearchEnds

Spec == Init /\ [][Next]_vars

TypeOK ==
    /\ cursor \in 0 .. Len(text) /\ histPos \in 0 .. Len(history)
    /\ menu.sel \in 0 .. Len(menu.list) /\ completer.sel \in -1 .. Len(completer.list)
    /\ search.hits \in 0 .. MaxHits /\ busy \in BOOLEAN

\* The slash dropdown that is shown belongs to the line that is shown: what Enter
\* or Tab puts there begins with what was typed.
MenuFollowsLine ==
    MenuOpen => /\ text # <<>> /\ text[1] = "/" /\ ~HasSpace(text)
                /\ menu.sel < Len(menu.list) /\ StartsWith(menu.list[menu.sel + 1], Tail(text))

\* The line that is being written is on the screen or put away as the draft: the
\* keys of the history do not lose it.
TypedIsKept == typed \in {text, draft}

\* What the input line promises in every state.
ComposerSound == TypeOK /\ MenuFollowsLine /\ TypedIsKept

Dropdowns == (IF Completing THEN 1 ELSE 0) + (IF MenuOpen THEN 1 ELSE 0)

\* Enter is never stuck: it submits the line or closes a dropdown, so that a few
\* Enters submit whatever the dropdowns list.
EnterProceeds == [][EnterKey => text' = <<>> \/ Dropdowns' < Dropdowns]_vars

\* What the comments say and the code does not do.  Enter puts the selected path
\* where the word at the cursor is: but the selection is -1 after an @ on which
\* nothing matched yet.
EnterAccepts == [][EnterKey /\ Completing /\ TokenStart(text, cursor) > 0 => text' # text]_vars

\* The file dropdown and the menu exclude each other: but the history's keys leave
\* the file dropdown as it is.
OneDropdown == ~(Completing /\ MenuOpen)

\* A search that has hits shows one: but the selection is kept when a query has
\* fewer hits.
SearchShowsAHit == search.hits > 0 => search.sel < search.hits
=============================================================================
