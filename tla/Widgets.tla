------------------------------ MODULE Widgets ------------------------------
(* What a desktop program uses besides its windows (desktop/): the guard     *)
(* that makes it the only instance, the clipboard, the canvas a window is    *)
(* drawn on, a virtual list view and the enumeration of windows.  The parts  *)
(* share nothing: a behaviour follows one of them.                           *)
EXTENDS Integers, Sequences, FiniteSets

Lists == INSTANCE SequencesExt

CONSTANTS
    Processes,   \* processes of the session that want to be the only instance
    Texts,       \* sequences of UTF-16 units, 0 the terminator
    MaxTargets,  \* bound on the render targets made
    Dpis, Sizes, \* resolutions and client sizes of a window
    Rows,        \* rows of a list view
    Room,        \* size of the buffer the list view lends for a cell
    Windows,     \* top-level windows and children
    NoOne        \* no process, no row

\* A text is a sequence of units, a buffer may be empty.
ASSUME TextsAssumption == Room \in Nat /\ Texts \subseteq Seq(Nat)

VARIABLES
    part,                        \* the part this behaviour follows
    guard,                       \* per process: how far acquire() is
    clip, opener, setting,       \* the clipboard's text, who has it open, the call's step
    target, brush, dpi, size, told, frame, made,  \* a Canvas and its window
    selected, focused, row, cell,                 \* a list view and its parent
    live, todo, children, listed, lastError       \* windows and their enumeration

instanceVars == <<guard>>
clipVars == <<clip, opener, setting>>
canvasVars == <<target, brush, dpi, size, told, frame, made>>
listVars == <<selected, focused, row, cell>>
windowVars == <<live, todo, children, listed, lastError>>
widgetVars == <<part, instanceVars, clipVars, canvasVars, listVars, windowVars>>

NoTarget == [id |-> 0, dpi |-> 0, size |-> 0]
NoFrame == [target |-> NoTarget, brush |-> 0]
FirstDpi == CHOOSE d \in Dpis : \A e \in Dpis : d <= e
FirstSize == CHOOSE s \in Sizes : \A e \in Sizes : s <= e

WidgetInit ==
    /\ part \in {"instance", "clipboard", "canvas", "list", "windows"}
    /\ guard = [p \in Processes |-> "out"]
    /\ clip = <<>> /\ opener = "none" /\ setting = <<"idle", <<>>>>
    /\ target = NoTarget /\ brush = 0 /\ dpi = FirstDpi /\ size = FirstSize
    /\ told = TRUE /\ frame = NoFrame /\ made = 0
    /\ selected = {} /\ focused = NoOne /\ row = NoOne /\ cell = <<>>
    /\ live = Windows /\ todo = <<>> /\ children = <<>> /\ listed = <<>> /\ lastError = 0

---------------------------------------------------------------------------
(* SingleInstance.  The mutex lives as long as anyone has a handle to it.    *)

Handles == {p \in Processes : guard[p] # "out"}

\* A mutant: only a process that has gone on to keep its handle counts.
Existed_Owner == \E p \in Processes : guard[p] = "owner"

\* CreateMutexW, and what GetLastError says after it on the same thread.
Existed == Handles # {}

acquire(p) ==
    /\ part = "instance" /\ guard[p] = "out"
    /\ guard' = [guard EXCEPT ![p] = IF Existed THEN "second" ELSE "first"]
    /\ UNCHANGED <<part, clipVars, canvasVars, listVars, windowVars>>

\* The first one keeps its handle; another closes it and gets None.
Answered(p) ==
    /\ guard[p] \in {"first", "second"}
    /\ guard' = [guard EXCEPT ![p] = IF @ = "first" THEN "owner" ELSE "out"]
    /\ UNCHANGED <<part, clipVars, canvasVars, listVars, windowVars>>

\* A guard that is dropped, or a process that ends at any point.
Release(p) ==
    /\ guard[p] # "out"
    /\ guard' = [guard EXCEPT ![p] = "out"]
    /\ UNCHANGED <<part, clipVars, canvasVars, listVars, windowVars>>

---------------------------------------------------------------------------
(* The clipboard.  One opener at a time.                                     *)

UntilNul(units) == LET n == Lists!SelectInSeq(units, LAMBDA u : u = 0)
                   IN IF n = 0 THEN units ELSE SubSeq(units, 1, n - 1)

Close == opener' = "none" /\ setting' = <<"idle", <<>>>>
RestOfClipboard == UNCHANGED <<part, instanceVars, canvasVars, listVars, windowVars>>

\* set_text: open, empty, allocate and fill, hand over; each may fail, and
\* Opened closes the clipboard on every way out.
set_text(text) ==
    /\ part = "clipboard" /\ setting[1] = "idle" /\ opener = "none"
    /\ opener' = "us" /\ setting' = <<"opened", Append(text, 0)>>
    /\ UNCHANGED clip /\ RestOfClipboard

EmptyClipboard ==
    /\ setting[1] = "opened"
    /\ \/ clip' = <<>> /\ setting' = <<"emptied", setting[2]>> /\ UNCHANGED opener
       \/ Close /\ UNCHANGED clip
    /\ RestOfClipboard

SetClipboardData ==
    /\ setting[1] = "emptied"
    /\ clip' \in {setting[2], clip}
    /\ Close /\ RestOfClipboard

\* get_text: what is there up to the first terminator, or None.
get_text ==
    /\ part = "clipboard" /\ opener = "none" /\ setting[1] = "idle"
    /\ opener' = "us" /\ setting' = <<"got", UntilNul(clip)>>
    /\ UNCHANGED clip /\ RestOfClipboard

GotText == setting[1] = "got" /\ Close /\ UNCHANGED clip /\ RestOfClipboard

\* Another program opens the clipboard, and may empty it before it closes it.
OtherProgram ==
    /\ part = "clipboard"
    /\ \/ opener = "none" /\ opener' = "other" /\ UNCHANGED clip
       \/ opener = "other" /\ opener' = "none" /\ clip' \in {clip, <<>>}
    /\ UNCHANGED setting /\ RestOfClipboard

---------------------------------------------------------------------------
(* Canvas.  A brush belongs to the target it was made on.                    *)

RestOfCanvas == UNCHANGED <<part, instanceVars, clipVars, listVars, windowVars>>

\* The window is resized; WM_SIZE comes to the thread before it draws again,
\* unless it draws inside another message.
WindowResized ==
    /\ part = "canvas"
    /\ \E s \in Sizes \ {size} : size' = s
    /\ told' = FALSE
    /\ UNCHANGED <<target, brush, dpi, frame, made>> /\ RestOfCanvas

\* resize() asks the window for its size; a target that cannot follow is dropped.
resize ==
    /\ part = "canvas" /\ ~told /\ frame = NoFrame
    /\ told' = TRUE
    /\ \/ target # NoTarget /\ target' = [target EXCEPT !.size = size]
       \/ target' = NoTarget
    /\ UNCHANGED <<brush, dpi, size, frame, made>> /\ RestOfCanvas

set_dpi ==
    /\ part = "canvas" /\ frame = NoFrame
    /\ \E d \in Dpis \ {dpi} :
         /\ dpi' = d
         /\ target' = IF target = NoTarget THEN NoTarget ELSE [target EXCEPT !.dpi = d]
    /\ UNCHANGED <<brush, size, told, frame, made>> /\ RestOfCanvas

\* ensure_target: both or neither; a target without its brush is not kept.
Reusable == target # NoTarget /\ brush # 0

BeginDraw ==
    /\ part = "canvas" /\ frame = NoFrame
    /\ \/ /\ Reusable
          /\ frame' = [target |-> target, brush |-> brush]
          /\ UNCHANGED <<target, brush, made>>
       \/ /\ ~Reusable /\ made < MaxTargets
          /\ made' = made + 1
          /\ target' = [id |-> made', dpi |-> dpi, size |-> size] /\ brush' = made'
          /\ frame' = [target |-> target', brush |-> brush']
       \/ ~Reusable /\ UNCHANGED <<target, brush, made, frame>>
    /\ UNCHANGED <<dpi, size, told>> /\ RestOfCanvas

\* EndDraw: a lost device drops both; the frame is not drawn again.
EndDraw ==
    /\ frame # NoFrame
    /\ frame' = NoFrame
    /\ \/ UNCHANGED <<target, brush>>
       \/ target' = NoTarget /\ brush' = 0
    /\ UNCHANGED <<dpi, size, told, made>> /\ RestOfCanvas

---------------------------------------------------------------------------
(* ListView: a virtual, single-selection control and its parent.             *)

RestOfList == UNCHANGED <<part, instanceVars, clipVars, canvasVars, windowVars>>

\* decode_notify on LVN_ITEMCHANGED: the row becomes the selected one.
BecameSelected(old, new) == "selected" \in new /\ "selected" \notin old
SelectionChanged(r, old, new) == IF BecameSelected(old, new) THEN r ELSE row

State(r, chosen, at) == (IF r \in chosen THEN {"selected"} ELSE {}) \union (IF r = at THEN {"focused"} ELSE {})

\* The user or select() moves the selection and the focus mark; the control
\* tells its parent of every row whose state changed, the old row first.
Change(chosen, at) ==
    LET changed == {r \in Rows : State(r, chosen, at) # State(r, selected, focused)}
        Seen(rs) == \E r \in rs : row' = SelectionChanged(r, State(r, selected, focused), State(r, chosen, at))
        news == {r \in changed : BecameSelected(State(r, selected, focused), State(r, chosen, at))}
    IN /\ changed # {}
       /\ selected' = chosen /\ focused' = at
       /\ IF news # {} THEN Seen(news) ELSE UNCHANGED row
       /\ UNCHANGED cell /\ RestOfList

select(r) == part = "list" /\ Change(IF r = NoOne THEN {} ELSE {r}, r)
MoveFocus(r) == part = "list" /\ r \in Rows /\ Change(selected, r)

\* ListViewTextRequest::set_text: what fits before the last unit, then 0.
Fits(text) == SubSeq(text, 1, IF Len(text) < Room - 1 THEN Len(text) ELSE Room - 1)

GetText(text) ==
    /\ part = "list" /\ Room > 0
    /\ cell' = Append(Fits(text), 0)
    /\ UNCHANGED <<selected, focused, row>> /\ RestOfList

---------------------------------------------------------------------------
(* enumerate_windows, enumerate_child_windows                                *)

RestOfWindows == UNCHANGED <<part, instanceVars, clipVars, canvasVars, listVars>>
Tops == {w \in Windows : w[2] = 0}
ChildrenOf(w) == {c \in live : c[2] = w[1]}

\* A window and its children go away.
WindowGone ==
    /\ part = "windows"
    /\ \E w \in live : live' = live \ ({w} \union ChildrenOf(w))
    /\ UNCHANGED <<todo, children, listed, lastError>> /\ RestOfWindows

collect_top_level_window_handles ==
    /\ part = "windows" /\ todo = <<>> /\ children = <<>>
    /\ listed' = <<>>
    /\ todo' \in {Lists!SetToSeq(live \intersect Tops), <<>>}
    /\ UNCHANGED <<live, children, lastError>> /\ RestOfWindows

\* build_window_info has a default for everything it cannot read, and leaves
\* the thread's last error as the calls that failed set it.
build_window_info(w) ==
    /\ listed' = Append(listed, w)
    /\ lastError' \in (IF w \in live THEN {lastError} ELSE {1400})

ListWindow ==
    /\ children # <<>>
    /\ build_window_info(Head(children)) /\ children' = Tail(children)
    /\ UNCHANGED <<live, todo>> /\ RestOfWindows

\* EnumChildWindows has no result of its own: when it gives FALSE, the last
\* error of the thread is taken for its own.
collect_child_window_handles ==
    /\ todo # <<>> /\ children = <<>>
    /\ build_window_info(Head(todo))
    /\ \/ children' \in {Lists!SetToSeq(ChildrenOf(Head(todo)))} /\ todo' = Tail(todo)
       \/ lastError' = 0 /\ children' = <<>> /\ todo' = Tail(todo)
       \/ lastError' # 0 /\ children' = <<>> /\ todo' = <<>>
    /\ UNCHANGED live /\ RestOfWindows

enumerate_child_windows(w) ==
    /\ part = "windows" /\ todo = <<>> /\ children = <<>>
    /\ listed' = <<>>
    /\ children' \in {Lists!SetToSeq(ChildrenOf(w)), <<>>}
    /\ UNCHANGED <<live, todo, lastError>> /\ RestOfWindows

WidgetNext ==
    \/ \E p \in Processes : acquire(p) \/ Answered(p) \/ Release(p)
    \/ \E t \in Texts : set_text(t) \/ GetText(t)
    \/ EmptyClipboard \/ SetClipboardData \/ get_text \/ GotText \/ OtherProgram
    \/ WindowResized \/ resize \/ set_dpi \/ BeginDraw \/ EndDraw
    \/ \E r \in Rows \union {NoOne} : select(r) \/ MoveFocus(r)
    \/ WindowGone \/ collect_top_level_window_handles
    \/ ListWindow \/ collect_child_window_handles
    \/ \E w \in Tops : enumerate_child_windows(w)

WidgetSpec == WidgetInit /\ [][WidgetNext]_widgetVars

---------------------------------------------------------------------------
(* Properties                                                                *)

\* At most one process holds the guard, whatever the order in which processes
\* create the mutex, look at the last error, drop their guard or die.
OneInstance == Cardinality({p \in Processes : guard[p] = "owner"}) <= 1

\* A frame is drawn with a brush made on its target, at the canvas's
\* resolution, and at the window's size once the window's WM_SIZE was followed,
\* though a resize drops the target alone and a lost device drops both.
FrameConsistent ==
    frame # NoFrame => /\ frame.brush = frame.target.id
                       /\ frame.target.dpi = dpi
                       /\ told => frame.target.size = size

\* The parent knows the selected row: moving the focus mark alone, or clearing
\* the selection, is not taken for a selection.
SelectionKnown == \A r \in Rows : selected = {r} => row = r

\* A cell's text and its terminator stay inside the buffer the control lent.
CellFits == Len(cell) <= Room

\* The smaller parts keep in step with what the system does around them: other
\* instances, resizes and lost devices, changes of the selection, short buffers.
WidgetsConsistent == OneInstance /\ FrameConsistent /\ SelectionKnown /\ CellFits

\* "Returns None when another process in the same session already holds it"
\* (desktop/instance.rs:18): a process that will get None has an owner, or one
\* about to be, beside it.  The handle of a second process that has not closed
\* it yet is enough, and then nobody is the instance.
NoneMeansHeld ==
    (\E p \in Processes : guard[p] = "second") => \E p \in Processes : guard[p] \in {"first", "owner"}
=============================================================================
