---------------------------- MODULE DesktopProofs ----------------------------
(***************************************************************************)
(* A TrayIcon and the shell agree, and nothing is left of it, for any      *)
(* tooltips, icons, restarts of the shell and number of calls, with or     *)
(* without a callback message and a window of its own (TrayIcon); the      *)
(* handler of a window lives exactly as long as the window, however deep   *)
(* its calls nest (AppWindow); between a control signal, the registrations *)
(* and the waits nothing is lost and nothing made up, for any number of    *)
(* threads, wait objects and signals (ConsoleSignal).                      *)
(***************************************************************************)
EXTENDS TrayIcon, AppWindow, ConsoleSignal, Widgets, NumberFacts, SequenceTheorems

-----------------------------------------------------------------------------
(* The tray icon.                                                          *)

\* The shell's entry is a record, the flags are Boolean.
TrayShape ==
    /\ shown \in [tip : Tips \cup {NoTip}, icon : Icons \cup {NoTip}, v4 : BOOLEAN]
    /\ tooltip \in Tips \cup {NoTip} /\ hicon \in Icons \cup {NoTip}
    /\ added \in BOOLEAN /\ stuck \in BOOLEAN /\ again \in BOOLEAN /\ old \in BOOLEAN

\* Before the first NIM_ADD nothing is shown, and icon_added knows of an icon
\* that is shown, unless re_add has cleared it for one the shell still had.
AddedIfShown ==
    /\ value \in {"none", "adding"} => ~Exists /\ ~added
    /\ Exists /\ ~again /\ ~stuck => added

\* A window of its own is created with the icon, never one that was given.
OwnWindow == value = "none" \/ ~OwnsWindow => window = "none"

TrayInv == TrayShape /\ AddedIfShown /\ OwnWindow /\ TrayConsistent

-----------------------------------------------------------------------------
\* Dropping the value, finished or half made, removes what it has added.
LEMMA DisposeKeeps ==
    ASSUME TrayInv, NEW final \in {"failed", "dropped"}, Dispose(final),
           value \notin {"none", "failed", "dropped"},
           UNCHANGED <<tooltip, hicon, again, old>>
    PROVE  TrayInv'
<1> USE DEF TrayInv, TrayShape, AddedIfShown, OwnWindow, TrayConsistent, ShownIsRemembered,
           SpeaksVersion4, NothingLeft, Exists, Refuse
<1>1. value' = final /\ window' = (IF OwnsWindow THEN "destroyed" ELSE window) /\ window' # "open"
    BY DEF Dispose
<1>2. OwnWindow'
    BY <1>1
<1>3. CASE added /\ shown # Nothing /\ shown' = Nothing /\ added' = FALSE /\ UNCHANGED stuck
    <2>1. TrayShape'
        BY <1>3 DEF Nothing
    <2> QED BY <1>1, <1>2, <1>3, <2>1
<1>4. CASE added /\ UNCHANGED shown /\ stuck' = (stuck \/ shown # Nothing) /\ UNCHANGED added
    BY <1>1, <1>2, <1>4 DEF Nothing
<1>5. CASE ~added /\ UNCHANGED <<shown, added, stuck>>
    BY <1>1, <1>2, <1>5 DEF Nothing
<1> QED BY <1>3, <1>4, <1>5 DEF Dispose

\* NIM_ADD shows what the value then remembers.
LEMMA AddedShows ==
    ASSUME NoTip \notin Tips, NEW tip \in Tips \cup {NoTip}, TrayInv, Added(tip),
           value # "none",
           value' \in {"versioning", "readding", "live"}, value' = "live" => ~Callback,
           UNCHANGED <<hicon, window, stuck, old>>, again' \in {TRUE, again}
    PROVE  TrayInv'
<1>1. shown' = [tip |-> tip, icon |-> hicon, v4 |-> FALSE] /\ added' = TRUE /\ tooltip' = tip
    BY DEF Added
<1> QED
    BY <1>1 DEF TrayInv, TrayShape, AddedIfShown, OwnWindow, TrayConsistent, ShownIsRemembered,
                SpeaksVersion4, NothingLeft, Exists

\* A change of one part of the shown entry, remembered together with it.
LEMMA ModifiedShows ==
    ASSUME NoTip \notin Tips, TrayInv, Exists, value = "live",
           \/ \E tip \in Tips : shown' = [shown EXCEPT !.tip = tip] /\ tooltip' = tip /\ UNCHANGED hicon
           \/ \E i \in Icons : shown' = [shown EXCEPT !.icon = i] /\ hicon' = i /\ UNCHANGED tooltip,
           UNCHANGED <<value, added, window, stuck, again, old>>
    PROVE  TrayInv'
BY DEF TrayInv, TrayShape, AddedIfShown, OwnWindow, TrayConsistent, ShownIsRemembered,
       SpeaksVersion4, NothingLeft, Exists

\* Version 4, asked for after an icon was added.
LEMMA VersionShows ==
    ASSUME TrayInv, Exists, value \in {"versioning", "readding"},
           shown' = [shown EXCEPT !.v4 = TRUE], value' = "live",
           UNCHANGED <<added, tooltip, hicon, window, stuck, again, old>>
    PROVE  TrayInv'
BY DEF TrayInv, TrayShape, AddedIfShown, OwnWindow, TrayConsistent, ShownIsRemembered,
       SpeaksVersion4, NothingLeft, Exists

\* The entry disappears: the shell restarts, or remove() succeeds.
LEMMA GoneKeeps ==
    ASSUME TrayInv, shown' = Nothing, added' \in {FALSE, added},
           UNCHANGED <<value, tooltip, hicon, window, stuck, again, old>>
    PROVE  TrayInv'
<1>1. TrayShape'
    BY DEF TrayInv, TrayShape, Nothing
<1> QED
    BY <1>1 DEF TrayInv, TrayShape, AddedIfShown, OwnWindow, TrayConsistent, ShownIsRemembered,
                SpeaksVersion4, NothingLeft, Exists

\* A call the shell refuses changes nothing; re_add has cleared icon_added
\* before, which matters only when the icon was not lost.
LEMMA RefusedKeeps ==
    ASSUME TrayInv, Refuse,
           \/ UNCHANGED <<value, added, again, old>>
           \/ value = "live" /\ added' = FALSE /\ again' = (again \/ Exists) /\ UNCHANGED <<value, old>>
           \/ value = "readding" /\ value' = "live" /\ old' = TRUE /\ UNCHANGED <<added, again>>,
           UNCHANGED <<tooltip, hicon, window, stuck>>
    PROVE  TrayInv'
<1> USE DEF TrayInv, TrayShape, AddedIfShown, OwnWindow, TrayConsistent, ShownIsRemembered,
            SpeaksVersion4, NothingLeft, Exists, Refuse
<1>1. CASE UNCHANGED <<value, added, again, old>>
    BY <1>1 DEF Nothing
<1>2. CASE value = "live" /\ added' = FALSE /\ again' = (again \/ Exists) /\ UNCHANGED <<value, old>>
    BY <1>2 DEF Nothing
<1>3. CASE value = "readding" /\ value' = "live" /\ old' = TRUE /\ UNCHANGED <<added, again>>
    BY <1>3 DEF Nothing
<1> QED BY <1>1, <1>2, <1>3

\* The builder chooses window and icon before anything is shown.
LEMMA CreateKeeps ==
    ASSUME TrayInv, NEW i \in Icons, Create(i)
    PROVE  TrayInv'
<1>1. value = "none" /\ ~Exists /\ ~added /\ window = "none"
    BY DEF Create, TrayInv, AddedIfShown, OwnWindow
<1>2. UNCHANGED <<shown, added, tooltip, stuck, again, old>> /\ ~Exists'
    BY <1>1 DEF Create, Exists, Nothing
<1>3. CASE value' = "adding" /\ window' = (IF OwnsWindow THEN "open" ELSE window) /\ hicon' = i
    BY <1>1, <1>2, <1>3 DEF TrayInv, TrayShape, AddedIfShown, OwnWindow, TrayConsistent,
                            ShownIsRemembered, SpeaksVersion4, NothingLeft
<1>4. CASE OwnsWindow /\ value' = "failed" /\ UNCHANGED <<window, hicon>>
    BY <1>1, <1>2, <1>4 DEF TrayInv, TrayShape, AddedIfShown, OwnWindow, TrayConsistent,
                            ShownIsRemembered, SpeaksVersion4, NothingLeft
<1> QED BY <1>3, <1>4 DEF Create

-----------------------------------------------------------------------------
\* TrayIconBuilder::create, update_tooltip, set_icon_resource, re_add, remove and
\* Drop: whatever the shell refuses and whenever it restarts, an icon that is
\* shown is the one remembered and speaks the version its events are decoded
\* with, and a value that is gone leaves no icon and no window, except where the
\* shell refused to delete it or re_add met an icon that was not lost.
THEOREM TrayIsConsistent ==
    ASSUME NoTip \notin Tips
    PROVE  TraySpec => []TrayConsistent
<1>1. TrayInit => TrayInv
    <2>1. TrayInit => TrayShape
        <3>1. Nothing \in [tip : Tips \cup {NoTip}, icon : Icons \cup {NoTip}, v4 : BOOLEAN]
            BY DEF Nothing
        <3> QED BY <3>1, Zenon DEF TrayInit, TrayShape
    <2>2. TrayInit => AddedIfShown /\ OwnWindow /\ TrayConsistent
        BY DEF TrayInit, AddedIfShown, OwnWindow, TrayConsistent, ShownIsRemembered,
               SpeaksVersion4, NothingLeft, Exists
    <2> QED BY <2>1, <2>2 DEF TrayInv
<1>2. TrayInv /\ [TrayNext]_trayVars => TrayInv'
    <2> SUFFICES ASSUME TrayInv, [TrayNext]_trayVars
                 PROVE  TrayInv'
        OBVIOUS
    <2>1. CASE TaskbarCreated
        BY <2>1, GoneKeeps DEF TaskbarCreated, mineVars
    <2>2. ASSUME NEW i \in Icons, SetIconResource(i)
          PROVE  TrayInv'
        <3>1. CASE Exists /\ shown' = [shown EXCEPT !.icon = i] /\ hicon' = i
            BY <2>2, <3>1, ModifiedShows DEF SetIconResource, Operation
        <3>2. CASE Refuse /\ UNCHANGED hicon
            BY <2>2, <3>2, RefusedKeeps DEF SetIconResource, Operation
        <3> QED BY <2>2, <3>1, <3>2 DEF SetIconResource
    <2>3. ASSUME NEW tip \in Tips, UpdateTooltip(tip)
          PROVE  TrayInv'
        <3>1. CASE Exists /\ shown' = [shown EXCEPT !.tip = tip] /\ tooltip' = tip
            BY <2>3, <3>1, ModifiedShows DEF UpdateTooltip, Operation
        <3>2. CASE Refuse /\ UNCHANGED tooltip
            BY <2>3, <3>2, RefusedKeeps DEF UpdateTooltip, Operation
        <3> QED BY <2>3, <3>1, <3>2 DEF UpdateTooltip
    <2>4. ASSUME NEW tip \in Tips, AddIcon(tip)
          PROVE  TrayInv'
        <3>1. value = "adding" /\ UNCHANGED <<hicon, again, old>>
            BY <2>4 DEF AddIcon
        <3>2. CASE Added(tip) /\ value' = (IF Callback THEN "versioning" ELSE "live")
                   /\ UNCHANGED <<window, stuck>>
            BY <3>1, <3>2, AddedShows
        <3>3. CASE Dispose("failed") /\ UNCHANGED tooltip
            BY <3>1, <3>3, DisposeKeeps
        <3> QED BY <2>4, <3>2, <3>3 DEF AddIcon
    <2>5. CASE SetVersion
        <3>1. value = "versioning" /\ UNCHANGED <<tooltip, hicon, again, old>>
            BY <2>5 DEF SetVersion
        <3>2. CASE Exists /\ shown' = [shown EXCEPT !.v4 = TRUE] /\ value' = "live"
                   /\ UNCHANGED <<added, window, stuck>>
            BY <3>1, <3>2, VersionShows
        <3>3. CASE Dispose("failed")
            BY <3>1, <3>3, DisposeKeeps
        <3> QED BY <2>5, <3>2, <3>3 DEF SetVersion
    <2>6. CASE ReAdd
        <3>1. value = "live" /\ again' = (again \/ Exists) /\ UNCHANGED <<hicon, window, stuck, old>>
            BY <2>6 DEF ReAdd
        <3>2. CASE Added(tooltip) /\ value' = (IF Callback THEN "readding" ELSE "live")
            <4>1. again' \in {TRUE, again} /\ tooltip \in Tips \cup {NoTip}
                BY <3>1 DEF TrayInv, TrayShape
            <4> QED BY <3>1, <3>2, <4>1, AddedShows
        <3>3. CASE Refuse /\ added' = FALSE /\ UNCHANGED <<tooltip, value>>
            BY <3>1, <3>3, RefusedKeeps
        <3> QED BY <2>6, <3>2, <3>3 DEF ReAdd
    <2>7. CASE ReSetVersion
        <3>1. CASE Exists /\ shown' = [shown EXCEPT !.v4 = TRUE] /\ UNCHANGED old
            BY <2>7, <3>1, VersionShows DEF ReSetVersion, mineVars
        <3>2. CASE Refuse /\ old' = TRUE
            BY <2>7, <3>2, RefusedKeeps DEF ReSetVersion, mineVars
        <3> QED BY <2>7, <3>1, <3>2 DEF ReSetVersion
    <2>8. CASE Remove
        <3>1. CASE shown' = Nothing /\ added' = FALSE
            BY <2>8, <3>1, GoneKeeps DEF Remove
        <3>2. CASE UNCHANGED <<shown, added>>
            BY <2>8, <3>2, RefusedKeeps DEF Remove, Refuse
        <3> QED BY <2>8, <3>1, <3>2 DEF Remove
    <2>9. CASE DropIcon
        BY <2>9, DisposeKeeps DEF DropIcon
    <2>10. CASE UNCHANGED trayVars
        BY <2>10, RefusedKeeps DEF trayVars, Refuse
    <2> QED
        BY <2>1, <2>2, <2>3, <2>4, <2>5, <2>6, <2>7, <2>8, <2>9, <2>10, CreateKeeps DEF TrayNext
<1>3. TrayInv => TrayConsistent
    BY DEF TrayInv
<1> QED
    BY <1>1, <1>2, <1>3, PTL DEF TraySpec

-----------------------------------------------------------------------------
(* The life of a window's handler.                                         *)

Frame ==
    [kind : {"proc", "create", "destroy"}, msg : Messages,
     at : {"enter", "handle", "detach", "drop", "some", "none", "send"}, has : BOOLEAN]

\* A frame that is tearing the window down: DestroyWindow, or CreateWindowExW
\* that is going to fail.
Tearing(f) == f.kind = "destroy" \/ (f.kind = "create" /\ f.msg = "NCDESTROY")
\* A frame of the procedure on its first message, and on its last.
First(f) == f.kind = "proc" /\ f.msg = "NCCREATE" /\ f.at = "enter"
Last(f) == f.kind = "proc" /\ f.msg = "NCDESTROY"

\* Every frame of the stack: WM_NCCREATE is entered on top and before anything
\* else happened, one frame at most tears the window down, WM_NCDESTROY is sent
\* by that frame and what the procedure has done of it shows in the slot.
FrameOK(i) ==
    LET f == stack[i] IN
    /\ f.kind = "proc" <=> f.at # "send"
    /\ f.kind = "create" => i = 1
    /\ f.at = "detach" => f.msg = "NCDESTROY"
    /\ First(f) => i = Len(stack) /\ slot = "owned" /\ win = "alive"
    /\ Tearing(f) => win = "destroying" /\ \A j \in DOMAIN stack : Tearing(stack[j]) => j = i
    /\ Tearing(f) /\ f.msg = "NCDESTROY" => slot = "freed" \/ (i < Len(stack) /\ Last(stack[i+1]))
    /\ Last(f) => i > 1 /\ Tearing(stack[i-1]) /\ stack[i-1].msg = "NCDESTROY"
    /\ Last(f) /\ f.at \in {"handle", "detach"} => slot = "owned"
    /\ Last(f) /\ f.at \in {"drop", "some", "none"} => slot = "freed"

\* The window, the slot and the Window value.
SlotInv ==
    /\ win \in {"none", "alive", "destroying", "gone"} /\ slot \in {"none", "owned", "freed"}
    /\ win = "destroying" => \E i \in DOMAIN stack : Tearing(stack[i])
    /\ userdata => slot = "owned"
    /\ slot = "freed" => win \in {"destroying", "gone"}
    /\ win = "gone" => slot = "freed"
    /\ win # "none" => userdata \/ slot = "freed" \/ (stack # <<>> /\ First(Top))
    /\ ~stray
    /\ frees = IF slot = "freed" THEN 1 ELSE 0
OwnerInv ==
    /\ owner # "none" => win # "none"
    /\ owner = "dropped" => win \in {"destroying", "gone"}
    /\ loop # "idle" => created # "none"
    /\ created = "none" =>
        \/ win = "none" /\ slot = "none" /\ stack = <<>> /\ ~userdata /\ owner = "none"
        \/ stack # <<>> /\ stack[1].kind = "create"

FrameInv == \A i \in DOMAIN stack : FrameOK(i)
StackInv == stack \in Seq(Frame) /\ queue \in Seq({"APP", "CLOSE"})
AppInv == StackInv /\ FrameInv /\ SlotInv /\ OwnerInv

\* The frames that calls and system calls push.
LEMMA NewFrames ==
    ASSUME NEW msg \in Messages
    PROVE  /\ Proc(msg) \in Frame /\ Proc(msg).kind = "proc" /\ Proc(msg).msg = msg
           /\ Proc(msg).at = "enter"
           /\ \A kind \in {"create", "destroy"} :
                /\ Sys(kind, msg) \in Frame /\ Sys(kind, msg).kind = kind
                /\ Sys(kind, msg).msg = msg /\ Sys(kind, msg).at = "send"
BY DEF Proc, Sys, Frame

\* What is under the running frame.
LEMMA UnderTop ==
    ASSUME stack \in Seq(Frame), stack # <<>>
    PROVE  /\ Len(stack) \in Nat /\ Len(stack) > 0 /\ DOMAIN stack = 1..Len(stack)
           /\ Top \in Frame
           /\ Under(1) \in Seq(Frame) /\ Len(Under(1)) = Len(stack) - 1
           /\ DOMAIN Under(1) = 1..(Len(stack) - 1)
           /\ \A i \in 1..(Len(stack) - 1) : Under(1)[i] = stack[i]
<1>1. Len(stack) \in Nat /\ Len(stack) > 0 /\ DOMAIN stack = 1..Len(stack)
    OBVIOUS
<1>2. Top \in Frame
    BY <1>1 DEF Top
<1>3. /\ Under(1) \in Seq(Frame) /\ Len(Under(1)) = Len(stack) - 1
      /\ \A i \in 1..(Len(stack) - 1) : Under(1)[i] = stack[i]
    <2>1. Under(1) = [i \in 1..(Len(stack) - 1) |-> stack[i]]
        BY <1>1 DEF Under
    <2>2. \A i \in 1..(Len(stack) - 1) : stack[i] \in Frame
        BY <1>1
    <2>3. Len(stack) - 1 \in Nat
        BY <1>1
    <2> QED BY <2>1, <2>2, <2>3
<1>4. DOMAIN Under(1) = 1..(Len(stack) - 1)
    BY <1>1, <1>3
<1> QED BY <1>1, <1>2, <1>3, <1>4, Zenon

\* The running frame goes on as f.
LEMMA Replaced ==
    ASSUME stack \in Seq(Frame), stack # <<>>, NEW f \in Frame
    PROVE  LET s == Append(Under(1), f) IN
           /\ s \in Seq(Frame) /\ Len(s) = Len(stack) /\ DOMAIN s = 1..Len(stack)
           /\ \A i \in 1..(Len(stack) - 1) : s[i] = stack[i]
           /\ s[Len(stack)] = f
<1> DEFINE u == Under(1)
<1>1. /\ Len(stack) \in Nat /\ Len(stack) > 0 /\ u \in Seq(Frame) /\ Len(u) = Len(stack) - 1
      /\ \A i \in 1..(Len(stack) - 1) : u[i] = stack[i]
    BY UnderTop, Zenon
<1> HIDE DEF u
<1>2. /\ Append(u, f) \in Seq(Frame) /\ Len(Append(u, f)) = Len(u) + 1
      /\ \A i \in 1..Len(u) : Append(u, f)[i] = u[i]
      /\ Append(u, f)[Len(u) + 1] = f
    BY <1>1
<1>3. DOMAIN Append(u, f) = 1..Len(stack)
    BY <1>1, <1>2
<1> QED BY <1>1, <1>2, <1>3 DEF u

\* The running frame goes on as f and has called g.
LEMMA ReplacedAndCalled ==
    ASSUME stack \in Seq(Frame), stack # <<>>, NEW f \in Frame, NEW g \in Frame
    PROVE  LET s == Append(Append(Under(1), f), g) IN
           /\ s \in Seq(Frame) /\ Len(s) = Len(stack) + 1 /\ DOMAIN s = 1..(Len(stack) + 1)
           /\ \A i \in 1..(Len(stack) - 1) : s[i] = stack[i]
           /\ s[Len(stack)] = f /\ s[Len(stack) + 1] = g
<1> DEFINE r == Append(Under(1), f)
<1>1. /\ r \in Seq(Frame) /\ Len(r) = Len(stack)
      /\ \A i \in 1..(Len(stack) - 1) : r[i] = stack[i]
      /\ r[Len(stack)] = f /\ Len(stack) \in Nat /\ Len(stack) > 0
    BY Replaced, UnderTop
<1> HIDE DEF r
<1>2. /\ Append(r, g) \in Seq(Frame) /\ Len(Append(r, g)) = Len(r) + 1
      /\ \A i \in 1..Len(r) : Append(r, g)[i] = r[i]
      /\ Append(r, g)[Len(r) + 1] = g
    BY <1>1
<1>3. DOMAIN Append(r, g) = 1..(Len(stack) + 1)
    BY <1>1, <1>2
<1> QED BY <1>1, <1>2, <1>3 DEF r

\* A call on top of the stack, and a system call with the message it sends.
LEMMA Pushed ==
    ASSUME stack \in Seq(Frame), NEW f \in Frame, NEW g \in Frame
    PROVE  /\ Len(stack) \in Nat /\ DOMAIN stack = 1..Len(stack)
           /\ LET s == Append(stack, f) IN
              /\ s \in Seq(Frame) /\ Len(s) = Len(stack) + 1 /\ DOMAIN s = 1..(Len(stack) + 1)
              /\ \A i \in 1..Len(stack) : s[i] = stack[i]
              /\ s[Len(stack) + 1] = f
           /\ LET s == stack \o <<f, g>> IN
              /\ s \in Seq(Frame) /\ Len(s) = Len(stack) + 2 /\ DOMAIN s = 1..(Len(stack) + 2)
              /\ \A i \in 1..Len(stack) : s[i] = stack[i]
              /\ s[Len(stack) + 1] = f /\ s[Len(stack) + 2] = g
<1>1. Len(stack) \in Nat /\ DOMAIN stack = 1..Len(stack)
    OBVIOUS
<1>2. LET s == Append(stack, f) IN
      /\ s \in Seq(Frame) /\ Len(s) = Len(stack) + 1 /\ DOMAIN s = 1..(Len(stack) + 1)
      /\ \A i \in 1..Len(stack) : s[i] = stack[i]
      /\ s[Len(stack) + 1] = f
    BY <1>1
<1>3. LET s == stack \o <<f, g>> IN
      /\ s \in Seq(Frame) /\ Len(s) = Len(stack) + 2 /\ DOMAIN s = 1..(Len(stack) + 2)
      /\ \A i \in 1..Len(stack) : s[i] = stack[i]
      /\ s[Len(stack) + 1] = f /\ s[Len(stack) + 2] = g
    <2> DEFINE t == <<f, g>>
               s == stack \o t
    <2>1. t \in Seq(Frame) /\ Len(t) = 2 /\ t[1] = f /\ t[2] = g
        OBVIOUS
    <2> HIDE DEF t
    <2>2. /\ s \in Seq(Frame) /\ Len(s) = Len(stack) + Len(t)
          /\ \A i \in 1..(Len(stack) + Len(t)) :
                s[i] = IF i <= Len(stack) THEN stack[i] ELSE t[i - Len(stack)]
        BY <2>1, ConcatProperties
    <2> HIDE DEF s
    <2>3. /\ \A i \in 1..Len(stack) : s[i] = stack[i]
          /\ s[Len(stack) + 1] = f /\ s[Len(stack) + 2] = g
        BY <1>1, <2>1, <2>2
    <2>4. Len(s) = Len(stack) + 2 /\ DOMAIN s = 1..(Len(stack) + 2)
        BY <1>1, <2>1, <2>2
    <2> QED BY <2>2, <2>3, <2>4 DEF s, t
<1> QED BY <1>1, <1>2, <1>3

\* No frame but the running one is entered for WM_NCCREATE, and only one frame
\* handles WM_NCDESTROY.
LEMMA OneLast ==
    ASSUME StackInv, FrameInv, NEW i \in DOMAIN stack, NEW j \in DOMAIN stack,
           Last(stack[i]), Last(stack[j])
    PROVE  i = j
<1>1. DOMAIN stack = 1..Len(stack) /\ Len(stack) \in Nat
    BY DEF StackInv
<1>2. /\ i > 1 /\ Tearing(stack[i - 1])
      /\ j > 1 /\ Tearing(stack[j - 1])
    BY DEF FrameInv, FrameOK
<1>3. i - 1 \in DOMAIN stack /\ j - 1 \in DOMAIN stack
    BY <1>1, <1>2
<1>4. i - 1 = j - 1
    BY <1>2, <1>3 DEF FrameInv, FrameOK
<1> QED BY <1>1, <1>4

\* The window procedure goes on in the running frame: the frames stay in order,
\* also when that step frees the slot.
LEMMA ProcMoves ==
    ASSUME AppInv, stack # <<>>, Top.kind = "proc", NEW f \in Frame,
           f.kind = "proc", f.msg = Top.msg, f.at \notin {"enter", "send"},
           f.at = "detach" => Last(f),
           stack' = Append(Under(1), f), win' = win,
           slot' = slot \/ (slot' = "freed" /\ Last(Top)),
           Last(f) /\ f.at \in {"handle", "detach"} => slot' = "owned",
           Last(f) /\ f.at \in {"drop", "some", "none"} => slot' = "freed",
           queue' = queue
    PROVE  /\ StackInv' /\ FrameInv' /\ stack' # <<>>
           /\ stack'[1].kind = stack[1].kind
           /\ win' = "destroying" => \E i \in DOMAIN stack' : Tearing(stack'[i])
<1>0. PICK n \in Nat : n = Len(stack)
    BY DEF AppInv, StackInv
<1>1. /\ n > 0 /\ DOMAIN stack = 1..n /\ Top = stack[n] /\ n \in 1..n
      /\ stack \in Seq(Frame)
    BY <1>0 DEF AppInv, StackInv, Top
<1>2. /\ stack' \in Seq(Frame) /\ Len(stack') = n /\ DOMAIN stack' = 1..n
      /\ \A i \in 1..(n - 1) : stack'[i] = stack[i]
      /\ stack'[n] = f
    BY <1>0, <1>1, Replaced
<1>3. \A i \in 1..n : stack'[i].kind = stack[i].kind /\ stack'[i].msg = stack[i].msg
    BY <1>1, <1>2
<1>4. \A i \in 1..n : (Tearing(stack'[i]) <=> Tearing(stack[i])) /\ (Last(stack'[i]) <=> Last(stack[i]))
    BY <1>3 DEF Tearing, Last
<1>5. ASSUME NEW i \in 1..n, i # n PROVE FrameOK(i)'
    <2>1. FrameOK(i) /\ stack'[i] = stack[i] /\ i \in 1..(n - 1)
        BY <1>1, <1>2, <1>5 DEF AppInv, FrameInv
    <2>2. ~First(stack[i])
        BY <1>0, <1>1, <1>5, <2>1 DEF FrameOK
    <2>3. Tearing(stack[i]) => \A j \in DOMAIN stack' : Tearing(stack'[j]) => j = i
        BY <1>1, <1>2, <1>4, <2>1 DEF FrameOK
    <2>4. Tearing(stack[i]) /\ stack[i].msg = "NCDESTROY"
              => slot' = "freed" \/ (i < n /\ Last(stack'[i + 1]))
        <3>1. i + 1 \in 1..n
            BY <1>1, <2>1
        <3> QED BY <1>0, <1>1, <1>4, <2>1, <3>1 DEF FrameOK
    <2>5. Last(stack[i]) => i > 1 /\ Tearing(stack'[i - 1]) /\ stack'[i - 1].msg = "NCDESTROY"
        <3>1. i > 1 => i - 1 \in 1..n
            BY <1>1, <2>1
        <3> QED BY <1>3, <1>4, <2>1, <3>1 DEF FrameOK
    <2>6. Last(stack[i]) => slot' = slot
        BY <1>1, <1>5, OneLast DEF AppInv
    <2>7. Last(stack[i]) /\ stack[i].at \in {"handle", "detach"} => slot' = "owned"
        BY <2>1, <2>6 DEF FrameOK
    <2>8. Last(stack[i]) /\ stack[i].at \in {"drop", "some", "none"} => slot' = "freed"
        BY <2>1, <2>6 DEF FrameOK
    <2> QED BY <1>2, <2>1, <2>2, <2>3, <2>4, <2>5, <2>7, <2>8 DEF FrameOK
<1>6. FrameOK(n)'
    <2>1. FrameOK(n) /\ stack'[n] = f /\ ~Tearing(f) /\ ~First(f) /\ (Last(f) <=> Last(stack[n]))
        BY <1>1, <1>2, <1>4 DEF AppInv, FrameInv, Tearing, First
    <2>2. Last(f) => n > 1 /\ Tearing(stack'[n - 1]) /\ stack'[n - 1].msg = "NCDESTROY"
        <3>1. n > 1 => n - 1 \in 1..n
            BY <1>1
        <3> QED BY <1>3, <1>4, <2>1, <3>1 DEF FrameOK
    <2>3. f.at = "detach" => f.msg = "NCDESTROY"
        BY DEF Last
    <2> QED BY <2>1, <2>2, <2>3 DEF FrameOK
<1>7. FrameInv'
    BY <1>2, <1>5, <1>6 DEF FrameInv
<1>8. StackInv' /\ stack' # <<>>
    BY <1>1, <1>2 DEF AppInv, StackInv
<1>9. win' = "destroying" => \E i \in DOMAIN stack' : Tearing(stack'[i])
    BY <1>1, <1>2, <1>4 DEF AppInv, SlotInv
<1> QED BY <1>1, <1>3, <1>7, <1>8, <1>9

\* handler_window_proc, up to the return of the message.
LEMMA ProcKeeps ==
    ASSUME AppInv, ProcEnter \/ HandleReturn \/ ProcDetach \/ DropReturn
    PROVE  AppInv'
<1>0. stack # <<>> /\ stack \in Seq(Frame) /\ Top \in Frame /\ Top.kind = "proc"
      /\ FrameOK(Len(stack)) /\ Top = stack[Len(stack)]
    <2>1. stack # <<>> /\ stack \in Seq(Frame) /\ Top.kind = "proc"
        BY DEF ProcEnter, HandleReturn, ProcDetach, DropReturn, Running, AppInv, StackInv
    <2>2. Len(stack) \in DOMAIN stack
        BY <2>1
    <2> QED BY <2>1, <2>2, UnderTop DEF AppInv, FrameInv, Top
<1>1. UNCHANGED <<win, owner, created, queue, loop>>
    BY DEF ProcEnter, HandleReturn, ProcDetach, DropReturn, queueVars
<1>2. CASE ProcEnter
    <2> DEFINE has == userdata \/ Top.msg = "NCCREATE"
               f == [Top EXCEPT !.has = has, !.at = IF has THEN "handle" ELSE "none"]
    <2>1. /\ userdata' = has /\ stack' = Append(Under(1), f) /\ slot' = slot /\ frees' = frees
          /\ stray' = (stray \/ (has /\ slot = "freed")) /\ Top.at = "enter"
        BY <1>2 DEF ProcEnter, Running
    <2>2. f \in Frame /\ f.kind = "proc" /\ f.msg = Top.msg
          /\ f.at = IF has THEN "handle" ELSE "none"
        BY <1>0 DEF Frame
    <2>3. Top.msg = "NCCREATE" => slot = "owned" /\ win = "alive"
        BY <1>0, <2>1 DEF FrameOK, First
    <2>4. has => slot = "owned"
        BY <2>3 DEF AppInv, SlotInv
    <2>5. Last(f) => Last(Top)
        BY <1>0, <2>2 DEF Last
    <2>6. Last(Top) => win = "destroying"
        <3>1. Last(Top) => Len(stack) - 1 \in DOMAIN stack /\ Tearing(stack[Len(stack) - 1])
            BY <1>0 DEF FrameOK
        <3> QED BY <3>1 DEF AppInv, FrameInv, FrameOK
    <2>7. Last(f) /\ ~has => slot = "freed"
        BY <1>0, <2>2, <2>5, <2>6 DEF AppInv, SlotInv, First, Last
    <2> HIDE DEF has, f
    <2>8. StackInv' /\ FrameInv' /\ stack' # <<>> /\ stack'[1].kind = stack[1].kind
          /\ (win' = "destroying" => \E i \in DOMAIN stack' : Tearing(stack'[i]))
        BY <1>0, <1>1, <2>1, <2>2, <2>4, <2>7, ProcMoves
    <2>9. SlotInv'
        <3>1. ~stray' BY <2>1, <2>4 DEF AppInv, SlotInv
        <3>2. userdata' => slot' = "owned" BY <2>1, <2>4
        <3>3. win' # "none" => userdata' \/ slot' = "freed"
            BY <1>0, <1>1, <2>1 DEF AppInv, SlotInv, First, has
        <3> QED BY <1>1, <2>1, <2>8, <3>1, <3>2, <3>3 DEF AppInv, SlotInv
    <2>10. OwnerInv'
        BY <1>0, <1>1, <2>1, <2>8 DEF AppInv, OwnerInv
    <2> QED BY <2>8, <2>9, <2>10 DEF AppInv
<1>3. ASSUME NEW at \in {"detach", "drop", "some", "none"}, stack' = Goto(at), Top.at \notin {"enter"},
             UNCHANGED stray, slot' = slot \/ (slot' = "freed" /\ Last(Top)),
             userdata' \in {userdata, FALSE}, userdata' => slot' = "owned",
             userdata' = userdata \/ slot' = "freed",
             frees' = IF slot' = "freed" THEN 1 ELSE 0,
             at = "detach" => Last(Top) /\ slot' = "owned",
             Last(Top) /\ at # "detach" => slot' = "freed"
      PROVE  AppInv'
    <2> DEFINE f == [Top EXCEPT !.at = at]
    <2>1. f \in Frame /\ f.kind = "proc" /\ f.msg = Top.msg /\ f.at = at /\ stack' = Append(Under(1), f)
        BY <1>0, <1>3 DEF Frame, Goto
    <2>2. Last(f) <=> Last(Top)
        BY <1>0, <2>1 DEF Last
    <2> HIDE DEF f
    <2>3. StackInv' /\ FrameInv' /\ stack' # <<>> /\ stack'[1].kind = stack[1].kind
          /\ (win' = "destroying" => \E i \in DOMAIN stack' : Tearing(stack'[i]))
        BY <1>0, <1>1, <1>3, <2>1, <2>2, ProcMoves
    <2>4. Last(Top) => win = "destroying"
        <3>1. Last(Top) => Len(stack) - 1 \in DOMAIN stack /\ Tearing(stack[Len(stack) - 1])
            BY <1>0 DEF FrameOK
        <3> QED BY <3>1 DEF AppInv, FrameInv, FrameOK
    <2>5. ~First(Top)
        BY <1>3 DEF First
    <2>6. SlotInv'
        BY <1>0, <1>1, <1>3, <2>3, <2>4, <2>5 DEF AppInv, SlotInv
    <2>7. OwnerInv'
        BY <1>0, <1>1, <1>3, <2>3 DEF AppInv, OwnerInv
    <2> QED BY <2>3, <2>6, <2>7 DEF AppInv
<1>4. CASE HandleReturn
    <2>1. Top.at = "handle" /\ UNCHANGED heapVars
        BY <1>4 DEF HandleReturn, Running
    <2>2. PICK at \in {"some", "none"} :
              stack' = Goto(IF Top.msg = "NCDESTROY" THEN "detach" ELSE at)
        BY <1>4 DEF HandleReturn
    <2>3. Last(Top) <=> Top.msg = "NCDESTROY"
        BY <1>0 DEF Last
    <2>4. Last(Top) => slot = "owned"
        BY <1>0, <2>1 DEF FrameOK
    <2> QED BY <1>3, <2>1, <2>2, <2>3, <2>4 DEF heapVars, AppInv, SlotInv
<1>5. CASE ProcDetach
    <2>1. /\ Top.at = "detach" /\ userdata' = FALSE /\ slot' = "freed" /\ frees' = frees + 1
          /\ stack' = Goto("drop") /\ UNCHANGED stray
        BY <1>5 DEF ProcDetach, Running
    <2>2. Last(Top) /\ slot = "owned"
        BY <1>0, <2>1 DEF FrameOK, Last
    <2>3. frees' = 1
        BY <2>1, <2>2 DEF AppInv, SlotInv
    <2> QED BY <1>3, <2>1, <2>2, <2>3
<1>6. CASE DropReturn
    <2>1. Top.at = "drop" /\ UNCHANGED heapVars /\ stack' = Goto("none")
        BY <1>6 DEF DropReturn, Running
    <2>2. Last(Top) => slot = "freed"
        BY <1>0, <2>1 DEF FrameOK
    <2> QED BY <1>3, <2>1, <2>2 DEF heapVars, AppInv, SlotInv
<1> QED BY <1>2, <1>4, <1>5, <1>6

\* The running frame returns.
LEMMA FrameReturns ==
    ASSUME AppInv, stack # <<>>, ~First(Top), Last(Top) => slot = "freed",
           stack' = Under(1), slot' = slot,
           win' = IF Tearing(Top) THEN "gone" ELSE win
    PROVE  /\ FrameInv' /\ stack' \in Seq(Frame) /\ (stack' = <<>> <=> Len(stack) = 1)
           /\ stack' # <<>> => stack'[1].kind = stack[1].kind
           /\ win' = "destroying" => \E i \in DOMAIN stack' : Tearing(stack'[i])
<1>0. PICK n \in Nat : n = Len(stack)
    BY DEF AppInv, StackInv
<1>1. /\ n > 0 /\ DOMAIN stack = 1..n /\ Top = stack[n] /\ n \in 1..n
      /\ stack \in Seq(Frame)
    BY <1>0 DEF AppInv, StackInv, Top
<1>2. /\ stack' \in Seq(Frame) /\ Len(stack') = n - 1 /\ DOMAIN stack' = 1..(n - 1)
      /\ \A i \in 1..(n - 1) : stack'[i] = stack[i]
    BY <1>0, <1>1, UnderTop
<1>3. ASSUME NEW i \in 1..(n - 1) PROVE FrameOK(i)'
    <2>1. i \in 1..n /\ FrameOK(i) /\ stack'[i] = stack[i] /\ ~First(stack[i])
        <3>1. i \in 1..n
            BY <1>1, <1>3
        <3> QED BY <1>0, <1>1, <1>2, <3>1 DEF AppInv, FrameInv, FrameOK
    <2>2. Tearing(stack[i]) => ~Tearing(Top) /\ win' = "destroying"
              /\ \A j \in DOMAIN stack' : Tearing(stack'[j]) => j = i
        <3>1. \A j \in 1..(n - 1) : j \in DOMAIN stack /\ j # n
            BY <1>1
        <3> QED BY <1>1, <1>2, <2>1, <3>1 DEF FrameOK
    <2>3. Tearing(stack[i]) /\ stack[i].msg = "NCDESTROY"
              => slot' = "freed" \/ (i < n - 1 /\ Last(stack'[i + 1]))
        <3>1. i + 1 \in 1..(n - 1) \/ i + 1 = n
            BY <1>1, <1>3
        <3> QED BY <1>0, <1>1, <1>2, <2>1, <3>1 DEF FrameOK
    <2>4. Last(stack[i]) => i > 1 /\ Tearing(stack'[i - 1]) /\ stack'[i - 1].msg = "NCDESTROY"
        <3>1. i > 1 => i - 1 \in 1..(n - 1)
            BY <1>1, <1>3
        <3> QED BY <1>2, <2>1, <3>1 DEF FrameOK
    <2> QED BY <1>2, <2>1, <2>2, <2>3, <2>4 DEF FrameOK
<1>4. FrameInv'
    BY <1>2, <1>3 DEF FrameInv
<1>5. win' = "destroying" => \E i \in DOMAIN stack' : Tearing(stack'[i])
    <2> SUFFICES ASSUME win' = "destroying" PROVE \E i \in DOMAIN stack' : Tearing(stack'[i])
        OBVIOUS
    <2>1. PICK i \in 1..n : Tearing(stack[i])
        BY <1>1 DEF AppInv, SlotInv
    <2>2. i \in 1..(n - 1)
        BY <1>1, <2>1
    <2> QED BY <1>2, <2>1, <2>2
<1>6. stack' = <<>> <=> n = 1
    BY <1>1, <1>2
<1>7. stack' # <<>> => stack'[1].kind = stack[1].kind
    BY <1>1, <1>2, <1>6
<1> QED BY <1>0, <1>2, <1>4, <1>5, <1>6, <1>7

\* A window procedure is called for a message that neither begins nor ends the
\* window.
LEMMA FrameCalled ==
    ASSUME AppInv, stack # <<>> => ~First(Top), NEW f \in Frame,
           f.kind = "proc", f.at = "enter", f.msg \notin {"NCCREATE", "NCDESTROY"},
           stack' = Append(stack, f), slot' = slot, win' = win
    PROVE  /\ FrameInv' /\ stack' \in Seq(Frame) /\ stack' # <<>>
           /\ stack # <<>> => stack'[1].kind = stack[1].kind
           /\ win' = "destroying" => \E i \in DOMAIN stack' : Tearing(stack'[i])
<1>0. PICK n \in Nat : n = Len(stack)
    BY DEF AppInv, StackInv
<1>1. DOMAIN stack = 1..n /\ stack \in Seq(Frame) /\ (stack # <<>> => n > 0 /\ Top = stack[n])
    BY <1>0 DEF AppInv, StackInv, Top
<1>2. /\ stack' \in Seq(Frame) /\ Len(stack') = n + 1 /\ DOMAIN stack' = 1..(n + 1)
      /\ \A i \in 1..n : stack'[i] = stack[i]
      /\ stack'[n + 1] = f
    BY <1>0, <1>1, Pushed
<1>3. ~Tearing(f) /\ ~Last(f) /\ ~First(f)
    BY DEF Tearing, Last, First
<1>4. ASSUME NEW i \in 1..n PROVE FrameOK(i)'
    <2>1. FrameOK(i) /\ stack'[i] = stack[i] /\ ~First(stack[i])
        BY <1>0, <1>1, <1>2 DEF AppInv, FrameInv, FrameOK
    <2>2. \A j \in DOMAIN stack' : Tearing(stack'[j]) => j \in DOMAIN stack /\ Tearing(stack[j])
        BY <1>1, <1>2, <1>3
    <2>3. Last(stack[i]) => i > 1 /\ Tearing(stack'[i - 1]) /\ stack'[i - 1].msg = "NCDESTROY"
        <3>1. i > 1 => i - 1 \in 1..n
            OBVIOUS
        <3> QED BY <1>2, <2>1, <3>1 DEF FrameOK
    <2>4. Tearing(stack[i]) /\ stack[i].msg = "NCDESTROY"
              => slot' = "freed" \/ (i < n + 1 /\ Last(stack'[i + 1]))
        <3>1. i < n => i + 1 \in 1..n
            OBVIOUS
        <3> QED BY <1>0, <1>2, <2>1, <3>1 DEF FrameOK
    <2> QED BY <1>2, <2>1, <2>2, <2>3, <2>4 DEF FrameOK
<1>5. FrameOK(n + 1)'
    <2>1. stack'[n + 1] = f
        BY <1>2
    <2> QED BY <1>3, <2>1 DEF FrameOK
<1>6. FrameInv'
    <2>1. \A i \in DOMAIN stack' : i \in 1..n \/ i = n + 1
        BY <1>2
    <2> QED BY <1>4, <1>5, <2>1 DEF FrameInv
<1>7. win' = "destroying" => \E i \in DOMAIN stack' : Tearing(stack'[i])
    <2>1. \A i \in 1..n : i \in DOMAIN stack'
        BY <1>2
    <2> QED BY <1>1, <1>2, <2>1 DEF AppInv, SlotInv
<1>8. stack # <<>> => stack'[1].kind = stack[1].kind
    BY <1>1, <1>2
<1>9. stack' # <<>>
    BY <1>2
<1> QED BY <1>2, <1>6, <1>7, <1>8, <1>9

\* Over the first m frames, none of which tears the window down, a system call
\* f now does and has sent its message to the procedure.
LEMMA TearingBegins ==
    ASSUME AppInv, NEW m \in Nat, m <= Len(stack), NEW f \in Frame, NEW g \in Frame,
           \A i \in 1..m : ~Tearing(stack[i]) /\ ~First(stack[i]),
           stack' \in Seq(Frame), Len(stack') = m + 2, DOMAIN stack' = 1..(m + 2),
           \A i \in 1..m : stack'[i] = stack[i],
           stack'[m + 1] = f, stack'[m + 2] = g,
           Tearing(f), f.at = "send", f.kind = "create" => m = 0,
           g.kind = "proc", g.at = "enter", g.msg # "NCCREATE",
           f.msg = g.msg,
           slot' = slot, win' = "destroying"
    PROVE  FrameInv' /\ stack' # <<>> /\ (m > 0 => stack'[1].kind = stack[1].kind)
           /\ \E i \in DOMAIN stack' : Tearing(stack'[i])
<1>1. DOMAIN stack = 1..Len(stack) /\ Len(stack) \in Nat /\ stack \in Seq(Frame)
    BY DEF AppInv, StackInv
<1>2. ~Tearing(g) /\ ~First(g) /\ f.kind # "proc" /\ ~Last(f) /\ ~First(f)
    BY DEF Tearing, First, Last
<1>3. \A j \in DOMAIN stack' : Tearing(stack'[j]) => j = m + 1
    BY <1>2
<1>4. ASSUME NEW i \in 1..m PROVE FrameOK(i)'
    <2>1. FrameOK(i) /\ stack'[i] = stack[i] /\ ~Tearing(stack[i]) /\ ~First(stack[i])
        BY <1>1 DEF AppInv, FrameInv
    <2>2. ~Last(stack[i])
        <3>1. i > 1 => i - 1 \in 1..m
            OBVIOUS
        <3> QED BY <2>1, <3>1 DEF FrameOK
    <2> QED BY <2>1, <2>2 DEF FrameOK
<1>5. FrameOK(m + 1)'
    <2>1. stack'[m + 1] = f /\ (m + 1) + 1 = m + 2 /\ m + 1 < m + 2
        OBVIOUS
    <2>2. f.msg = "NCDESTROY" => Last(stack'[(m + 1) + 1])
        BY <2>1 DEF Last
    <2> QED BY <1>2, <1>3, <2>1, <2>2 DEF FrameOK
<1>6. FrameOK(m + 2)'
    <2>1. stack'[m + 2] = g /\ (m + 2) - 1 = m + 1 /\ m + 2 > 1
        OBVIOUS
    <2>2. Last(g) => Tearing(stack'[(m + 2) - 1]) /\ stack'[(m + 2) - 1].msg = "NCDESTROY"
        BY <2>1 DEF Last
    <2> QED BY <1>2, <2>1, <2>2 DEF FrameOK
<1>7. FrameInv'
    <2>1. \A i \in DOMAIN stack' : i \in 1..m \/ i = m + 1 \/ i = m + 2
        OBVIOUS
    <2> QED BY <1>4, <1>5, <1>6, <2>1 DEF FrameInv
<1>8. m + 1 \in DOMAIN stack' /\ stack' # <<>>
    OBVIOUS
<1>9. m > 0 => stack'[1].kind = stack[1].kind
    OBVIOUS
<1> QED BY <1>7, <1>8, <1>9

\* The running frame, the only one that can be tearing the window down, goes on
\* as a system call f that does and has sent its message.
LEMMA TearingGoesOn ==
    ASSUME AppInv, stack # <<>>, NEW f \in Frame, NEW g \in Frame,
           \A i \in DOMAIN stack : Tearing(stack[i]) => i = Len(stack),
           stack' = Append(Append(Under(1), f), g),
           Tearing(f), f.at = "send", f.kind = "destroy",
           g.kind = "proc", g.at = "enter", g.msg # "NCCREATE",
           f.msg = g.msg,
           slot' = slot, win' = "destroying"
    PROVE  FrameInv' /\ stack' \in Seq(Frame) /\ stack' # <<>>
           /\ (Len(stack) > 1 => stack'[1].kind = stack[1].kind)
           /\ \E i \in DOMAIN stack' : Tearing(stack'[i])
<1>1. PICK m \in Nat : Len(stack) = m + 1
    <2>1. stack \in Seq(Frame)
        BY DEF AppInv, StackInv
    <2>2. Len(stack) \in Nat /\ Len(stack) > 0
        BY <2>1
    <2> Len(stack) - 1 \in Nat
        BY <2>2
    <2>3. Len(stack) = (Len(stack) - 1) + 1
        BY <2>2
    <2> WITNESS Len(stack) - 1 \in Nat
    <2> QED BY <2>3
<1>2. stack \in Seq(Frame) /\ DOMAIN stack = 1..(m + 1)
    BY <1>1 DEF AppInv, StackInv
<1>3. /\ stack' \in Seq(Frame) /\ Len(stack') = (m + 1) + 1 /\ DOMAIN stack' = 1..((m + 1) + 1)
      /\ \A i \in 1..((m + 1) - 1) : stack'[i] = stack[i]
      /\ stack'[m + 1] = f /\ stack'[(m + 1) + 1] = g
    BY <1>1, <1>2, ReplacedAndCalled
<1>4. (m + 1) + 1 = m + 2 /\ (m + 1) - 1 = m
    OBVIOUS
<1>5. /\ Len(stack') = m + 2 /\ DOMAIN stack' = 1..(m + 2)
      /\ \A i \in 1..m : stack'[i] = stack[i]
      /\ stack'[m + 2] = g
    BY <1>3, <1>4
<1>6. ASSUME NEW i \in 1..m PROVE ~Tearing(stack[i]) /\ ~First(stack[i])
    <2>1. i \in DOMAIN stack /\ i # m + 1
        BY <1>2
    <2>2. FrameOK(i)
        BY <2>1 DEF AppInv, FrameInv
    <2> QED BY <1>1, <2>1, <2>2 DEF FrameOK
<1>7. m <= Len(stack) /\ (Len(stack) > 1 => m > 0)
    BY <1>1
<1>8. FrameInv' /\ stack' # <<>> /\ (m > 0 => stack'[1].kind = stack[1].kind)
      /\ \E i \in DOMAIN stack' : Tearing(stack'[i])
    BY <1>3, <1>5, <1>6, <1>7, TearingBegins
<1> QED BY <1>3, <1>7, <1>8

\* Handler code runs only in a frame of the procedure that has been entered.
LEMMA HandlerRuns ==
    ASSUME StackInv, InHandler PROVE stack # <<>> /\ ~First(Top)
BY DEF InHandler, Running, First

\* DestroyWindow, from handler code or from the code around the loop.
LEMMA DestroyKeeps ==
    ASSUME AppInv, stack = <<>> \/ ~First(Top), DestroyWindow(stack),
           UNCHANGED <<heapVars, created, queueVars>>,
           owner' = owner \/ (owner = "held" /\ owner' = "dropped")
    PROVE  AppInv'
<1> DEFINE f == Sys("destroy", "DESTROY")
           g == Proc("DESTROY")
<1>1. /\ f \in Frame /\ f.kind = "destroy" /\ f.msg = "DESTROY" /\ f.at = "send"
      /\ g \in Frame /\ g.kind = "proc" /\ g.msg = "DESTROY" /\ g.at = "enter"
    BY NewFrames DEF Messages
<1>2. win = "alive" /\ win' = "destroying" /\ stack' = stack \o <<f, g>>
    BY DEF DestroyWindow
<1> HIDE DEF f, g
<1>3. PICK m \in Nat : m = Len(stack)
    BY DEF AppInv, StackInv
<1>4. stack \in Seq(Frame) /\ DOMAIN stack = 1..m /\ m <= Len(stack)
    BY <1>3 DEF AppInv, StackInv
<1>5. /\ stack' \in Seq(Frame) /\ Len(stack') = m + 2 /\ DOMAIN stack' = 1..(m + 2)
      /\ \A i \in 1..m : stack'[i] = stack[i]
      /\ stack'[m + 1] = f /\ stack'[m + 2] = g
    BY <1>1, <1>2, <1>3, <1>4, Pushed
<1>6. \A i \in 1..m : ~Tearing(stack[i]) /\ ~First(stack[i])
    <2> SUFFICES ASSUME NEW i \in 1..m PROVE ~Tearing(stack[i]) /\ ~First(stack[i])
        OBVIOUS
    <2>1. FrameOK(i) /\ stack # <<>>
        BY <1>4 DEF AppInv, FrameInv
    <2> QED BY <1>2, <2>1 DEF FrameOK, Top
<1>7. FrameInv' /\ stack' # <<>> /\ (m > 0 => stack'[1].kind = stack[1].kind)
      /\ \E i \in DOMAIN stack' : Tearing(stack'[i])
    <2>1. Tearing(f) /\ win' = "destroying" /\ slot' = slot
        BY <1>1, <1>2 DEF Tearing, heapVars
    <2> QED BY <1>1, <1>4, <1>5, <1>6, <2>1, TearingBegins
<1>8. StackInv'
    BY <1>5 DEF AppInv, StackInv, queueVars
<1>9. SlotInv'
    BY <1>2, <1>7 DEF AppInv, SlotInv, heapVars
<1>10. OwnerInv'
    <2>1. stack # <<>> => m > 0
        BY <1>3, <1>4
    <2> QED BY <1>2, <1>7, <2>1 DEF AppInv, OwnerInv, heapVars, queueVars
<1> QED BY <1>7, <1>8, <1>9, <1>10 DEF AppInv

\* DestroyWindow goes on to WM_NCDESTROY, or the window is gone.
LEMMA DestroyStepKeeps == ASSUME AppInv, DestroyStep PROVE AppInv'
<1> DEFINE n == Len(stack)
<1>1. /\ stack \in Seq(Frame) /\ stack # <<>> /\ Top.kind = "destroy" /\ Top = stack[n]
      /\ n \in Nat /\ n > 0 /\ DOMAIN stack = 1..n /\ n \in 1..n
      /\ UNCHANGED <<heapVars, owner, created, posts, quit, loop>>
    BY DEF AppInv, StackInv, DestroyStep, Running, Top
<1>2. FrameOK(n) /\ Tearing(Top) /\ win = "destroying" /\ ~First(Top) /\ ~Last(Top)
    BY <1>1 DEF AppInv, FrameInv, FrameOK, Tearing, First, Last
<1>3. created = "none" => n > 1
    BY <1>1 DEF AppInv, OwnerInv
<1>4. CASE Top.msg = "DESTROY"
    <2> DEFINE f == Sys("destroy", "NCDESTROY")
               g == Proc("NCDESTROY")
    <2>1. /\ f \in Frame /\ f.kind = "destroy" /\ f.msg = "NCDESTROY" /\ f.at = "send"
          /\ g \in Frame /\ g.kind = "proc" /\ g.msg = "NCDESTROY" /\ g.at = "enter"
        BY NewFrames DEF Messages
    <2>2. stack' = Append(Append(Under(1), f), g) /\ UNCHANGED <<win, queue>>
        BY <1>4 DEF DestroyStep
    <2> HIDE DEF f, g
    <2>5. \A i \in DOMAIN stack : Tearing(stack[i]) => i = n
        BY <1>1, <1>2 DEF FrameOK
    <2>6. Tearing(f)
        BY <2>1 DEF Tearing
    <2>7. FrameInv' /\ stack' \in Seq(Frame) /\ stack' # <<>>
          /\ (n > 1 => stack'[1].kind = stack[1].kind)
          /\ \E i \in DOMAIN stack' : Tearing(stack'[i])
        BY <1>1, <1>2, <2>1, <2>2, <2>5, <2>6, TearingGoesOn DEF heapVars
    <2>8. StackInv'
        BY <2>2, <2>7 DEF AppInv, StackInv
    <2>9. SlotInv'
        BY <1>1, <1>2, <2>2, <2>7 DEF AppInv, SlotInv, heapVars
    <2>10. OwnerInv'
        BY <1>1, <1>3, <2>2, <2>7 DEF AppInv, OwnerInv, heapVars
    <2> QED BY <2>7, <2>8, <2>9, <2>10 DEF AppInv
<1>5. CASE Top.msg = "NCDESTROY" /\ win' = "gone" /\ queue' = <<>> /\ stack' = Under(1)
    <2>1. slot = "freed"
        BY <1>1, <1>2, <1>5 DEF FrameOK
    <2>2. /\ FrameInv' /\ stack' \in Seq(Frame) /\ (stack' = <<>> <=> Len(stack) = 1)
          /\ stack' # <<>> => stack'[1].kind = stack[1].kind
        BY <1>1, <1>2, <1>5, FrameReturns DEF heapVars
    <2>3. StackInv'
        BY <1>5, <2>2 DEF StackInv
    <2>4. SlotInv'
        BY <1>1, <1>5, <2>1, <2>2 DEF AppInv, SlotInv, heapVars
    <2>5. OwnerInv'
        BY <1>1, <1>2, <1>3, <1>5, <2>2 DEF AppInv, OwnerInv, heapVars
    <2> QED BY <2>2, <2>3, <2>4, <2>5 DEF AppInv
<1> QED BY <1>4, <1>5 DEF DestroyStep

\* A message of the procedure is answered; DefWindowProcW destroys on WM_CLOSE.
LEMMA ProcReturnKeeps == ASSUME AppInv, ProcReturn PROVE AppInv'
<1> DEFINE n == Len(stack)
<1>1. /\ stack \in Seq(Frame) /\ stack # <<>> /\ Top.kind = "proc" /\ Top = stack[n]
      /\ Top.at \in {"some", "none"}
      /\ n \in Nat /\ n > 0 /\ DOMAIN stack = 1..n /\ n \in 1..n
      /\ UNCHANGED <<heapVars, owner, created, queueVars>>
    BY DEF AppInv, StackInv, ProcReturn, Running, Top
<1>2. FrameOK(n) /\ ~Tearing(Top) /\ ~First(Top) /\ (Last(Top) => slot = "freed")
    BY <1>1 DEF AppInv, FrameInv, FrameOK, Tearing, First
<1>3. created = "none" => n > 1
    BY <1>1 DEF AppInv, OwnerInv
<1>4. CASE Top.at = "none" /\ Top.msg = "CLOSE" /\ win = "alive"
    <2> DEFINE f == Sys("destroy", "DESTROY")
               g == Proc("DESTROY")
    <2>1. /\ f \in Frame /\ f.kind = "destroy" /\ f.msg = "DESTROY" /\ f.at = "send"
          /\ g \in Frame /\ g.kind = "proc" /\ g.msg = "DESTROY" /\ g.at = "enter"
        BY NewFrames DEF Messages
    <2>2. stack' = Append(Append(Under(1), f), g) /\ win' = "destroying"
        BY <1>4 DEF ProcReturn
    <2> HIDE DEF f, g
    <2>5. \A i \in DOMAIN stack : Tearing(stack[i]) => i = n
        BY <1>4 DEF AppInv, FrameInv, FrameOK
    <2>6. Tearing(f)
        BY <2>1 DEF Tearing
    <2>7. FrameInv' /\ stack' \in Seq(Frame) /\ stack' # <<>>
          /\ (n > 1 => stack'[1].kind = stack[1].kind)
          /\ \E i \in DOMAIN stack' : Tearing(stack'[i])
        BY <1>1, <1>2, <2>1, <2>2, <2>5, <2>6, TearingGoesOn DEF heapVars
    <2>8. StackInv'
        BY <1>1, <2>7 DEF AppInv, StackInv, queueVars
    <2>9. SlotInv'
        BY <1>1, <1>2, <1>4, <2>2, <2>7 DEF AppInv, SlotInv, heapVars
    <2>10. OwnerInv'
        BY <1>1, <1>3, <2>2, <2>7 DEF AppInv, OwnerInv, heapVars, queueVars
    <2> QED BY <2>7, <2>8, <2>9, <2>10 DEF AppInv
<1>5. CASE ~(Top.at = "none" /\ Top.msg = "CLOSE" /\ win = "alive")
    <2>1. stack' = Under(1) /\ win' = win
        BY <1>5 DEF ProcReturn
    <2>2. /\ FrameInv' /\ stack' \in Seq(Frame) /\ (stack' = <<>> <=> Len(stack) = 1)
          /\ stack' # <<>> => stack'[1].kind = stack[1].kind
          /\ win' = "destroying" => \E i \in DOMAIN stack' : Tearing(stack'[i])
        BY <1>1, <1>2, <2>1, FrameReturns DEF heapVars
    <2>3. StackInv'
        BY <1>1, <2>2 DEF AppInv, StackInv, queueVars
    <2>4. SlotInv'
        BY <1>1, <1>2, <2>1, <2>2 DEF AppInv, SlotInv, heapVars
    <2>5. OwnerInv'
        BY <1>1, <1>3, <2>1, <2>2 DEF AppInv, OwnerInv, heapVars, queueVars
    <2> QED BY <2>2, <2>3, <2>4, <2>5 DEF AppInv
<1> QED BY <1>4, <1>5

\* CreateWindowExW returns the window, or tears it down and fails.
LEMMA CreateReturnKeeps == ASSUME AppInv, CreateReturn PROVE AppInv'
<1>1. /\ stack \in Seq(Frame) /\ stack # <<>> /\ Top.kind = "create" /\ Top = stack[Len(stack)]
      /\ Len(stack) \in Nat /\ Len(stack) > 0 /\ DOMAIN stack = 1..Len(stack)
      /\ UNCHANGED <<heapVars, posts, quit, loop>>
    BY DEF AppInv, StackInv, CreateReturn, Running, Top
<1>2. FrameOK(Len(stack)) /\ Len(stack) = 1 /\ ~First(Top) /\ ~Last(Top)
    <2>1. FrameOK(Len(stack))
        BY <1>1 DEF AppInv, FrameInv
    <2> QED BY <1>1, <2>1 DEF FrameOK, First, Last
<1>3. CASE /\ Top.msg = "NCCREATE" /\ win = "alive" /\ stack' = Under(1)
           /\ created' = "ok" /\ owner' = "held" /\ UNCHANGED <<win, queue>>
    <2>1. ~Tearing(Top)
        BY <1>1, <1>3 DEF Tearing
    <2>2. FrameInv' /\ stack' \in Seq(Frame) /\ stack' = <<>>
        BY <1>1, <1>2, <1>3, <2>1, FrameReturns DEF heapVars
    <2> QED BY <1>1, <1>2, <1>3, <2>2 DEF AppInv, StackInv, SlotInv, OwnerInv, heapVars
<1>4. CASE /\ Top.msg = "NCCREATE" /\ win = "alive" /\ win' = "destroying"
           /\ stack' = Append(Append(Under(1), Sys("create", "NCDESTROY")), Proc("NCDESTROY"))
           /\ UNCHANGED <<created, owner, queue>>
    <2> DEFINE f == Sys("create", "NCDESTROY")
               g == Proc("NCDESTROY")
    <2>1. /\ f \in Frame /\ f.kind = "create" /\ f.msg = "NCDESTROY" /\ f.at = "send"
          /\ g \in Frame /\ g.kind = "proc" /\ g.msg = "NCDESTROY" /\ g.at = "enter"
        BY NewFrames DEF Messages
    <2>2. stack' = Append(Append(Under(1), f), g)
        BY <1>4
    <2> HIDE DEF f, g
    <2>4. /\ stack' \in Seq(Frame) /\ Len(stack') = 0 + 2 /\ DOMAIN stack' = 1..(0 + 2)
          /\ stack'[0 + 1] = f /\ stack'[0 + 2] = g
        BY <1>1, <1>2, <2>1, <2>2, ReplacedAndCalled
    <2>6. Tearing(f)
        BY <2>1 DEF Tearing
    <2>7. FrameInv' /\ stack' # <<>> /\ \E i \in DOMAIN stack' : Tearing(stack'[i])
        BY <1>1, <1>2, <1>4, <2>1, <2>4, <2>6, TearingBegins DEF heapVars
    <2>8. StackInv'
        BY <1>4, <2>4 DEF AppInv, StackInv
    <2>9. SlotInv'
        BY <1>1, <1>2, <1>4, <2>7 DEF AppInv, SlotInv, heapVars
    <2>10. stack'[1].kind = "create"
        BY <2>1, <2>4
    <2>11. OwnerInv'
        BY <1>1, <1>4, <2>7, <2>10 DEF AppInv, OwnerInv, heapVars
    <2> QED BY <2>7, <2>8, <2>9, <2>11 DEF AppInv
<1>5. CASE /\ Top.msg = "NCDESTROY" \/ win = "gone"
           /\ win' = "gone" /\ queue' = <<>> /\ stack' = Under(1)
           /\ created' = "error" /\ UNCHANGED owner
    <2>1. slot = "freed"
        BY <1>1, <1>2, <1>5 DEF AppInv, SlotInv, FrameOK, Tearing
    <2>2. win' = IF Tearing(Top) THEN "gone" ELSE win
        BY <1>1, <1>5 DEF Tearing
    <2>3. FrameInv' /\ stack' \in Seq(Frame) /\ stack' = <<>>
        BY <1>1, <1>2, <1>5, <2>2, FrameReturns DEF heapVars
    <2>4. StackInv'
        BY <1>5, <2>3 DEF StackInv
    <2>5. SlotInv' /\ OwnerInv'
        BY <1>1, <1>5, <2>1, <2>3 DEF AppInv, SlotInv, OwnerInv, heapVars
    <2> QED BY <2>3, <2>4, <2>5 DEF AppInv
<1> QED BY <1>3, <1>4, <1>5 DEF CreateReturn

\* WindowBuilder::create calls CreateWindowExW once, for a window that does not
\* exist yet.
LEMMA CreateWindowKeeps == ASSUME AppInv, CreateWindow PROVE AppInv'
<1>1. /\ win = "none" /\ slot = "none" /\ stack = <<>> /\ ~userdata /\ owner = "none"
      /\ created = "none" /\ slot' = "owned" /\ UNCHANGED <<userdata, frees, stray, owner, queueVars>>
    BY DEF AppInv, OwnerInv, CreateWindow
<1>2. frees = 0 /\ ~stray /\ loop = "idle" /\ queue \in Seq({"APP", "CLOSE"})
    BY <1>1 DEF AppInv, SlotInv, OwnerInv, StackInv
<1>3. CASE win' = win /\ stack' = stack /\ created' = "error"
    BY <1>1, <1>2, <1>3 DEF AppInv, StackInv, FrameInv, SlotInv, OwnerInv, queueVars
<1>4. CASE /\ win' = "alive" /\ UNCHANGED created
           /\ stack' = <<Sys("create", "NCCREATE"), Proc("NCCREATE")>>
    <2> DEFINE f == Sys("create", "NCCREATE")
               g == Proc("NCCREATE")
    <2>1. /\ f \in Frame /\ f.kind = "create" /\ f.msg = "NCCREATE" /\ f.at = "send"
          /\ g \in Frame /\ g.kind = "proc" /\ g.msg = "NCCREATE" /\ g.at = "enter"
        BY NewFrames DEF Messages
    <2>2. stack' = <<f, g>>
        BY <1>4
    <2> HIDE DEF f, g
    <2>3. /\ stack' \in Seq(Frame) /\ Len(stack') = 2 /\ DOMAIN stack' = {1, 2}
          /\ stack'[1] = f /\ stack'[2] = g /\ stack' # <<>>
        <3>1. stack' \in Seq(Frame) /\ Len(stack') = 2
            BY <2>1, <2>2
        <3>2. stack'[1] = f /\ stack'[2] = g
            BY <2>2
        <3>3. DOMAIN stack' = {1, 2} /\ stack' # <<>>
            BY <3>1
        <3> QED BY <3>1, <3>2, <3>3
    <2>4. ~Tearing(f) /\ ~Tearing(g) /\ ~Last(f) /\ ~Last(g) /\ ~First(f) /\ First(g)
        BY <2>1 DEF Tearing, Last, First
    <2>5. FrameOK(1)' /\ FrameOK(2)'
        BY <1>1, <1>4, <2>1, <2>3, <2>4 DEF FrameOK
    <2>6. FrameInv'
        BY <2>3, <2>5 DEF FrameInv
    <2>7. SlotInv'
        <3>1. Top' = g
            BY <2>3 DEF Top
        <3> QED BY <1>1, <1>2, <1>4, <2>3, <2>4, <3>1 DEF SlotInv
    <2>8. OwnerInv' /\ StackInv'
        BY <1>1, <1>2, <1>4, <2>1, <2>3 DEF OwnerInv, StackInv, queueVars
    <2> QED BY <2>6, <2>7, <2>8 DEF AppInv
<1> QED BY <1>3, <1>4 DEF CreateWindow

\* The calls that leave the window and its frames alone: post_quit, a post, the
\* loop starting or ending.
LEMMA QueueKeeps ==
    ASSUME AppInv, UNCHANGED <<win, heapVars, stack, owner, created>>,
           queue' \in Seq({"APP", "CLOSE"}), loop' # "idle" => loop # "idle" \/ created # "none"
    PROVE  AppInv'
<1>1. StackInv'
    BY DEF AppInv, StackInv
<1>2. FrameInv'
    BY DEF AppInv, FrameInv, FrameOK, heapVars
<1>3. SlotInv'
    BY DEF AppInv, SlotInv, Top, heapVars
<1>4. OwnerInv'
    BY DEF AppInv, OwnerInv, heapVars
<1> QED BY <1>1, <1>2, <1>3, <1>4 DEF AppInv

\* The calls of the procedure that change no more than the stack: a message
\* sent from handler code, and one dispatched by the loop.
LEMMA MessageKeeps ==
    ASSUME AppInv, stack # <<>> => ~First(Top), NEW msg \in {"SIZE", "APP", "CLOSE"},
           stack' = Append(stack, Proc(msg)), UNCHANGED <<win, heapVars, owner, created, loop>>,
           stack = <<>> => created # "none", queue' \in Seq({"APP", "CLOSE"})
    PROVE  AppInv'
<1> DEFINE f == Proc(msg)
<1>1. f \in Frame /\ f.kind = "proc" /\ f.msg = msg /\ f.at = "enter"
    BY NewFrames DEF Messages
<1>2. stack' = Append(stack, f) /\ win' = win /\ slot' = slot
    BY DEF heapVars
<1> HIDE DEF f
<1>3. /\ FrameInv' /\ stack' \in Seq(Frame) /\ stack' # <<>>
      /\ stack # <<>> => stack'[1].kind = stack[1].kind
      /\ win' = "destroying" => \E i \in DOMAIN stack' : Tearing(stack'[i])
    BY <1>1, <1>2, FrameCalled
<1>4. StackInv'
    BY <1>3 DEF StackInv
<1>5. SlotInv'
    BY <1>2, <1>3 DEF AppInv, SlotInv, heapVars
<1>6. OwnerInv'
    BY <1>2, <1>3 DEF AppInv, OwnerInv, heapVars
<1> QED BY <1>3, <1>4, <1>5, <1>6 DEF AppInv

\* Every step of the application keeps the invariant.
LEMMA AppStep == ASSUME AppInv, [AppNext]_appVars PROVE AppInv'
<1>1. CASE HandlerDestroys
    BY <1>1, HandlerRuns, DestroyKeeps DEF HandlerDestroys, AppInv
<1>2. CASE DropWindow
    <2>1. stack = <<>> \/ ~First(Top)
        BY <1>2, HandlerRuns DEF DropWindow, AppInv
    <2>2. CASE DestroyWindow(stack)
        BY <1>2, <2>1, <2>2, DestroyKeeps DEF DropWindow
    <2>3. CASE win # "alive" /\ UNCHANGED <<win, stack>>
        <3>1. owner = "held" /\ owner' = "dropped" /\ UNCHANGED <<heapVars, created, queueVars>>
            BY <1>2 DEF DropWindow
        <3>2. FrameInv'
            BY <2>3, <3>1 DEF AppInv, FrameInv, FrameOK, heapVars
        <3>3. SlotInv'
            BY <2>3, <3>1 DEF AppInv, SlotInv, Top, heapVars
        <3>4. OwnerInv' /\ StackInv'
            BY <2>3, <3>1 DEF AppInv, OwnerInv, StackInv, SlotInv, heapVars, queueVars
        <3> QED BY <3>2, <3>3, <3>4 DEF AppInv
    <2> QED BY <1>2, <2>2, <2>3 DEF DropWindow
<1>3. CASE HandlerSends
    <2>1. stack # <<>> /\ ~First(Top)
        BY <1>3, HandlerRuns DEF HandlerSends, AppInv
    <2> QED BY <1>3, <2>1, MessageKeeps DEF HandlerSends, Call, queueVars, AppInv, StackInv
<1>4. CASE PostQuit \/ Run
    BY <1>4, QueueKeeps DEF PostQuit, Run, AppInv, StackInv
<1>5. ASSUME NEW msg \in {"APP", "CLOSE"}, Post(msg) PROVE AppInv'
    <2>1. queue' \in Seq({"APP", "CLOSE"})
        BY <1>5 DEF Post, AppInv, StackInv
    <2> QED BY <1>5, <2>1, QueueKeeps DEF Post
<1>6. CASE GetMessage
    <2>1. stack = <<>> /\ loop = "running" /\ UNCHANGED <<win, heapVars, owner, created, posts>>
          /\ created # "none" /\ queue \in Seq({"APP", "CLOSE"})
        BY <1>6 DEF GetMessage, AppInv, OwnerInv, StackInv
    <2>2. CASE queue # <<>> /\ queue' = Tail(queue) /\ stack' = <<Proc(Head(queue))>>
               /\ UNCHANGED <<quit, loop>>
        <3>1. Head(queue) \in {"SIZE", "APP", "CLOSE"} /\ queue' \in Seq({"APP", "CLOSE"})
            BY <2>1, <2>2
        <3>2. stack' = Append(stack, Proc(Head(queue)))
            BY <2>1, <2>2
        <3> QED BY <2>1, <2>2, <3>1, <3>2, MessageKeeps
    <2>3. CASE UNCHANGED <<queue, stack>> /\ loop' = "ended"
        BY <2>1, <2>3, QueueKeeps
    <2> QED BY <1>6, <2>2, <2>3 DEF GetMessage
<1>7. CASE UNCHANGED appVars
    BY <1>7, QueueKeeps DEF appVars, heapVars, AppInv, StackInv
<1> QED
    BY <1>1, <1>2, <1>3, <1>4, <1>5, <1>6, <1>7, CreateWindowKeeps, CreateReturnKeeps, ProcKeeps,
       ProcReturnKeeps, DestroyStepKeeps
    DEF AppNext, ThreadStep, HandlerCall

\* However deep the handler re-enters the window procedure, from its own code or
\* from its Drop: no message enters it once it is freed, it is freed at most
\* once and with its window, and the window goes with the Window value.
THEOREM HandlerLives == AppSpec => []HandlerLifetime
<1>1. AppInit => AppInv
    BY DEF AppInit, AppInv, StackInv, FrameInv, SlotInv, OwnerInv
<1>2. AppInv /\ [AppNext]_appVars => AppInv'
    BY AppStep
<1>3. AppInv => HandlerLifetime
    <2> SUFFICES ASSUME AppInv PROVE HandlerLifetime
        OBVIOUS
    <2>1. stack = <<>> => win # "destroying"
        BY DEF AppInv, SlotInv
    <2> QED
        BY <2>1 DEF AppInv, SlotInv, OwnerInv, HandlerLifetime, NeverEnteredFreed,
                    HandlerFreedWithWindow, DropDestroys
<1> QED
    BY <1>1, <1>2, <1>3, PTL DEF AppSpec

-----------------------------------------------------------------------------
(* Console signals.                                                        *)

\* The members of a list of waits; the states of a registration that hold the
\* lock; the ways a process may end.
Elems(s) == {s[i] : i \in DOMAIN s}
Inside == {"install", "push"}
Reasons == {"default", "unhandled", "closed"}

\* DistinctAssumption, as the lemmas use it.
Distinct == Callers \cap Signals = {} /\ None \notin Reasons /\ Groups \subseteq Seq(Waits)

LockType ==
    /\ installed \in BOOLEAN /\ hooked \in BOOLEAN
    /\ waits \in Seq(Waits)
    /\ pc \in [Callers -> {"idle", "ok", "failed"} \cup Inside]
    /\ arg \in [Callers -> Waits \cup {None}]
    /\ lock \in {None} \cup Callers \cup Signals
    /\ \A c \in Callers : pc[c] \in Inside <=> lock = c
    /\ \A c \in Callers : pc[c] \in Inside => arg[c] \in Waits

CtrlType ==
    /\ ctrl \in [Signals -> [at : {"none", "lock", "set", "done"}, kind : Kinds \cup {None},
                             todo : Seq(Waits), any : BOOLEAN]]
    /\ due \in [Signals -> SUBSET Waits] /\ set \in [Signals -> SUBSET Waits]
    /\ ended \in {None} \cup Reasons

\* A handler sets waits exactly while it holds the lock.
Handling == \A n \in Signals : ctrl[n].at = "set" <=> lock = n

Waiting ==
    [state : {"idle", "blocked", "woken"}, handles : Seq(Waits), timed : BOOLEAN, answer : Int]

\* Whoever finds the lock free finds a list that is not empty once the console
\* knows the handler: the first wait is added under the lock that installs it.
Registered ==
    /\ installed = hooked
    /\ hooked /\ waits = <<>> => \E c \in Callers : pc[c] = "push"

\* What a handler on its way through signal_all has done and has left to do.
HandlerWork ==
    \A n \in Signals :
        /\ ctrl[n].at \in {"lock", "set"} => hooked
        /\ ctrl[n].at = "lock" => due[n] \subseteq Elems(waits)
        /\ ctrl[n].at = "set" => ctrl[n].todo # <<>> \/ ctrl[n].any
        /\ ctrl[n].at = "set" => due[n] \subseteq set[n] \cup Elems(ctrl[n].todo)
        /\ ctrl[n].at = "done" /\ ended # "default" => due[n] \subseteq set[n]

Ended == ended # "unhandled" /\ (ended = "default" => ~hooked)

SignalInv == LockType /\ CtrlType /\ Handling /\ Registered /\ HandlerWork /\ Ended
WaiterInv == waiter \in [Waiters -> Waiting] /\ IndexIsSet

-----------------------------------------------------------------------------
(* Sequences and numbers.                                                  *)

\* WaitForMultipleObjects reports an object of the list that is signaled.
LEMMA FirstSignaledHit ==
    ASSUME NEW h \in Seq(Waits), NEW s, \E i \in DOMAIN h : h[i] \in s
    PROVE  FirstSignaled(h, s) \in DOMAIN h /\ h[FirstSignaled(h, s)] \in s
<1> DEFINE hits == {i \in DOMAIN h : h[i] \in s}
<1>1. hits \in SUBSET Nat /\ hits # {}
    OBVIOUS
<1>2. \E i \in hits : \A j \in hits : i <= j
    BY <1>1, NatMin
<1>3. FirstSignaled(h, s) = CHOOSE i \in hits : \A j \in hits : i <= j
    BY <1>1 DEF FirstSignaled
<1> HIDE DEF hits
<1>4. FirstSignaled(h, s) \in hits
    BY <1>2, <1>3
<1> QED BY <1>4 DEF hits

\* Appending loses no element.
LEMMA ElemsAppend ==
    ASSUME NEW s \in Seq(Waits), NEW w \in Waits
    PROVE  Elems(s) \subseteq Elems(Append(s, w)) /\ Append(s, w) # <<>>
BY DEF Elems

\* What is in a list is its head or in the rest of it.
LEMMA ElemsHeadTail ==
    ASSUME NEW s \in Seq(Waits), s # <<>>
    PROVE  /\ Head(s) \in Waits /\ Tail(s) \in Seq(Waits)
           /\ Elems(s) \subseteq {Head(s)} \cup Elems(Tail(s))
<1>1. Head(s) \in Waits /\ Tail(s) \in Seq(Waits)
    OBVIOUS
<1>2. ASSUME NEW i \in DOMAIN s
      PROVE  s[i] \in {Head(s)} \cup Elems(Tail(s))
    <2>1. CASE i = 1
        BY <2>1
    <2>2. CASE i # 1
        <3>1. i - 1 \in DOMAIN Tail(s) /\ Tail(s)[i - 1] = s[i]
            BY <2>2
        <3> QED BY <3>1 DEF Elems
    <2> QED BY <2>1, <2>2
<1> QED BY <1>1, <1>2 DEF Elems

\* What DistinctAssumption and NoneAssumption say of one thread.
LEMMA Different ==
    ASSUME Distinct
    PROVE  None \notin Callers /\ None \notin Signals /\ \A c \in Callers : c \notin Signals
BY NoneAssumption DEF Distinct, Signals, NoneAssumption

\* Nothing is in the empty list.
LEMMA ElemsEmpty == Elems(<<>>) = {}
BY DEF Elems

-----------------------------------------------------------------------------
(* signal_on_ctrl.                                                         *)

\* A thread that has got the lock decides by what nobody else can change now.
LEMMA LockKeeps ==
    ASSUME Distinct, SignalInv, NEW c \in Callers, NEW w \in Waits, Lock(c, w)
    PROVE  SignalInv'
<1>1. lock = None /\ pc[c] = "idle" /\ lock' = c
    BY DEF Lock
<1>2. UNCHANGED <<installed, hooked, waits, ctrl, ended, due, set>>
    BY DEF Lock
<1>3. pc' = [pc EXCEPT ![c] = IF installed THEN "push" ELSE "install"]
    BY DEF Lock
<1>4. arg' = [arg EXCEPT ![c] = w]
    BY DEF Lock
<1>5. LockType'
    BY <1>1, <1>2, <1>3, <1>4, Different
    DEF SignalInv, LockType, Inside
<1>6. CtrlType' /\ Handling'
    BY <1>1, <1>2, Different DEF SignalInv, CtrlType, Handling
<1>7. Registered'
    BY <1>1, <1>2, <1>3 DEF SignalInv, LockType, Registered
<1> QED
    BY <1>2, <1>5, <1>6, <1>7 DEF SignalInv, HandlerWork, Ended

\* The console learns of the handler while its first wait is still to be added, and
\* the lock is kept until then.
LEMMA InstallKeeps ==
    ASSUME Distinct, SignalInv, ended = None, NEW c \in Callers, Install(c)
    PROVE  SignalInv'
<1>1. pc[c] = "install" /\ lock = c
    BY DEF Install, SignalInv, LockType, Inside
<1>2. UNCHANGED <<waits, arg, ctrl, ended, due, set>>
    BY DEF Install
<1>3. CASE hooked' = TRUE /\ installed' = TRUE /\ pc' = [pc EXCEPT ![c] = "push"] /\ UNCHANGED lock
    <2>1. LockType' /\ Registered'
        BY <1>1, <1>2, <1>3 DEF SignalInv, LockType, Registered, Inside
    <2>2. CtrlType' /\ Handling'
        BY <1>2, <1>3 DEF SignalInv, CtrlType, Handling
    <2>3. HandlerWork' /\ Ended'
        BY <1>2, <1>3 DEF SignalInv, HandlerWork, Ended, Distinct, Reasons
    <2> QED BY <2>1, <2>2, <2>3 DEF SignalInv
<1>4. CASE pc' = [pc EXCEPT ![c] = "failed"] /\ lock' = None /\ UNCHANGED <<hooked, installed>>
    <2>1. LockType'
        BY <1>1, <1>2, <1>4, Different DEF SignalInv, LockType, Inside
    <2>2. Registered'
        BY <1>1, <1>2, <1>4 DEF SignalInv, LockType, Registered
    <2>3. CtrlType' /\ Handling'
        BY <1>1, <1>2, <1>4, Different DEF SignalInv, CtrlType, Handling
    <2> QED
        BY <1>2, <1>4, <2>1, <2>2, <2>3 DEF SignalInv, HandlerWork, Ended
<1> QED BY <1>3, <1>4 DEF Install

\* The list only grows.
LEMMA PushKeeps ==
    ASSUME Distinct, SignalInv, NEW c \in Callers, Push(c)
    PROVE  SignalInv'
<1>1. pc[c] = "push" /\ lock = c /\ lock' = None /\ arg[c] \in Waits
    BY DEF Push, SignalInv, LockType, Inside
<1>2. UNCHANGED <<installed, hooked, arg, ctrl, ended, due, set>>
    BY DEF Push
<1>3. waits' = Append(waits, arg[c]) /\ pc' = [pc EXCEPT ![c] = "ok"]
    BY DEF Push
<1>4. waits \in Seq(Waits)
    BY DEF SignalInv, LockType
<1>5. Elems(waits) \subseteq Elems(waits') /\ waits' # <<>> /\ waits' \in Seq(Waits)
    BY <1>1, <1>3, <1>4, ElemsAppend
<1>6. LockType'
    BY <1>1, <1>2, <1>3, <1>5, Different DEF SignalInv, LockType, Inside
<1>7. CtrlType' /\ Handling'
    BY <1>1, <1>2, Different DEF SignalInv, CtrlType, Handling
<1>8. Registered' /\ HandlerWork' /\ Ended'
    BY <1>2, <1>5 DEF SignalInv, Registered, HandlerWork, Ended
<1> QED BY <1>6, <1>7, <1>8 DEF SignalInv

-----------------------------------------------------------------------------
(* ctrl_handler and signal_all.                                            *)

\* A signal owes a wake-up to every wait in the list, or ends the process.
LEMMA ArriveKeeps ==
    ASSUME Distinct, SignalInv, ended = None, NEW n \in Signals, NEW kind \in Kinds, Arrive(n, kind)
    PROVE  SignalInv'
<1>1. UNCHANGED <<lock, installed, hooked, waits, pc, arg, set>> /\ ctrl[n].at = "none"
    BY DEF Arrive, stateVars, callVars
<1>2. due' = [due EXCEPT ![n] = Elems(waits)]
    BY DEF Arrive, Elems
<1>3. Elems(waits) \in SUBSET Waits
    BY DEF SignalInv, LockType, Elems
<1>4. LockType' /\ Registered'
    BY <1>1 DEF SignalInv, LockType, Registered
<1>5. CASE hooked /\ ctrl' = [ctrl EXCEPT ![n].at = "lock", ![n].kind = kind] /\ UNCHANGED ended
    <2>1. ctrl' = [ctrl EXCEPT ![n] = [ctrl[n] EXCEPT !.at = "lock", !.kind = kind]]
        BY <1>5 DEF SignalInv, CtrlType
    <2>2. CtrlType'
        <3>1. ended' = ended /\ set' = set
            BY <1>1, <1>5
        <3>2. [ctrl[n] EXCEPT !.at = "lock", !.kind = kind]
                \in [at : {"none", "lock", "set", "done"}, kind : Kinds \cup {None},
                     todo : Seq(Waits), any : BOOLEAN]
            BY DEF SignalInv, CtrlType
        <3> QED BY <1>2, <1>3, <2>1, <3>1, <3>2 DEF SignalInv, CtrlType
    <2>3. Handling' /\ HandlerWork' /\ Ended'
        BY <1>1, <1>2, <1>5, <2>1 DEF SignalInv, CtrlType, Handling, HandlerWork, Ended
    <2> QED BY <1>4, <2>2, <2>3 DEF SignalInv
<1>6. CASE ~hooked /\ ctrl' = [ctrl EXCEPT ![n].at = "done", ![n].kind = kind] /\ ended' = "default"
    <2>1. ctrl' = [ctrl EXCEPT ![n] = [ctrl[n] EXCEPT !.at = "done", !.kind = kind]]
        BY <1>6 DEF SignalInv, CtrlType
    <2>2. CtrlType'
        BY <1>1, <1>2, <1>3, <1>6, <2>1 DEF SignalInv, CtrlType, Reasons
    <2>3. Handling' /\ HandlerWork' /\ Ended'
        BY <1>1, <1>2, <1>6, <2>1 DEF SignalInv, CtrlType, Handling, HandlerWork, Ended
    <2> QED BY <1>4, <2>2, <2>3 DEF SignalInv
<1> QED BY <1>5, <1>6 DEF Arrive

\* A handler that gets the lock finds a list that is not empty.
LEMMA CtrlLockKeeps ==
    ASSUME Distinct, SignalInv, NEW n \in Signals, CtrlLock(n)
    PROVE  SignalInv'
<1>1. ctrl[n].at = "lock" /\ lock = None /\ lock' = n
    BY DEF CtrlLock
<1>2. UNCHANGED <<installed, hooked, waits, pc, arg, ended, due, set>>
    BY DEF CtrlLock, callVars
<1>3. ctrl' = [ctrl EXCEPT ![n] = [ctrl[n] EXCEPT !.at = "set", !.todo = waits]]
    BY DEF CtrlLock, SignalInv, CtrlType
<1>4. waits \in Seq(Waits) /\ waits # <<>>
    <2>1. \A c \in Callers : pc[c] \notin Inside
        BY <1>1, Different DEF SignalInv, LockType
    <2> QED BY <1>1, <2>1 DEF SignalInv, LockType, Registered, HandlerWork, Inside
<1>5. LockType' /\ Registered'
    BY <1>1, <1>2, Different DEF SignalInv, LockType, Registered
<1>6. CtrlType'
    BY <1>2, <1>3, <1>4 DEF SignalInv, CtrlType
<1>7. HandlerWork' /\ Ended'
    BY <1>1, <1>2, <1>3, <1>4 DEF SignalInv, CtrlType, HandlerWork, Ended
<1>8. Handling'
    BY <1>1, <1>3, Different DEF SignalInv, CtrlType, Handling
<1> QED BY <1>5, <1>6, <1>7, <1>8 DEF SignalInv

\* One wait goes over from the ones to be set to the ones set.
LEMMA CtrlSetKeeps ==
    ASSUME Distinct, SignalInv, NEW n \in Signals, CtrlSet(n)
    PROVE  SignalInv'
<1> DEFINE unset == ctrl[n].todo
<1>1. ctrl[n].at = "set" /\ unset # <<>> /\ unset \in Seq(Waits)
    BY DEF CtrlSet, SignalInv, CtrlType
<1>2. UNCHANGED <<lock, installed, hooked, waits, pc, arg, ended, due>>
    BY DEF CtrlSet, stateVars, callVars
<1>3. ctrl' = [ctrl EXCEPT ![n] = [ctrl[n] EXCEPT !.todo = Tail(unset), !.any = TRUE]]
    BY DEF CtrlSet, SignalInv, CtrlType
<1>4. set' = [set EXCEPT ![n] = @ \cup {Head(unset)}]
    BY DEF CtrlSet
<1>5. /\ Head(unset) \in Waits /\ Tail(unset) \in Seq(Waits)
      /\ Elems(unset) \subseteq {Head(unset)} \cup Elems(Tail(unset))
    BY <1>1, ElemsHeadTail
<1>6. LockType' /\ Registered'
    BY <1>2 DEF SignalInv, LockType, Registered
<1>7. CtrlType'
    BY <1>1, <1>2, <1>3, <1>4, <1>5 DEF SignalInv, CtrlType
<1>8. Handling' /\ HandlerWork' /\ Ended'
    BY <1>1, <1>2, <1>3, <1>4, <1>5 DEF SignalInv, CtrlType, Handling, HandlerWork, Ended
<1> QED BY <1>6, <1>7, <1>8 DEF SignalInv

\* At the end of the list every wait owed has been set, and at least one was.
LEMMA CtrlReturnKeeps ==
    ASSUME Distinct, SignalInv, NEW n \in Signals, CtrlReturn(n)
    PROVE  SignalInv'
<1>1. ctrl[n].at = "set" /\ ctrl[n].todo = <<>> /\ ctrl[n].any /\ lock = n /\ lock' = None
    BY DEF CtrlReturn, SignalInv, CtrlType, Handling, HandlerWork
<1>2. UNCHANGED <<installed, hooked, waits, pc, arg, due, set>>
    BY DEF CtrlReturn, callVars
<1>3. ctrl' = [ctrl EXCEPT ![n] = [ctrl[n] EXCEPT !.at = "done"]]
    BY DEF CtrlReturn, SignalInv, CtrlType
<1>4. ended' \in {None, "closed"}
    BY <1>1 DEF CtrlReturn
<1>5. LockType' /\ Registered'
    BY <1>1, <1>2, Different DEF SignalInv, LockType, Registered
<1>6. CtrlType'
    BY <1>2, <1>3, <1>4 DEF SignalInv, CtrlType, Reasons
<1>7. HandlerWork'
    <2>1. due[n] \subseteq set[n]
        BY <1>1, ElemsEmpty DEF SignalInv, HandlerWork
    <2>2. \A m \in Signals \ {n} : ctrl'[m] = ctrl[m]
        BY <1>3 DEF SignalInv, CtrlType
    <2>3. ctrl'[n].at = "done"
        BY <1>3 DEF SignalInv, CtrlType
    <2>4. ended # "default"
        BY <1>1 DEF SignalInv, HandlerWork, Ended
    <2> QED BY <1>2, <2>1, <2>2, <2>3, <2>4 DEF SignalInv, HandlerWork
<1>8. Ended'
    BY <1>4 DEF Ended, Distinct, Reasons
<1>9. Handling'
    BY <1>1, <1>3, Different DEF SignalInv, CtrlType, Handling
<1> QED BY <1>5, <1>6, <1>7, <1>8, <1>9 DEF SignalInv

\* What the waiting threads do concerns neither the list nor the handlers.
LEMMA WaitsKeep ==
    ASSUME SignalInv, UNCHANGED <<stateVars, callVars, ctrl, ended, due, set>>
    PROVE  SignalInv'
BY DEF SignalInv, LockType, CtrlType, Handling, Registered, HandlerWork, Ended, stateVars, callVars

-----------------------------------------------------------------------------
(* The threads that wait.                                                  *)

\* The waits some handler has set.
AllSet == UNION {set[n] : n \in Signals}

\* What a thread that is woken has been told.
Told(r, S) ==
    r.state = "woken" => r.answer + 1 \in DOMAIN r.handles /\ r.handles[r.answer + 1] \in S

\* IndexIsSet, thread by thread.
LEMMA IndexIsTold ==
    IndexIsSet <=> \A t \in Waiters : Told(waiter[t], AllSet)
BY DEF IndexIsSet, Told, AllSet

\* A thread that SetEvent(w) wakes is told an index of w in its list.
LEMMA WokenIsTold ==
    ASSUME NEW r \in Waiting, NEW w, \E i \in DOMAIN r.handles : r.handles[i] = w,
           NEW s, s = [r EXCEPT !.state = "woken", !.answer = Answer(FirstSignaled(r.handles, {w}))]
    PROVE  s \in Waiting /\ Told(s, {w})
<1> DEFINE f == FirstSignaled(r.handles, {w})
<1>1. r.handles \in Seq(Waits)
    BY DEF Waiting
<1>2. f \in DOMAIN r.handles /\ r.handles[f] = w
    BY <1>1, FirstSignaledHit
<1>3. f \in Int
    BY <1>1, <1>2
<1> HIDE DEF f
<1>4. s = [r EXCEPT !.state = "woken", !.answer = f - 1]
    BY DEF Answer, f
<1>5. s \in Waiting /\ s.handles = r.handles /\ s.answer = f - 1
    <2>1. f - 1 \in Int
        BY <1>3
    <2>2. \A a \in Int : [r EXCEPT !.state = "woken", !.answer = a] \in Waiting
        BY DEF Waiting
    <2>3. s.handles = r.handles /\ s.answer = f - 1
        BY <1>4 DEF Waiting
    <2> QED BY <1>4, <2>1, <2>2, <2>3
<1>6. s.answer + 1 = f
    BY <1>3, <1>5
<1> QED BY <1>2, <1>5, <1>6 DEF Told

\* Each thread is as it was, or was woken by the object that is set.
LEMMA SetEventWakes ==
    ASSUME NEW w, SetEvent(w), WaiterInv
    PROVE  /\ waiter' = [t \in Waiters |-> waiter'[t]]
           /\ \A t \in Waiters :
                \/ waiter'[t] = waiter[t]
                \/ /\ \E i \in DOMAIN waiter[t].handles : waiter[t].handles[i] = w
                   /\ waiter'[t] = [waiter[t] EXCEPT !.state = "woken", !.answer =
                                        Answer(FirstSignaled(waiter[t].handles, {w}))]
<1> DEFINE blocked == {t \in Waiters : Blocked(t) /\ \E i \in DOMAIN waiter[t].handles :
                                                          waiter[t].handles[i] = w}
           Wake(ts) == [t \in Waiters |->
                IF t \in ts
                THEN [waiter[t] EXCEPT !.state = "woken", !.answer =
                        Answer(FirstSignaled(waiter[t].handles, {w}))]
                ELSE waiter[t]]
<1>1. (\E ts \in SUBSET blocked : waiter' = Wake(ts)) \/ waiter' = waiter
    BY DEF SetEvent
<1>2. CASE waiter' = waiter
    BY <1>2 DEF WaiterInv
<1>3. ASSUME NEW ts \in SUBSET blocked, waiter' = Wake(ts)
      PROVE  /\ waiter' = [t \in Waiters |-> waiter'[t]]
             /\ \A t \in Waiters :
                  \/ waiter'[t] = waiter[t]
                  \/ /\ \E i \in DOMAIN waiter[t].handles : waiter[t].handles[i] = w
                     /\ waiter'[t] = [waiter[t] EXCEPT !.state = "woken", !.answer =
                                          Answer(FirstSignaled(waiter[t].handles, {w}))]
    BY <1>3
<1> QED BY <1>1, <1>2, <1>3

\* The threads one round of signal_all wakes are told of an object that is now set.
LEMMA CtrlSetWakes ==
    ASSUME SignalInv, WaiterInv, NEW n \in Signals, CtrlSet(n)
    PROVE  WaiterInv'
<1> DEFINE w == Head(ctrl[n].todo)
<1>1. SetEvent(w) /\ set' = [set EXCEPT ![n] = @ \cup {w}]
    BY DEF CtrlSet
<1> HIDE DEF w
<1>2. AllSet \subseteq AllSet' /\ w \in AllSet'
    BY <1>1 DEF AllSet, SignalInv, CtrlType
<1>3. waiter \in [Waiters -> Waiting] /\ \A t \in Waiters : Told(waiter[t], AllSet)
    BY IndexIsTold DEF WaiterInv
<1>4. ASSUME NEW t \in Waiters
      PROVE  waiter'[t] \in Waiting /\ Told(waiter'[t], AllSet')
    <2>1. CASE waiter'[t] = waiter[t]
        BY <1>2, <1>3, <2>1 DEF Told
    <2>2. CASE /\ \E i \in DOMAIN waiter[t].handles : waiter[t].handles[i] = w
               /\ waiter'[t] = [waiter[t] EXCEPT !.state = "woken", !.answer =
                                    Answer(FirstSignaled(waiter[t].handles, {w}))]
        <3>1. waiter[t] \in Waiting
            BY <1>3
        <3>2. waiter'[t] \in Waiting /\ Told(waiter'[t], {w})
            BY <2>2, <3>1, WokenIsTold
        <3> QED BY <1>2, <3>2 DEF Told
    <2> QED BY <1>1, <2>1, <2>2, SetEventWakes
<1>5. waiter' \in [Waiters -> Waiting]
    BY <1>1, <1>4, SetEventWakes
<1>6. (\A t \in Waiters : Told(waiter[t], AllSet))'
    BY <1>4
<1>7. IndexIsSet'
    BY <1>6 DEF IndexIsSet, Told, AllSet
<1> QED BY <1>5, <1>7 DEF WaiterInv

\* The calls a thread makes leave it idle or blocked, never woken.
LEMMA CallsKeepWaiters ==
    ASSUME WaiterInv, NEW t \in Waiters, NEW r \in Waiting, r.state # "woken",
           waiter' = [waiter EXCEPT ![t] = r], UNCHANGED set
    PROVE  WaiterInv'
BY DEF WaiterInv, IndexIsSet

\* A thread outside any call.
LEMMA IdleInWaiting == Idle \in Waiting /\ Idle.state = "idle"
<1>1. <<>> \in Seq(Waits) /\ NoAnswer \in Int
    BY DEF NoAnswer
<1> QED BY <1>1 DEF Idle, Waiting

\* A thread whose call has returned.
LEMMA IdleWaits ==
    ASSUME NEW a \in Int
    PROVE  [Idle EXCEPT !.answer = a] \in Waiting /\ [Idle EXCEPT !.answer = a].state # "woken"
<1>1. \A r \in Waiting : [r EXCEPT !.answer = a] \in Waiting /\ [r EXCEPT !.answer = a].state = r.state
    BY DEF Waiting
<1> QED BY <1>1, IdleInWaiting

\* A wait is refused, satisfied at once, or blocks.
LEMMA WaitAnyKeeps ==
    ASSUME Distinct, WaiterInv, NEW t \in Waiters, NEW h \in Groups, NEW timed \in BOOLEAN,
           WaitAny(t, h, timed)
    PROVE  WaiterInv'
<1>1. h \in Seq(Waits) /\ UNCHANGED set
    BY DEF Distinct, WaitAny
<1>2. CASE waiter' = [waiter EXCEPT ![t] = [Idle EXCEPT !.answer = Rejected]]
    <2>1. Rejected \in Int
        BY DEF Rejected
    <2> QED BY <1>1, <1>2, <2>1, IdleWaits, CallsKeepWaiters
<1>3. CASE /\ FirstSignaled(h, signaled) # 0
           /\ waiter' = [waiter EXCEPT ![t] = [Idle EXCEPT !.answer = Answer(FirstSignaled(h, signaled))]]
    <2>1. \E i \in DOMAIN h : h[i] \in signaled
        BY <1>3 DEF FirstSignaled
    <2>2. Answer(FirstSignaled(h, signaled)) \in Int
        BY <1>1, <2>1, FirstSignaledHit DEF Answer
    <2> QED BY <1>1, <1>3, <2>2, IdleWaits, CallsKeepWaiters
<1>4. CASE waiter' = [waiter EXCEPT ![t] =
                        [Idle EXCEPT !.state = "blocked", !.handles = h, !.timed = timed]]
    <2> DEFINE r == [Idle EXCEPT !.state = "blocked", !.handles = h, !.timed = timed]
    <2>1. ASSUME NEW i \in Waiting
          PROVE  LET j == [i EXCEPT !.state = "blocked", !.handles = h, !.timed = timed]
                 IN  j \in Waiting /\ j.state = "blocked"
        BY <1>1 DEF Waiting
    <2>2. r \in Waiting /\ r.state # "woken"
        BY <2>1, IdleInWaiting
    <2> HIDE DEF r
    <2>3. waiter' = [waiter EXCEPT ![t] = r]
        BY <1>4 DEF r
    <2> QED BY <1>1, <2>2, <2>3, CallsKeepWaiters
<1> QED BY <1>2, <1>3, <1>4 DEF WaitAny

\* A wait returns its index, or times out.
LEMMA WaitEndKeeps ==
    ASSUME WaiterInv, NEW t \in Waiters, WaitReturn(t) \/ WaitTimeout(t)
    PROVE  WaiterInv'
<1>1. waiter[t].answer \in Int /\ TimedOut \in Int
    BY DEF WaiterInv, Waiting, TimedOut
<1>2. \/ waiter' = [waiter EXCEPT ![t] = [Idle EXCEPT !.answer = waiter[t].answer]]
      \/ waiter' = [waiter EXCEPT ![t] = [Idle EXCEPT !.answer = TimedOut]]
    BY DEF WaitReturn, WaitTimeout
<1>3. UNCHANGED set
    BY DEF WaitReturn, WaitTimeout
<1> QED BY <1>1, <1>2, <1>3, IdleWaits, CallsKeepWaiters

\* The threads that register and the lock do not concern those that wait.
LEMMA OthersKeepWaiters ==
    ASSUME WaiterInv, UNCHANGED <<waiter, set>>
    PROVE  WaiterInv'
BY DEF WaiterInv, IndexIsSet

-----------------------------------------------------------------------------
\* Nothing registered, nothing arrived.
LEMMA InitHolds ==
    ASSUME Distinct, Init
    PROVE  SignalInv /\ WaiterInv
<1>1. <<>> \in Seq(Waits)
    OBVIOUS
<1>2. LockType
    BY <1>1, Different DEF Init, LockType, Inside
<1>3. CtrlType
    BY <1>1 DEF Init, CtrlType
<1>4. Handling
    BY Different DEF Init, Handling
<1>5. Registered /\ HandlerWork /\ Ended
    BY DEF Init, Registered, HandlerWork, Ended, Distinct, Reasons
<1>6. WaiterInv
    BY IdleInWaiting DEF Init, WaiterInv, IndexIsSet
<1> QED BY <1>2, <1>3, <1>4, <1>5, <1>6 DEF SignalInv

\* The step of the induction.
LEMMA NextKeeps ==
    ASSUME Distinct, SignalInv, WaiterInv, [Next]_vars
    PROVE  SignalInv' /\ WaiterInv'
<1>1. CASE UNCHANGED vars
    <2>1. UNCHANGED <<stateVars, callVars, ctrl, ended, due, set>> /\ UNCHANGED <<waiter, set>>
        BY <1>1 DEF vars, stateVars, callVars
    <2> QED BY <2>1, WaitsKeep, OthersKeepWaiters
<1> SUFFICES ASSUME Next
             PROVE  SignalInv' /\ WaiterInv'
    BY <1>1
<1>2. ended = None
    BY DEF Next
<1>3. ASSUME NEW c \in Callers, NEW w \in Waits, Lock(c, w)
      PROVE  SignalInv' /\ WaiterInv'
    <2>1. UNCHANGED <<waiter, set>>
        BY <1>3 DEF Lock
    <2> QED BY <1>3, <2>1, LockKeeps, OthersKeepWaiters
<1>4. ASSUME NEW c \in Callers, RegisterStep(c)
      PROVE  SignalInv' /\ WaiterInv'
    <2>1. UNCHANGED <<waiter, set>>
        BY <1>4 DEF RegisterStep, Install, Push
    <2> QED BY <1>2, <1>4, <2>1, InstallKeeps, PushKeeps, OthersKeepWaiters DEF RegisterStep
<1>5. ASSUME NEW n \in Signals, NEW kind \in Kinds, Arrive(n, kind)
      PROVE  SignalInv' /\ WaiterInv'
    <2>1. UNCHANGED <<waiter, set>>
        BY <1>5 DEF Arrive
    <2> QED BY <1>2, <1>5, <2>1, ArriveKeeps, OthersKeepWaiters
<1>6. ASSUME NEW n \in Signals, CtrlLock(n) \/ CtrlReturn(n)
      PROVE  SignalInv' /\ WaiterInv'
    <2>1. UNCHANGED <<waiter, set>>
        BY <1>6 DEF CtrlLock, CtrlReturn
    <2> QED BY <1>6, <2>1, CtrlLockKeeps, CtrlReturnKeeps, OthersKeepWaiters
<1>7. ASSUME NEW n \in Signals, CtrlSet(n)
      PROVE  SignalInv' /\ WaiterInv'
    BY <1>7, CtrlSetKeeps, CtrlSetWakes
<1>8. ASSUME NEW t \in Waiters, NEW h \in Groups, NEW timed \in BOOLEAN, WaitAny(t, h, timed)
      PROVE  SignalInv' /\ WaiterInv'
    <2>1. UNCHANGED <<stateVars, callVars, ctrl, ended, due, set>>
        BY <1>8 DEF WaitAny
    <2> QED BY <1>8, <2>1, WaitsKeep, WaitAnyKeeps
<1>9. ASSUME NEW t \in Waiters, WaitReturn(t) \/ WaitTimeout(t)
      PROVE  SignalInv' /\ WaiterInv'
    <2>1. UNCHANGED <<stateVars, callVars, ctrl, ended, due, set>>
        BY <1>9 DEF WaitReturn, WaitTimeout
    <2> QED BY <1>9, <2>1, WaitsKeep, WaitEndKeeps
<1>10. ASSUME NEW w \in Waits, Reset(w)
       PROVE  SignalInv' /\ WaiterInv'
    <2>1. UNCHANGED <<stateVars, callVars, ctrl, ended, due, set>> /\ UNCHANGED <<waiter, set>>
        BY <1>10 DEF Reset
    <2> QED BY <2>1, WaitsKeep, OthersKeepWaiters
<1> QED
    BY <1>3, <1>4, <1>5, <1>6, <1>7, <1>8, <1>9, <1>10 DEF Next, HandlerStep

\* signal_on_ctrl, signal_all and wait_any: once the handler is installed no
\* signal ends the process unhandled, a signal sets every wait whose
\* registration had finished when it arrived, and a woken thread is told the
\* index of an object that a signal has set.
THEOREM SignalsAreHandled == Spec => []SignalsHandled
<1>0. Distinct
    BY DistinctAssumption DEF DistinctAssumption, Distinct, Reasons
<1>1. Init => SignalInv /\ WaiterInv
    BY <1>0, InitHolds
<1>2. SignalInv /\ WaiterInv /\ [Next]_vars => SignalInv' /\ WaiterInv'
    BY <1>0, NextKeeps
<1>3. SignalInv /\ WaiterInv => SignalsHandled
    BY DEF SignalInv, WaiterInv, Registered, HandlerWork, Ended, SignalsHandled,
           HandledOnceInstalled, EveryWaitIsSet
<1> QED
    BY <1>1, <1>2, <1>3, PTL DEF Spec

-----------------------------------------------------------------------------
(* The instance guard, the canvas, the list view.                          *)

\* The mutex is new for one process at most, and stays that one's.
GuardInv ==
    /\ DOMAIN guard = Processes
    /\ \A p, q \in Processes :
          guard[p] \in {"first", "owner"} /\ guard[q] \in {"first", "owner"} => p = q

\* A target and a frame's target have their own brush, the canvas's resolution
\* and, once the window's WM_SIZE was followed, its size.  A brush may be left
\* without its target, never a target without its brush.
Fitting(t, b) == t.id = b /\ t.dpi = dpi /\ (told => t.size = size)

CanvasInv ==
    /\ DOMAIN target = {"id", "dpi", "size"}
    /\ target # NoTarget => Fitting(target, brush)
    /\ frame # NoFrame => Fitting(frame.target, frame.brush)

\* One row is selected at most, and the parent knows it.
ListInv ==
    /\ selected = {} \/ \E r \in Rows : selected = {r}
    /\ \A r \in Rows : selected = {r} => row = r

WidgetInv == GuardInv /\ CanvasInv /\ ListInv /\ CellFits

LEMMA GuardStep ==
    ASSUME GuardInv, NEW p \in Processes, acquire(p) \/ Answered(p) \/ Release(p)
    PROVE  GuardInv'
<1>1. CASE acquire(p)
    BY <1>1 DEF GuardInv, acquire, Existed, Handles
<1>2. CASE Answered(p)
    BY <1>2 DEF GuardInv, Answered
<1>3. CASE Release(p)
    BY <1>3 DEF GuardInv, Release
<1> QED
    BY <1>1, <1>2, <1>3

LEMMA CanvasStep ==
    ASSUME CanvasInv, WindowResized \/ resize \/ set_dpi \/ BeginDraw \/ EndDraw
    PROVE  CanvasInv'
<1>0. DOMAIN NoTarget = {"id", "dpi", "size"}
    BY DEF NoTarget
<1>1. CASE WindowResized
    BY <1>1 DEF WindowResized, CanvasInv, Fitting
<1>2. CASE resize
    <2>1. frame' = NoFrame /\ UNCHANGED <<brush, dpi, size>>
        BY <1>2 DEF resize
    <2>2. CASE target' = NoTarget
        BY <1>0, <2>1, <2>2 DEF CanvasInv
    <2>3. CASE target # NoTarget /\ target' = [target EXCEPT !.size = size]
        <3>1. target'.id = target.id /\ target'.dpi = target.dpi /\ target'.size = size
            BY <2>3 DEF CanvasInv
        <3>2. DOMAIN target' = DOMAIN target
            BY <2>3
        <3> QED
            BY <2>1, <2>3, <3>1, <3>2 DEF CanvasInv, Fitting
    <2> QED
        BY <1>2, <2>2, <2>3 DEF resize
<1>3. CASE set_dpi
    <2>1. frame' = NoFrame /\ UNCHANGED <<brush, size, told>>
        BY <1>3 DEF set_dpi
    <2>2. PICK d \in Dpis : dpi' = d /\ target' = IF target = NoTarget THEN NoTarget ELSE [target EXCEPT !.dpi = d]
        BY <1>3 DEF set_dpi
    <2>3. CASE target = NoTarget
        BY <1>0, <2>1, <2>2, <2>3 DEF CanvasInv
    <2>4. CASE target # NoTarget
        <3>1. target'.id = target.id /\ target'.dpi = d /\ target'.size = target.size
            BY <2>2, <2>4 DEF CanvasInv
        <3>2. DOMAIN target' = DOMAIN target
            BY <2>2, <2>4
        <3> QED
            BY <2>1, <2>2, <2>4, <3>1, <3>2 DEF CanvasInv, Fitting
    <2> QED
        BY <2>3, <2>4
<1>4. CASE BeginDraw
    <2>1. UNCHANGED <<dpi, size, told>> /\ frame = NoFrame
        BY <1>4 DEF BeginDraw
    <2>2. CASE Reusable /\ frame' = [target |-> target, brush |-> brush] /\ UNCHANGED <<target, brush>>
        BY <2>1, <2>2 DEF CanvasInv, Reusable, Fitting
    <2>3. CASE /\ target' = [id |-> made', dpi |-> dpi, size |-> size] /\ brush' = made'
               /\ frame' = [target |-> target', brush |-> brush']
        BY <2>1, <2>3 DEF CanvasInv, Fitting
    <2>4. CASE UNCHANGED <<target, brush, frame>>
        BY <2>1, <2>4 DEF CanvasInv, Fitting
    <2> QED
        BY <1>4, <2>2, <2>3, <2>4 DEF BeginDraw
<1>5. CASE EndDraw
    BY <1>0, <1>5 DEF EndDraw, CanvasInv, Fitting
<1> QED
    BY <1>1, <1>2, <1>3, <1>4, <1>5

\* A row that becomes the selected one is reported; the focus mark alone is not.
LEMMA ListStep ==
    ASSUME ListInv, NEW r \in Rows \cup {NoOne}, select(r) \/ MoveFocus(r)
    PROVE  ListInv'
<1>1. \A x, chosen, at : "selected" \in State(x, chosen, at) <=> x \in chosen
    BY DEF State
<1>2. CASE MoveFocus(r)
    <2>1. selected' = selected
        BY <1>2 DEF MoveFocus, Change
    <2>2. row' = row
        BY <1>1, <1>2 DEF MoveFocus, Change, BecameSelected
    <2> QED
        BY <2>1, <2>2 DEF ListInv
<1>3. CASE select(r) /\ r = NoOne
    BY <1>3 DEF select, Change, ListInv
<1>4. CASE select(r) /\ r # NoOne
    <2>1. r \in Rows /\ selected' = {r}
        BY <1>4 DEF select, Change
    <2>2. row' = r
        <3> DEFINE was(x) == State(x, selected, focused)
                   is(x) == State(x, {r}, r)
                   news == {x \in {y \in Rows : is(y) # was(y)} : BecameSelected(was(x), is(x))}
        <3>1. IF news # {} THEN \E x \in news : row' = SelectionChanged(x, was(x), is(x)) ELSE row' = row
            BY <1>4 DEF select, Change
        <3>2. \A x \in Rows : x \in news <=> x = r /\ r \notin selected
            <4> TAKE x \in Rows
            <4>1. ("selected" \in is(x) <=> x = r) /\ ("selected" \in was(x) <=> x \in selected)
                BY <1>1
            <4> HIDE DEF is, was
            <4> QED
                BY <4>1 DEF BecameSelected
        <3>3. \A x \in news : SelectionChanged(x, was(x), is(x)) = x
            BY DEF SelectionChanged
        <3> HIDE DEF is, was
        <3>4. CASE r \in selected
            <4>1. selected = {r}
                BY <3>4 DEF ListInv
            <4>2. news = {}
                BY <3>2, <3>4
            <4> QED
                BY <2>1, <3>1, <4>1, <4>2 DEF ListInv
        <3>5. CASE r \notin selected
            <4>1. news = {r}
                BY <2>1, <3>2, <3>5
            <4> HIDE DEF news
            <4> QED
                BY <3>1, <3>3, <4>1
        <3> QED
            BY <3>4, <3>5
    <2> QED
        BY <2>1, <2>2 DEF ListInv
<1> QED
    BY <1>2, <1>3, <1>4

\* The terminator takes the last unit of the buffer at most.
LEMMA CellStep ==
    ASSUME NEW t \in Texts, GetText(t)
    PROVE  CellFits'
<1> DEFINE n == IF Len(t) < Room - 1 THEN Len(t) ELSE Room - 1
<1>1. t \in Seq(Nat) /\ Room \in Nat /\ Room > 0
    BY TextsAssumption DEF GetText
<1>2. n \in 0..Len(t) /\ n <= Room - 1
    BY <1>1
<1>3. SubSeq(t, 1, n) \in Seq(Nat) /\ Len(SubSeq(t, 1, n)) = n
    BY <1>1, <1>2, SubSeqProperties
<1>4. Len(Append(SubSeq(t, 1, n), 0)) = n + 1
    BY <1>3, AppendProperties
<1>5. cell' = Append(SubSeq(t, 1, n), 0)
    BY DEF GetText, Fits
<1> HIDE DEF n
<1> QED
    BY <1>1, <1>2, <1>4, <1>5 DEF CellFits

\* A step of one part leaves the others alone.
LEMMA WidgetStep ==
    ASSUME WidgetInv, [WidgetNext]_widgetVars
    PROVE  WidgetInv'
<1>0. GuardInv /\ CanvasInv /\ ListInv /\ CellFits
    BY DEF WidgetInv
<1>1. ASSUME UNCHANGED instanceVars PROVE GuardInv'
    BY <1>0, <1>1 DEF GuardInv, instanceVars
<1>2. ASSUME UNCHANGED canvasVars PROVE CanvasInv'
    BY <1>0, <1>2 DEF CanvasInv, canvasVars, Fitting
<1>3. ASSUME UNCHANGED <<selected, row>> PROVE ListInv'
    BY <1>0, <1>3 DEF ListInv
<1>4. ASSUME UNCHANGED cell PROVE CellFits'
    BY <1>0, <1>4 DEF CellFits
<1>5. ASSUME NEW p \in Processes, acquire(p) \/ Answered(p) \/ Release(p)
      PROVE  WidgetInv'
    <2>1. UNCHANGED <<canvasVars, listVars>>
        BY <1>5 DEF acquire, Answered, Release
    <2> QED
        BY <1>0, <1>2, <1>3, <1>4, <1>5, <2>1, GuardStep DEF WidgetInv, listVars
<1>6. ASSUME NEW t \in Texts, GetText(t)
      PROVE  WidgetInv'
    <2>1. UNCHANGED <<instanceVars, canvasVars, selected, row>>
        BY <1>6 DEF GetText, RestOfList
    <2> QED
        BY <1>1, <1>2, <1>3, <1>6, <2>1, CellStep DEF WidgetInv
<1>7. CASE WindowResized \/ resize \/ set_dpi \/ BeginDraw \/ EndDraw
    <2>1. UNCHANGED <<instanceVars, listVars>>
        BY <1>7 DEF WindowResized, resize, set_dpi, BeginDraw, EndDraw, RestOfCanvas
    <2> QED
        BY <1>0, <1>1, <1>3, <1>4, <1>7, <2>1, CanvasStep DEF WidgetInv, listVars
<1>8. ASSUME NEW r \in Rows \cup {NoOne}, select(r) \/ MoveFocus(r)
      PROVE  WidgetInv'
    <2>1. UNCHANGED <<instanceVars, canvasVars, cell>>
        BY <1>8 DEF select, MoveFocus, Change, RestOfList
    <2> QED
        BY <1>0, <1>1, <1>2, <1>4, <1>8, <2>1, ListStep DEF WidgetInv
<1>9. CASE UNCHANGED <<instanceVars, canvasVars, listVars>>
    BY <1>1, <1>2, <1>3, <1>4, <1>9 DEF WidgetInv, listVars
<1>10. CASE \/ \E t \in Texts : set_text(t)
            \/ EmptyClipboard \/ SetClipboardData \/ get_text \/ GotText \/ OtherProgram
    BY <1>9, <1>10 DEF set_text, EmptyClipboard, SetClipboardData, get_text, GotText, OtherProgram,
        RestOfClipboard
<1>11. CASE \/ WindowGone \/ collect_top_level_window_handles
            \/ ListWindow \/ collect_child_window_handles
            \/ \E w \in Tops : enumerate_child_windows(w)
    BY <1>9, <1>11 DEF WindowGone, collect_top_level_window_handles, ListWindow,
        collect_child_window_handles, enumerate_child_windows, RestOfWindows
<1>12. CASE UNCHANGED widgetVars
    BY <1>9, <1>12 DEF widgetVars
<1> QED
    BY <1>5, <1>6, <1>7, <1>8, <1>10, <1>11, <1>12 DEF WidgetNext

\* SingleInstance::acquire, Canvas, ListView: at most one process holds the
\* guard, a frame is drawn with its own target's brush at the canvas's
\* resolution and the window's size, the parent knows the selected row, and a
\* cell's text stays inside its buffer, for any processes, rows, sizes,
\* resolutions, texts and buffer.
THEOREM WidgetsAreConsistent == WidgetSpec => []WidgetsConsistent
<1>1. WidgetInit => WidgetInv
    <2> SUFFICES ASSUME WidgetInit PROVE WidgetInv
        OBVIOUS
    <2>1. GuardInv
        BY DEF WidgetInit, GuardInv
    <2>2. CanvasInv
        BY DEF WidgetInit, CanvasInv, NoTarget
    <2>3. ListInv
        BY DEF WidgetInit, ListInv
    <2>4. CellFits
        BY TextsAssumption DEF WidgetInit, CellFits
    <2> QED
        BY <2>1, <2>2, <2>3, <2>4 DEF WidgetInv
<1>2. WidgetInv /\ [WidgetNext]_widgetVars => WidgetInv'
    BY WidgetStep
<1>3. WidgetInv => WidgetsConsistent
    <2> SUFFICES ASSUME WidgetInv PROVE WidgetsConsistent
        OBVIOUS
    <2> DEFINE owners == {p \in Processes : guard[p] = "owner"}
    <2>1. owners = {} \/ \E p : owners = {p}
        <3>1. \A p, q \in owners : p = q
            BY DEF WidgetInv, GuardInv
        <3> HIDE DEF owners
        <3> QED
            BY <3>1
    <2>2. OneInstance
        <3> HIDE DEF owners
        <3>1. Cardinality(owners) \in {0, 1}
            BY <2>1, FS_EmptySet, FS_Singleton
        <3> QED
            BY <3>1 DEF OneInstance, owners
    <2>3. FrameConsistent
        BY DEF WidgetInv, CanvasInv, FrameConsistent, Fitting
    <2> QED
        BY <2>2, <2>3 DEF WidgetInv, ListInv, WidgetsConsistent, SelectionKnown
<1> QED
    BY <1>1, <1>2, <1>3, PTL DEF WidgetSpec
=============================================================================
