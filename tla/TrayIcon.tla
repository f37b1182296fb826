------------------------------ MODULE TrayIcon ------------------------------
(***************************************************************************)
(* A notification-area icon (src/desktop/tray.rs): what the TrayIcon value *)
(* believes, and what the shell shows, across restarts of the shell, which *)
(* a queued message announces, and calls the shell refuses.                *)
(***************************************************************************)
EXTENDS Integers

CONSTANTS
    Tips,         \* tooltip texts
    Icons,        \* icon resources
    NoTip,        \* the empty tooltip of a TrayIcon not yet added
    Callback,     \* a callback message is set, so version 4 is asked for
    OwnsWindow,   \* no owner window given: the icon creates its own
    MaxRestarts,  \* bound: restarts of the shell
    MaxOps        \* bound: calls made by the application

\* What the shell shows for (hWnd, uID), or Nothing.
Nothing == [tip |-> NoTip, icon |-> NoTip, v4 |-> FALSE]

VARIABLES
    shown,      \* the shell's entry for the icon
    announced,  \* TaskbarCreated messages in the owner's message queue
    restarts,   \* restarts of the shell
    value,      \* the TrayIcon: "none", "adding", "versioning", "live",
                \* "readding", "failed", "dropped"
    added,      \* icon_added
    tooltip,    \* the remembered tooltip
    hicon,      \* the remembered icon
    window,     \* the message window: "none", "open", "destroyed"
    stuck,      \* history: the shell refused to delete the icon
    again,      \* history: re_add ran while the shell had the icon
    old,        \* history: the shell refused version 4 for an icon added again
    ops         \* calls made

trayVars == <<shown, announced, restarts, value, added, tooltip, hicon, window, stuck, again, old, ops>>
shellVars == <<announced, restarts>>
mineVars == <<added, tooltip, hicon, window>>

-----------------------------------------------------------------------------
(* Shell_NotifyIconW.  NIM_ADD fails for an icon that exists, the others   *)
(* for one that does not; any of them may fail for other reasons.          *)

Exists == shown # Nothing
Refuse == UNCHANGED shown

\* Explorer restarts: its icons are gone, and every window gets a message.
TaskbarCreated ==
    /\ restarts < MaxRestarts
    /\ restarts' = restarts + 1
    /\ shown' = Nothing
    /\ announced' = IF value \in {"none", "failed", "dropped"} THEN announced ELSE announced + 1
    /\ UNCHANGED <<mineVars, value, stuck, again, old, ops>>

-----------------------------------------------------------------------------
(* TrayIconBuilder::create and add_icon.                                   *)

\* The window is created, or given; icon and tooltip are chosen.
Create(i) ==
    /\ value = "none"
    /\ \/ /\ value' = "adding"
          /\ window' = IF OwnsWindow THEN "open" ELSE window
          /\ hicon' = i
       \/ /\ OwnsWindow
          /\ value' = "failed"
          /\ UNCHANGED <<window, hicon>>
    /\ UNCHANGED <<shown, shellVars, added, tooltip, stuck, again, old, ops>>

\* Drop of a TrayIcon: remove(), whose error is ignored, and DestroyWindow.
Dispose(final) ==
    /\ value' = final
    /\ window' = IF OwnsWindow THEN "destroyed" ELSE window
    /\ \/ /\ added /\ Exists
          /\ shown' = Nothing /\ added' = FALSE
          /\ UNCHANGED stuck
       \/ /\ added
          /\ Refuse /\ stuck' = (stuck \/ Exists)
          /\ UNCHANGED added
       \/ /\ ~added
          /\ UNCHANGED <<shown, added, stuck>>

\* NIM_ADD succeeds: icon_added is set before NIM_SETVERSION can fail.
Added(tip) ==
    /\ ~Exists
    /\ shown' = [tip |-> tip, icon |-> hicon, v4 |-> FALSE]
    /\ added' = TRUE
    /\ tooltip' = tip

\* NIM_ADD of create; on failure the half-made TrayIcon is dropped.
AddIcon(tip) ==
    /\ value = "adding"
    /\ \/ /\ Added(tip)
          /\ value' = IF Callback THEN "versioning" ELSE "live"
          /\ UNCHANGED <<window, stuck>>
       \/ /\ Dispose("failed")
          /\ UNCHANGED tooltip
    /\ UNCHANGED <<shellVars, hicon, again, old, ops>>

\* NIM_SETVERSION of create.
SetVersion ==
    /\ value = "versioning"
    /\ \/ /\ Exists
          /\ shown' = [shown EXCEPT !.v4 = TRUE]
          /\ value' = "live"
          /\ UNCHANGED <<added, window, stuck>>
       \/ Dispose("failed")
    /\ UNCHANGED <<shellVars, tooltip, hicon, again, old, ops>>

-----------------------------------------------------------------------------
(* Operations on a TrayIcon.                                               *)

Operation ==
    /\ value = "live" /\ ops < MaxOps
    /\ ops' = ops + 1

\* A mutant: the tooltip is remembered whether or not the shell has taken it.
UpdateTooltip_Early(tip) ==
    /\ Operation
    /\ tooltip' = tip
    /\ \/ /\ Exists
          /\ shown' = [shown EXCEPT !.tip = tip]
       \/ Refuse
    /\ UNCHANGED <<shellVars, value, added, hicon, window, stuck, again, old>>

UpdateTooltip(tip) ==
    /\ Operation
    /\ \/ /\ Exists
          /\ shown' = [shown EXCEPT !.tip = tip]
          /\ tooltip' = tip
       \/ /\ Refuse
          /\ UNCHANGED tooltip
    /\ UNCHANGED <<shellVars, value, added, hicon, window, stuck, again, old>>

SetIconResource(i) ==
    /\ Operation
    /\ \/ /\ Exists
          /\ shown' = [shown EXCEPT !.icon = i]
          /\ hicon' = i
       \/ /\ Refuse
          /\ UNCHANGED hicon
    /\ UNCHANGED <<shellVars, value, added, tooltip, window, stuck, again, old>>

\* re_add, on TaskbarCreated: icon_added is cleared, then NIM_ADD.
ReAdd ==
    /\ value = "live" /\ announced > 0
    /\ announced' = announced - 1
    /\ again' = (again \/ Exists)
    /\ \/ /\ Added(tooltip)
          /\ value' = IF Callback THEN "readding" ELSE "live"
       \/ /\ Refuse
          /\ added' = FALSE
          /\ UNCHANGED <<tooltip, value>>
    /\ UNCHANGED <<restarts, hicon, window, stuck, old, ops>>

\* NIM_SETVERSION of re_add.
ReSetVersion ==
    /\ value = "readding"
    /\ value' = "live"
    /\ \/ /\ Exists
          /\ shown' = [shown EXCEPT !.v4 = TRUE]
          /\ UNCHANGED old
       \/ /\ Refuse
          /\ old' = TRUE
    /\ UNCHANGED <<shellVars, mineVars, stuck, again, ops>>

\* remove: idempotent; icon_added stays set when the shell refuses.
Remove ==
    /\ Operation
    /\ \/ /\ added /\ Exists
          /\ shown' = Nothing /\ added' = FALSE
       \/ UNCHANGED <<shown, added>>
    /\ UNCHANGED <<shellVars, value, tooltip, hicon, window, stuck, again, old>>

DropIcon ==
    /\ value = "live"
    /\ Dispose("dropped")
    /\ UNCHANGED <<shellVars, tooltip, hicon, again, old, ops>>

-----------------------------------------------------------------------------
TrayInit ==
    /\ shown = Nothing /\ announced = 0 /\ restarts = 0
    /\ value = "none" /\ added = FALSE /\ tooltip = NoTip /\ hicon = NoTip
    /\ window = "none" /\ stuck = FALSE /\ again = FALSE /\ old = FALSE /\ ops = 0

TrayNext ==
    \/ TaskbarCreated
    \/ \E i \in Icons : Create(i) \/ SetIconResource(i)
    \/ \E tip \in Tips : AddIcon(tip) \/ UpdateTooltip(tip)
    \/ SetVersion \/ ReAdd \/ ReSetVersion \/ Remove \/ DropIcon

TraySpec == TrayInit /\ [][TrayNext]_trayVars

-----------------------------------------------------------------------------
(* Properties.                                                             *)

\* Every variable keeps its type.
TrayTypeOK ==
    /\ Exists => shown.tip \in Tips /\ shown.icon \in Icons /\ shown.v4 \in BOOLEAN
    /\ {added, stuck, again, old} \subseteq BOOLEAN
    /\ value \in {"none", "adding", "versioning", "readding", "live", "failed", "dropped"}
    /\ tooltip \in Tips \cup {NoTip} /\ hicon \in Icons \cup {NoTip}
    /\ window \in {"none", "open", "destroyed"}
    /\ announced \in 0 .. MaxRestarts /\ restarts \in 0 .. MaxRestarts /\ ops \in 0 .. MaxOps

\* Whatever was refused and whenever the shell restarted, an icon that is
\* shown has the last tooltip and icon the TrayIcon was given.
ShownIsRemembered == Exists => shown.tip = tooltip /\ shown.icon = hicon

\* A TrayIcon that is dropped, or whose creation failed half-way, leaves
\* neither its icon nor its window behind, unless the shell itself refused to
\* delete the icon or re_add was called for an icon that was not lost.
NothingLeft ==
    value \in {"dropped", "failed"} /\ ~stuck /\ ~again => ~Exists /\ window # "open"

\* "Notification area icon with RAII lifecycle management": a dropped TrayIcon
\* has no icon, unless the shell refused to delete it.
DropRemovesIcon == value = "dropped" /\ ~stuck => ~Exists

\* An icon with a callback message speaks version 4, which TrayEvent::decode
\* expects, unless the shell refused the version after a restart.
SpeaksVersion4 ==
    Callback /\ Exists /\ value = "live" /\ ~old => shown.v4

\* The icon, the shell and the TrayIcon agree, through restarts of the shell
\* and refused calls, and nothing is left when the value is gone.
TrayConsistent == ShownIsRemembered /\ SpeaksVersion4 /\ NothingLeft
=============================================================================
