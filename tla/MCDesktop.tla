----------------------------- MODULE MCDesktop -----------------------------
(* What the system calls back into: the console's control handler with two   *)
(* registering and two waiting threads, a window and its handler, an icon in *)
(* the notification area, the smaller parts of a desktop program.  A         *)
(* behaviour follows one of these modules.                                   *)
EXTENDS ConsoleSignal, TrayIcon, AppWindow, Widgets

CONSTANTS c1, c2, t1, t2, m, a

VARIABLE follows  \* the module this behaviour follows

\* A manual-reset object m and an auto-reset object a.
MCGroups == { <<>>, <<a, m>>, <<m, a, m>> }

\* UTF-16 units, one text with a terminator inside; two windows with a child each.
MCTexts == {<<>>, <<5>>, <<5, 0, 6>>, <<5, 6, 7>>}
MCWindows == {<<1, 0>>, <<2, 0>>, <<3, 1>>, <<4, 2>>}

MCInit ==
    /\ follows \in {"console", "window", "tray", "small"}
    /\ Init
    /\ AppInit
    /\ TrayInit
    /\ WidgetInit /\ (follows # "small" => part = "instance")

MCNext ==
    \/ follows = "console" /\ Next /\ UNCHANGED <<follows, appVars, trayVars, widgetVars>>
    \/ follows = "window" /\ AppNext /\ UNCHANGED <<follows, vars, trayVars, widgetVars>>
    \/ follows = "tray" /\ TrayNext /\ UNCHANGED <<follows, vars, appVars, widgetVars>>
    \/ follows = "small" /\ WidgetNext /\ UNCHANGED <<follows, vars, appVars, trayVars>>

MCSpec ==
    /\ MCInit
    /\ [][MCNext]_<<follows, vars, appVars, trayVars, widgetVars>>
    /\ Fairness
=============================================================================
