----------------------------- MODULE AppWindow -----------------------------
(***************************************************************************)
(* A window bound to a WindowHandler, its message loop and the life of the *)
(* handler's heap slot (src/desktop/window.rs).                            *)
(*                                                                         *)
(* The UI thread is a stack of frames: window procedure calls, and the     *)
(* CreateWindowExW and DestroyWindow calls that send messages.  A handler  *)
(* may call back into the system at any point, which re-enters the window  *)
(* procedure.  The slot is owned by the window from WM_NCCREATE to         *)
(* WM_NCDESTROY.  Other threads post messages.                             *)
(***************************************************************************)
EXTENDS Integers, Sequences

CONSTANTS
    MaxDepth,   \* bound: nested frames
    MaxQueue,   \* bound: posted messages waiting
    MaxPosts    \* bound: messages posted

\* Messages that tell behaviours apart: WM_SIZE is sent by a call the handler
\* makes, WM_APP and WM_CLOSE are posted.
Messages == {"NCCREATE", "SIZE", "APP", "CLOSE", "DESTROY", "NCDESTROY"}

VARIABLES
    win,      \* the window: "none", "alive", "destroying", "gone"
    userdata, \* GWLP_USERDATA holds the slot
    slot,     \* the boxed handler: "none", "owned", "freed"
    frees,    \* history: times it was freed
    stray,    \* history: handle() was entered on a freed slot
    stack,    \* frames of the UI thread, the running one last
    owner,    \* the Window value: "none", "held", "dropped"
    created,  \* what create returned: "none", "ok", "error"
    queue,    \* posted messages
    posts,    \* messages posted so far
    quit,     \* WM_QUIT is pending
    loop      \* run_message_loop: "idle", "running", "ended"

appVars == <<win, userdata, slot, frees, stray, stack, owner, created, queue, posts, quit, loop>>
heapVars == <<userdata, slot, frees, stray>>
queueVars == <<queue, posts, quit, loop>>

-----------------------------------------------------------------------------
(* Frames.                                                                 *)

\* handler_window_proc for msg, about to look up its slot; `has` is its local
\* slot variable.
Proc(msg) == [kind |-> "proc", msg |-> msg, at |-> "enter", has |-> FALSE]
\* A system call that sends messages, about to send msg.
Sys(kind, msg) == [kind |-> kind, msg |-> msg, at |-> "send", has |-> FALSE]

Top == stack[Len(stack)]
Under(n) == SubSeq(stack, 1, Len(stack) - n)
Running(kind, at) == stack # <<>> /\ Top.kind = kind /\ Top.at = at
\* The running frame goes on at another place, below the frames that follow.
Goto(at) == Append(Under(1), [Top EXCEPT !.at = at])
Call(f) == Append(stack, f)

\* Handler code runs: inside handle(), or in the handler's own Drop.
InHandler == Running("proc", "handle") \/ Running("proc", "drop")
Deeper == Len(stack) < MaxDepth

-----------------------------------------------------------------------------
(* WindowBuilder::create.                                                  *)

\* CreateWindowExW begins; it may fail before any message is sent, and the
\* slot is then leaked.
CreateWindow ==
    /\ created = "none" /\ stack = <<>>
    /\ slot' = "owned"
    /\ \/ /\ win' = "alive"
          /\ stack' = <<Sys("create", "NCCREATE"), Proc("NCCREATE")>>
          /\ UNCHANGED created
       \/ /\ created' = "error"
          /\ UNCHANGED <<win, stack>>
    /\ UNCHANGED <<userdata, frees, stray, owner, queueVars>>

\* It returns the window, or tears it down again and fails.
CreateReturn ==
    /\ Running("create", "send")
    /\ \/ /\ Top.msg = "NCCREATE" /\ win = "alive"
          /\ stack' = Under(1)
          /\ created' = "ok" /\ owner' = "held"
          /\ UNCHANGED <<win, queue>>
       \/ /\ Top.msg = "NCCREATE" /\ win = "alive"
          /\ win' = "destroying"
          /\ stack' = Append(Append(Under(1), Sys("create", "NCDESTROY")), Proc("NCDESTROY"))
          /\ UNCHANGED <<created, owner, queue>>
       \/ /\ Top.msg = "NCDESTROY" \/ win = "gone"
          /\ win' = "gone" /\ queue' = <<>>
          /\ stack' = Under(1)
          /\ created' = "error"
          /\ UNCHANGED owner
    /\ UNCHANGED <<heapVars, posts, quit, loop>>

-----------------------------------------------------------------------------
(* handler_window_proc.                                                    *)

\* WM_NCCREATE stores the slot; the slot is read and handle() called on it.
ProcEnter ==
    /\ Running("proc", "enter")
    /\ LET has == userdata \/ Top.msg = "NCCREATE"
       IN /\ userdata' = has
          /\ stack' = Append(Under(1), [Top EXCEPT !.has = has, !.at = IF has THEN "handle" ELSE "none"])
          /\ stray' = (stray \/ (has /\ slot = "freed"))
    /\ UNCHANGED <<win, slot, frees, owner, created, queueVars>>

\* handle() returns Some or None.
HandleReturn ==
    /\ Running("proc", "handle")
    /\ \E at \in {"some", "none"} :
         stack' = Goto(IF Top.msg = "NCDESTROY" THEN "detach" ELSE at)
    /\ UNCHANGED <<win, heapVars, owner, created, queueVars>>

\* A mutant: the slot is freed while the window still refers to it.
ProcDetach_After ==
    /\ Running("proc", "detach")
    /\ slot' = "freed" /\ frees' = frees + 1
    /\ stack' = Goto("drop")
    /\ UNCHANGED <<win, userdata, stray, owner, created, queueVars>>

\* The handler is freed on WM_NCDESTROY: the window no longer refers to it
\* when its Drop runs.
ProcDetach ==
    /\ Running("proc", "detach")
    /\ userdata' = FALSE
    /\ slot' = "freed" /\ frees' = frees + 1
    /\ stack' = Goto("drop")
    /\ UNCHANGED <<win, stray, owner, created, queueVars>>

DropReturn ==
    /\ Running("proc", "drop")
    /\ stack' = Goto("none")
    /\ UNCHANGED <<win, heapVars, owner, created, queueVars>>

\* The result, or DefWindowProcW, which destroys the window on WM_CLOSE.
ProcReturn ==
    /\ Running("proc", "some") \/ Running("proc", "none")
    /\ IF Top.at = "none" /\ Top.msg = "CLOSE" /\ win = "alive"
       THEN /\ win' = "destroying"
            /\ stack' = Append(Append(Under(1), Sys("destroy", "DESTROY")), Proc("DESTROY"))
       ELSE /\ stack' = Under(1)
            /\ UNCHANGED win
    /\ UNCHANGED <<heapVars, owner, created, queueVars>>

-----------------------------------------------------------------------------
(* Calls a handler makes, and Window's Drop.                               *)

\* DestroyWindow on a window that is not being destroyed already.
DestroyWindow(frames) ==
    /\ win = "alive"
    /\ win' = "destroying"
    /\ stack' = frames \o <<Sys("destroy", "DESTROY"), Proc("DESTROY")>>

\* WindowHandle::destroy.
HandlerDestroys ==
    /\ InHandler /\ Deeper
    /\ DestroyWindow(stack)
    /\ UNCHANGED <<heapVars, owner, created, queueVars>>

\* DestroyWindow sends WM_DESTROY, then WM_NCDESTROY; the window is gone and
\* its posted messages are removed.
DestroyStep ==
    /\ Running("destroy", "send")
    /\ \/ /\ Top.msg = "DESTROY"
          /\ stack' = Append(Append(Under(1), Sys("destroy", "NCDESTROY")), Proc("NCDESTROY"))
          /\ UNCHANGED <<win, queue>>
       \/ /\ Top.msg = "NCDESTROY"
          /\ win' = "gone"
          /\ queue' = <<>>
          /\ stack' = Under(1)
    /\ UNCHANGED <<heapVars, owner, created, posts, quit, loop>>

\* show, set_bounds, set_text ...: a message is sent to the window at once.
HandlerSends ==
    /\ InHandler /\ Deeper
    /\ win \in {"alive", "destroying"}
    /\ stack' = Call(Proc("SIZE"))
    /\ UNCHANGED <<win, heapVars, owner, created, queueVars>>

\* post_quit.
PostQuit ==
    /\ InHandler
    /\ ~quit
    /\ quit' = TRUE
    /\ UNCHANGED <<win, heapVars, stack, owner, created, queue, posts, loop>>

\* Drop for Window, by the code around the loop or by the handler.
DropWindow ==
    /\ owner = "held" /\ (stack = <<>> \/ (InHandler /\ Deeper))
    /\ owner' = "dropped"
    /\ \/ DestroyWindow(stack)
       \/ /\ win # "alive"
          /\ UNCHANGED <<win, stack>>
    /\ UNCHANGED <<heapVars, created, queueVars>>

-----------------------------------------------------------------------------
(* run_message_loop and MessagePoster.                                     *)

Run ==
    /\ loop = "idle" /\ stack = <<>> /\ created = "ok"
    /\ loop' = "running"
    /\ UNCHANGED <<win, heapVars, stack, owner, created, queue, posts, quit>>

\* GetMessageW: a posted message is dispatched; WM_QUIT comes when none is left;
\* a failure ends the loop too.
GetMessage ==
    /\ loop = "running" /\ stack = <<>>
    /\ \/ /\ queue # <<>>
          /\ queue' = Tail(queue)
          /\ stack' = <<Proc(Head(queue))>>
          /\ UNCHANGED <<quit, loop>>
       \/ /\ queue = <<>> /\ quit
          /\ quit' = FALSE
          /\ loop' = "ended"
          /\ UNCHANGED <<queue, stack>>
       \/ /\ loop' = "ended"
          /\ UNCHANGED <<queue, stack, quit>>
    /\ UNCHANGED <<win, heapVars, owner, created, posts>>

\* MessagePoster::post, from any thread; it fails once the window is gone.
Post(msg) ==
    /\ win \in {"alive", "destroying"}
    /\ posts < MaxPosts /\ Len(queue) < MaxQueue
    /\ posts' = posts + 1
    /\ queue' = Append(queue, msg)
    /\ UNCHANGED <<win, heapVars, stack, owner, created, quit, loop>>

-----------------------------------------------------------------------------
AppInit ==
    /\ win = "none" /\ userdata = FALSE /\ slot = "none" /\ frees = 0 /\ stray = FALSE
    /\ stack = <<>> /\ owner = "none" /\ created = "none"
    /\ queue = <<>> /\ posts = 0 /\ quit = FALSE /\ loop = "idle"

ThreadStep ==
    \/ CreateReturn
    \/ ProcEnter \/ HandleReturn \/ ProcDetach \/ DropReturn \/ ProcReturn
    \/ DestroyStep
    \/ GetMessage

HandlerCall == HandlerDestroys \/ HandlerSends \/ PostQuit \/ DropWindow

AppNext ==
    \/ CreateWindow \/ Run
    \/ ThreadStep
    \/ HandlerCall
    \/ \E msg \in {"APP", "CLOSE"} : Post(msg)

AppSpec == AppInit /\ [][AppNext]_appVars

-----------------------------------------------------------------------------
(* Properties.                                                             *)

\* Every variable keeps its type; the handler is freed at most once.
AppTypeOK ==
    /\ win \in {"none", "alive", "destroying", "gone"}
    /\ {userdata, stray, quit} \subseteq BOOLEAN
    /\ slot \in {"none", "owned", "freed"}
    /\ frees \in 0 .. 1
    /\ \A i \in DOMAIN stack :
        /\ stack[i].kind \in {"proc", "create", "destroy"}
        /\ stack[i].msg \in Messages
        /\ stack[i].at \in {"enter", "handle", "detach", "drop", "some", "none", "send"}
    /\ owner \in {"none", "held", "dropped"}
    /\ created \in {"none", "ok", "error"}
    /\ Len(queue) <= MaxQueue
    /\ loop \in {"idle", "running", "ended"}

\* "the slot is detached first, then freed exactly once": no message, not even
\* one the handler's own Drop sends, enters a handler that was freed.
NeverEnteredFreed == ~stray /\ frees <= 1

\* "is dropped after WM_NCDESTROY": when the window is gone and no
\* call is left the handler is gone too, and it is never gone before.
HandlerFreedWithWindow ==
    /\ win = "gone" /\ stack = <<>> => slot = "freed"
    /\ slot = "freed" => win \in {"destroying", "gone"}

\* "Dropping it destroys the window": once the Window value has been dropped
\* and the thread is back at its loop, there is no window.
DropDestroys == owner = "dropped" /\ stack = <<>> => win = "gone"

\* The handler lives as long as its window: never entered once it is freed,
\* freed with the window, which goes with the Window value.
HandlerLifetime == NeverEnteredFreed /\ HandlerFreedWithWindow /\ DropDestroys

\* "The slot stays valid until WM_NCDESTROY below; only shared references are
\* made, so re-entrant calls are sound": as long as handle() runs on it.
HandlerOutlivesItsCalls ==
    (\E i \in DOMAIN stack : stack[i].at = "handle" /\ stack[i].has) => slot = "owned"
=============================================================================
