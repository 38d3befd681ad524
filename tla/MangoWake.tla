------------------------------ MODULE MangoWake ------------------------------
(***************************************************************************)
(* How the mangowc adapter talks to its Wayland thread                     *)
(* (mangowc/src/lib.rs: CommandSender, run_wayland_loop, subscribe, get,   *)
(* set and shutdown).                                                      *)
(*                                                                         *)
(* A command goes into a channel, and a write to an eventfd wakes the      *)
(* thread, which otherwise sleeps in poll until the compositor sends       *)
(* something.  The adapter actor owns the adapter, so one of its methods   *)
(* runs at a time.                                                         *)
(***************************************************************************)
EXTENDS Naturals, Sequences

VARIABLES
  thread,    \* where run_wayland_loop is
  polled,    \* what the last poll reported: a wake-up, compositor's data
  channel,   \* cmd_tx's channel
  sender,    \* cmd_tx is not dropped yet
  wake,      \* the eventfd's counter is not zero
  readable,  \* the compositor has sent something
  method,    \* the adapter's method that runs or ran last
  call,      \* where that method is
  reply,     \* the oneshot of its command
  unsent     \* a set has been answered and its request is still in the client's buffer

vars == <<thread, polled, channel, sender, wake, readable, method, call, reply, unsent>>

Methods == {"subscribe", "get", "set", "set_layout_name", "shutdown"}

(* set_layout_name first asks for the state, to find the layout's index. *)
Command(m) == CASE m = "get"             -> "GetState"
                [] m = "set_layout_name" -> "GetState"
                [] m = "set"             -> "Set"
                [] m = "shutdown"        -> "Shutdown"

TypeOK ==
  /\ thread \in {"init", "drain", "flush", "poll", "clear", "dispatch", "ended"}
  /\ polled \in [wake : BOOLEAN, readable : BOOLEAN]
  /\ channel \in Seq({"GetState", "Set", "Shutdown"})
  /\ sender \in BOOLEAN
  /\ wake \in BOOLEAN
  /\ readable \in BOOLEAN
  /\ method \in Methods
  /\ call \in {"await", "notify", "idle", "drop", "dropping", "gone"}
  /\ reply \in {"none", "ok", "err", "dropped"}
  /\ unsent \in BOOLEAN

(* subscribe has spawned the thread and waits for init_tx. *)
Init ==
  /\ thread = "init"
  /\ polled = [wake |-> FALSE, readable |-> FALSE]
  /\ channel = <<>>
  /\ sender = TRUE
  /\ wake = FALSE
  /\ readable = FALSE
  /\ method = "subscribe"
  /\ call = "await"
  /\ reply = "none"
  /\ unsent = FALSE

-----------------------------------------------------------------------------
(* The adapter. *)

Receiving == thread # "ended"

(* CommandSender::send up to its notify. *)
SendCommand(m) ==
  /\ Receiving
  /\ channel' = Append(channel, Command(m))
  /\ reply' = "none"
  /\ call' = "notify"

(* get, set or shutdown; with the thread gone a get or set is an error at    *)
(* once and shutdown goes on.                                                *)
Start(m) ==
  /\ call = "idle"
  /\ method' = m
  /\ \/ SendCommand(m)
     \/ /\ ~Receiving
        /\ m = "shutdown"
        /\ call' = "drop"
        /\ UNCHANGED <<channel, reply>>
  /\ UNCHANGED <<thread, polled, sender, wake, readable, unsent>>

(* A mutant of Notify: the eventfd is not written. *)
NotifyNobody ==
  /\ call = "notify"
  /\ call' = IF method = "shutdown" THEN "drop" ELSE "await"
  /\ UNCHANGED <<thread, polled, channel, sender, wake, readable, method, reply, unsent>>

Notify ==
  /\ call = "notify"
  /\ wake' = TRUE
  /\ call' = IF method = "shutdown" THEN "drop" ELSE "await"
  /\ UNCHANGED <<thread, polled, channel, sender, readable, method, reply, unsent>>

Return ==
  /\ call = "await"
  /\ reply # "none"
  /\ \/ /\ method = "set_layout_name"
        /\ reply = "ok"
        /\ method' = "set"
        /\ SendCommand("set")
     \/ /\ call' = "idle"   \* also when no layout has that name
        /\ UNCHANGED <<channel, method, reply>>
  /\ UNCHANGED <<thread, polled, sender, wake, readable, unsent>>

(* self.cmd_tx = None, or the adapter itself is dropped, which it is without *)
(* a shutdown when subscribe fails: CommandSender::drop, then its fields.    *)
Drop ==
  /\ call \in {"drop", "idle"}
  /\ wake' = TRUE
  /\ call' = "dropping"
  /\ UNCHANGED <<thread, polled, channel, sender, readable, method, reply, unsent>>

DropSender ==
  /\ call = "dropping"
  /\ sender' = FALSE
  /\ call' = "gone"
  /\ UNCHANGED <<thread, polled, channel, wake, readable, method, reply, unsent>>

-----------------------------------------------------------------------------
(* The thread. *)

(* run_wayland_loop returns: the receiver goes, and with it the commands     *)
(* nobody has answered and their replies.                                    *)
End ==
  /\ thread' = "ended"
  /\ channel' = <<>>
  /\ reply' = IF channel # <<>> THEN "dropped" ELSE reply
  /\ UNCHANGED <<polled, sender, wake, readable, method, call, unsent>>

InitThread ==
  /\ thread = "init"
  /\ \/ /\ thread' = "drain"
        /\ reply' = "ok"
     \/ /\ thread' = "ended"
        /\ reply' = "err"
  /\ UNCHANGED <<polled, channel, sender, wake, readable, method, call, unsent>>

(* GetState gets a copy of the state.  A set fails when no output has the    *)
(* focus; otherwise its request is put into the connection's buffer and the  *)
(* set is answered, whatever becomes of the buffer.                          *)
Answer ==
  IF Head(channel) = "Set"
  THEN \/ reply' = "ok" /\ unsent' = TRUE
       \/ reply' = "err" /\ UNCHANGED unsent
  ELSE reply' = "ok" /\ UNCHANGED unsent

(* A mutant of ServeCommand: Shutdown is left to the dropped sender. *)
ServeCommandButShutdown ==
  /\ thread = "drain"
  /\ channel # <<>>
  /\ channel' = Tail(channel)
  /\ Answer
  /\ UNCHANGED <<thread, polled, sender, wake, readable, method, call>>

ServeCommand ==
  /\ thread = "drain"
  /\ channel # <<>>
  /\ \/ /\ Head(channel) # "Shutdown"
        /\ channel' = Tail(channel)
        /\ Answer
        /\ UNCHANGED <<thread, polled, sender, wake, readable, method, call>>
     \/ /\ Head(channel) = "Shutdown"
        /\ End

(* A mutant of ChannelEmpty: the buffer is left for later. *)
ChannelEmptyUnflushed ==
  /\ thread = "drain"
  /\ channel = <<>>
  /\ IF sender
     THEN /\ thread' = "poll"
          /\ UNCHANGED <<polled, channel, sender, wake, readable, method, call, reply, unsent>>
     ELSE End

ChannelEmpty ==
  /\ thread = "drain"
  /\ channel = <<>>
  /\ IF sender
     THEN /\ thread' = "flush"
          /\ UNCHANGED <<polled, channel, sender, wake, readable, method, call, reply, unsent>>
     ELSE End

Flush ==
  /\ thread = "flush"
  /\ \/ /\ thread' = "poll"
        /\ unsent' = FALSE
        /\ UNCHANGED <<polled, channel, sender, wake, readable, method, call, reply>>
     \/ End   \* the connection is broken

Poll ==
  /\ thread = "poll"
  /\ \/ /\ wake \/ readable
        /\ polled' = [wake |-> wake, readable |-> readable]
        /\ thread' = "clear"
        /\ UNCHANGED <<channel, sender, wake, readable, method, call, reply, unsent>>
     \/ /\ thread' = "drain"   \* EINTR
        /\ UNCHANGED <<polled, channel, sender, wake, readable, method, call, reply, unsent>>
     \/ End

Clear ==
  /\ thread = "clear"
  /\ wake' = (wake /\ ~polled.wake)
  /\ thread' = "dispatch"
  /\ UNCHANGED <<polled, channel, sender, readable, method, call, reply, unsent>>

(* A mutant of Dispatch: the loop goes on where it flushes. *)
DispatchSkippingDrain ==
  /\ thread = "dispatch"
  /\ \/ /\ thread' = "flush"
        /\ readable' = (readable /\ ~polled.readable)
        /\ UNCHANGED <<polled, channel, sender, wake, method, call, reply, unsent>>
     \/ /\ polled.readable
        /\ End

Dispatch ==
  /\ thread = "dispatch"
  /\ \/ /\ thread' = "drain"
        /\ readable' = (readable /\ ~polled.readable)
        /\ UNCHANGED <<polled, channel, sender, wake, method, call, reply, unsent>>
     \/ /\ polled.readable
        /\ End

(* The compositor sends something, or hangs up. *)
CompositorSends ==
  /\ Receiving
  /\ readable' = TRUE
  /\ UNCHANGED <<thread, polled, channel, sender, wake, method, call, reply, unsent>>

-----------------------------------------------------------------------------
Thread == InitThread \/ ServeCommand \/ ChannelEmpty \/ Flush \/ Clear \/ Dispatch
            \/ (Poll /\ (wake \/ readable))

Next ==
  \/ \E m \in Methods \ {"subscribe"} : Start(m)
  \/ Notify \/ Return \/ Drop \/ DropSender
  \/ InitThread \/ ServeCommand \/ ChannelEmpty \/ Flush \/ Poll \/ Clear \/ Dispatch
  \/ CompositorSends

Spec == Init /\ [][Next]_vars

(* The thread runs, poll returns when it has something to report, and a      *)
(* method that has begun goes on.  Nothing makes the compositor send, a      *)
(* signal arrive or the adapter be dropped.                                  *)
FairSpec ==
  /\ Spec
  /\ WF_vars(Thread)
  /\ WF_vars(Notify)
  /\ WF_vars(Return)
  /\ WF_vars(call = "drop" /\ Drop)
  /\ WF_vars(DropSender)

-----------------------------------------------------------------------------
(* The thread never sleeps on a command: when one is in the channel and its  *)
(* sender has written to the eventfd, a thread that is about to sleep finds  *)
(* the eventfd set (CommandSender::send against the order of the loop).      *)
NoLostWakeup ==
  channel # <<>> /\ call # "notify" /\ thread \in {"flush", "poll", "clear"} => wake

(* No call waits for an answer that nobody will give: its command is in the  *)
(* channel of a thread that still receives, or it is answered, or dropped by *)
(* the end of the thread.                                                    *)
NoOrphanedCall ==
  call = "await" /\ reply = "none" => IF method = "subscribe" THEN thread = "init"
                                      ELSE Len(channel) = 1 /\ Receiving

(* Every call returns, although the compositor may stay silent for ever.     *)
CallsReturn == call \in {"notify", "await"} ~> call \notin {"notify", "await"}

(* Shutting the adapter down ends the thread.                                *)
ShutdownEndsThread == method = "shutdown" ~> thread = "ended"

(* A set that has been answered is not forgotten: its request leaves the     *)
(* buffer before the thread sleeps, which it may do for ever, so that only   *)
(* the end of the thread can lose it (a Shutdown found in the same drain, or *)
(* a flush that fails).                                                      *)
NoUnsentSleep == unsent => thread \in {"drain", "flush", "ended"}
=============================================================================
