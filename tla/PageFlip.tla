------------------------------ MODULE PageFlip ------------------------------
(***************************************************************************)
(* The dispatcher of DRM and foreign events (drmkit-modeset), over the     *)
(* process's descriptor table and the kernel's epoll registrations.  A     *)
(* registration goes when its file is closed; the number may come back as  *)
(* another file.                                                           *)
(***************************************************************************)
EXTENDS Integers, FiniteSetsExt

CONSTANTS
  MaxFd,    \* the descriptor numbers are 1..MaxFd
  Budget,   \* the time a bounded wait is given
  Slice     \* the longest one dispatch of the seat's activation waits

ASSUME WaitAssumption == MaxFd \in Nat /\ Budget \in Nat /\ Slice \in Nat

VARIABLES
  files,    \* the file behind each descriptor number, or "closed"
  unread,   \* the files that have something to read
  epoll,    \* the registered descriptors
  drmFd,    \* drm_fd, 0 for None
  sources,  \* the descriptors with a callback
  wait      \* the wait that blocks the process

pageFlipVars == <<files, unread, epoll, drmFd, sources, wait>>

Fds == 1..MaxFd
NoWait == [kind |-> "none", left |-> 0, timer |-> 0, interrupted |-> FALSE]
Waiting == wait # NoWait

\* The kernel gives out the lowest number that is free, and refuses to open a
\* file when there is none.
HasFree(table) == \E fd \in Fds : table[fd] = "closed"
LowestFree(table) == Min({fd \in Fds : table[fd] = "closed"})

PageFlipInit ==
  /\ files = [fd \in Fds |-> "closed"] /\ unread = {} /\ epoll = {}
  /\ drmFd = 0 /\ sources = {}
  /\ wait = NoWait

-----------------------------------------------------------------------------
(* Registration.  table, registered and current are the descriptor table,  *)
(* the registrations and the DRM descriptor the operation finds.           *)

Rebound(fd, table, registered, current) ==
  LET kept == registered \ {current}
  IN IF table[fd] # "closed" /\ fd \notin kept
       THEN [epoll |-> kept \cup {fd}, drmFd |-> fd]
       ELSE [epoll |-> kept, drmFd |-> 0]

\* A rebind that keeps a registration under the same number.
ReboundUnlessSame(fd, table, registered, current) ==
  IF fd = current THEN [epoll |-> registered, drmFd |-> fd]
  ELSE Rebound(fd, table, registered, current)

\* rebind, and new's registration when there is none yet.
PageFlipRebind(fd, table, registered, current) ==
  Rebound(fd, table, registered, current)

\* The caller opens a file and adds it; a refused one it closes again.
OpenSource ==
  LET fd == LowestFree(files)
  IN /\ ~Waiting /\ sources = {} /\ HasFree(files)
     /\ drmFd # fd /\ fd \notin epoll
     /\ files' = [files EXCEPT ![fd] = "source"]
     /\ epoll' = epoll \cup {fd}
     /\ sources' = sources \cup {fd}
     /\ UNCHANGED <<unread, drmFd, wait>>

\* remove_source, then the close the caller owes after it.
CloseSource ==
  /\ ~Waiting
  /\ \E fd \in sources :
       /\ sources' = sources \ {fd} /\ epoll' = epoll \ {fd}
       /\ files' = [files EXCEPT ![fd] = "closed"]
  /\ unread' = unread \ {"source"}
  /\ UNCHANGED <<drmFd, wait>>

-----------------------------------------------------------------------------
(* Waiting.  left is what the deadline leaves, below zero once it has      *)
(* passed; timer is what the kernel was asked to wait.                     *)

\* A retry that gives every attempt the whole budget.
WholeBudget(kind, left) == IF kind = "bounded" THEN Budget ELSE 0

\* remaining_budget; an infinite wait has no timer.
RemainingBudget(kind, left) == IF kind = "bounded" THEN Max({left, 0}) ELSE 0

Ready == {fd \in epoll : files[fd] \in unread}

BeginDispatch(kind) ==
  /\ ~Waiting
  /\ drmFd # 0 \/ sources # {}
  /\ wait' = [kind |-> kind, left |-> Budget, timer |-> RemainingBudget(kind, Budget),
              interrupted |-> FALSE]
  /\ UNCHANGED <<files, unread, epoll, drmFd, sources>>

\* A signal ends epoll_wait with EINTR.
Signal ==
  /\ wait.kind \in {"bounded", "infinite"} /\ ~wait.interrupted
  /\ wait.kind = "bounded" => wait.timer > 0
  /\ wait' = [wait EXCEPT !.interrupted = TRUE]
  /\ UNCHANGED <<files, unread, epoll, drmFd, sources>>

Retry ==
  /\ wait.interrupted
  /\ wait' = [wait EXCEPT !.interrupted = FALSE,
                          !.timer = RemainingBudget(wait.kind, wait.left)]
  /\ UNCHANGED <<files, unread, epoll, drmFd, sources>>

\* Time passes; the kernel's timer runs while the process is in epoll_wait.
Tick ==
  /\ wait.kind \in {"bounded", "activation"}
  /\ wait' = [wait EXCEPT !.left = Max({@ - 1, -1}),
                          !.timer = IF wait.interrupted THEN @ ELSE Max({@ - 1, 0})]
  /\ UNCHANGED <<files, unread, epoll, drmFd, sources>>

\* What is ready is routed to the handler or to its callback, which read it;
\* nothing ready is TimedOut.
DispatchReturns ==
  /\ wait.kind \in {"bounded", "infinite", "poll"} /\ ~wait.interrupted
  /\ \/ Ready # {}
     \/ wait.kind # "infinite" /\ wait.timer = 0
  /\ wait' = NoWait
  /\ unread' = unread \ {files[fd] : fd \in Ready \cap ({drmFd} \cup sources)}
  /\ UNCHANGED <<files, epoll, drmFd, sources>>

\* A flip lands, or a source has something to say.
BecomesReadable ==
  /\ \E fd \in epoll : unread' = unread \cup {files[fd]}
  /\ UNCHANGED <<files, epoll, drmFd, sources, wait>>

=============================================================================
