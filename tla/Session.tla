------------------------------ MODULE Session -------------------------------
(***************************************************************************)
(* The devices held across VT switches (drmkit-session), over a seat that  *)
(* is enabled and disabled without asking, composed with the dispatcher    *)
(* their caller rebinds.  The seat's reopening and acknowledging may fail. *)
(***************************************************************************)
EXTENDS PageFlip, SequencesExt

CONSTANTS
  Paths,         \* the devices a caller takes
  Card,          \* the one whose flips the dispatcher hears
  MaxSeatEvents, \* bound on the events the seat has not delivered
  MaxPending     \* bound on the events queued when the session is dispatched

ASSUME CardAssumption == Card \in Paths /\ {"closed", "source"} \cap Paths = {}

VARIABLES
  seatEnabled,  \* the seat's word, whatever the session has heard of it
  inbox,        \* the seat's events the session has not been given
  opened,       \* "opening", "open", or "failed": no backend
  active,
  devices,      \* sequence of [path, fd]
  pending,      \* session events the caller has not taken
  ackRefused    \* in the last batch: what followed was dropped

sessionVars == <<seatEnabled, inbox, opened, active, devices, pending, ackRefused>>

SessionInit ==
  /\ seatEnabled = FALSE /\ inbox = <<>>
  /\ opened = "opening" /\ active = FALSE
  /\ devices = <<>> /\ pending = <<>> /\ ackRefused = FALSE

\* The seat is external: it may say a thing twice.
SeatSays(event) ==
  /\ Len(inbox) < MaxSeatEvents
  /\ inbox' = Append(inbox, event)
  /\ seatEnabled' = (event = "Enable")
  /\ UNCHANGED <<pageFlipVars, opened, active, devices, pending, ackRefused>>

-----------------------------------------------------------------------------
(* Opening the seat.                                                       *)

BeginOpen ==
  /\ opened = "opening" /\ ~Waiting
  /\ wait' = [kind |-> "activation", left |-> Budget, timer |-> Min({Budget, Slice}),
              interrupted |-> FALSE]
  /\ UNCHANGED <<files, unread, epoll, drmFd, sources, sessionVars>>

\* drain_through_activation: what follows the first enable is kept.
DrainThroughActivation(events) ==
  LET enables == {i \in DOMAIN events : events[i] = "Enable"}
  IN IF enables = {} THEN <<>> ELSE SubSeq(events, Min(enables) + 1, Len(events))

\* One dispatch of wait_until_active comes back, by an event or by its slice.
ActivationReturns ==
  /\ wait.kind = "activation"
  /\ inbox # <<>> \/ wait.timer = 0
  /\ inbox' = DrainThroughActivation(inbox)
  /\ \/ /\ Contains(inbox, "Enable")
        /\ opened' = "open" /\ active' = TRUE /\ wait' = NoWait
     \/ /\ ~Contains(inbox, "Enable") /\ wait.left <= 0
        /\ opened' = "failed" /\ wait' = NoWait /\ UNCHANGED active
     \/ /\ ~Contains(inbox, "Enable") /\ wait.left > 0
        /\ wait' = [wait EXCEPT !.timer = Min({wait.left, Slice})]
        /\ UNCHANGED <<opened, active>>
  /\ UNCHANGED <<files, unread, epoll, drmFd, sources, seatEnabled, devices, pending,
                 ackRefused>>

ActivationFails ==
  /\ wait.kind = "activation"
  /\ opened' = "failed" /\ wait' = NoWait
  /\ UNCHANGED <<files, unread, epoll, drmFd, sources, seatEnabled, inbox, active, devices,
                 pending, ackRefused>>

-----------------------------------------------------------------------------
(* Dispatch.  s is the session, the descriptor table and the registrations *)
(* while one batch of the seat's events is handled.                        *)

OnDisable(s, refused) ==
  IF ~s.active THEN s
  ELSE [s EXCEPT !.active = FALSE, !.stopped = refused,
                 !.pending = Append(@, [kind |-> "Paused"])]

\* One device of on_enable is closed, then reopened unless it is gone.
Reopened(s, device, gone) ==
  LET closed == [s.files EXCEPT ![device.fd] = "closed"]
      fd == LowestFree(closed)
      without == [s EXCEPT !.files = closed, !.epoll = @ \ {device.fd},
                           !.unread = @ \ {device.path}]
  IN IF device.path \in gone
       THEN [without EXCEPT !.pending = Append(@, [kind |-> "DeviceLost", path |-> device.path])]
       ELSE [without EXCEPT !.files[fd] = device.path,
                            !.devices = Append(@, [path |-> device.path, fd |-> fd])]

OnEnable(s, gone) ==
  IF s.active THEN s
  ELSE LET upTo[n \in 0..Len(s.devices)] ==
             IF n = 0 THEN [s EXCEPT !.active = TRUE, !.devices = <<>>]
             ELSE Reopened(upTo[n - 1], s.devices[n], gone)
           reopened == upTo[Len(s.devices)]
       IN [reopened EXCEPT
             !.pending = Append(@, [kind |-> "Resumed", devices |-> reopened.devices])]

\* An acknowledgement that fails drops what is left of the batch.
HandleRaw(s, event, gone, refused) ==
  IF s.stopped THEN s
  ELSE IF event = "Disable" THEN OnDisable(s, refused)
  ELSE OnEnable(s, gone)

\* dispatch, which a caller may repeat before it takes the events.
SessionDispatch ==
  /\ opened = "open" /\ ~Waiting /\ inbox # <<>>
  /\ Len(pending) < MaxPending
  /\ \E gone \in [DOMAIN inbox -> SUBSET Paths], refused \in SUBSET DOMAIN inbox :
       LET before == [files |-> files, unread |-> unread, epoll |-> epoll, active |-> active,
                      devices |-> devices, pending |-> pending, stopped |-> FALSE]
           upTo[n \in 0..Len(inbox)] ==
             IF n = 0 THEN before ELSE HandleRaw(upTo[n - 1], inbox[n], gone[n], n \in refused)
           after == upTo[Len(inbox)]
       IN /\ files' = after.files /\ unread' = after.unread /\ epoll' = after.epoll
          /\ active' = after.active /\ devices' = after.devices
          /\ pending' = after.pending
          /\ ackRefused' = after.stopped
  /\ inbox' = <<>>
  /\ UNCHANGED <<drmFd, sources, wait, seatEnabled, opened>>

-----------------------------------------------------------------------------
(* The caller, who takes the session's events in order and its devices     *)
(* between them, and rebinds the dispatcher to each card it is given.      *)

CardsOf(held) == {held[i].fd : i \in {j \in DOMAIN held : held[j].path = Card}}
Holds(path) == \E i \in DOMAIN devices : devices[i].path = path

RebindTo(cards, table, registered) ==
  IF cards = {} THEN epoll' = registered /\ drmFd' = drmFd
  ELSE LET bound == PageFlipRebind(Min(cards), table, registered, drmFd)
       IN epoll' = bound.epoll /\ drmFd' = bound.drmFd

\* next_event
NextEvent ==
  /\ ~Waiting /\ pending # <<>>
  /\ RebindTo(IF Head(pending).kind = "Resumed" THEN CardsOf(Head(pending).devices) ELSE {},
              files, epoll)
  /\ pending' = Tail(pending)
  /\ UNCHANGED <<files, unread, sources, wait, seatEnabled, inbox, opened, active, devices,
                 ackRefused>>

TakeDevice(path) ==
  LET fd == LowestFree(files)
      held == Append(devices, [path |-> path, fd |-> fd])
      table == [files EXCEPT ![fd] = path]
  IN /\ ~Waiting /\ pending = <<>> /\ active /\ ~Holds(path) /\ HasFree(files)
     /\ files' = table /\ devices' = held
     /\ RebindTo(IF path = Card THEN {fd} ELSE {}, table, epoll)
     /\ UNCHANGED <<unread, sources, wait, seatEnabled, inbox, opened, active, pending,
                    ackRefused>>

ReleaseDevice(path) ==
  /\ ~Waiting /\ pending = <<>>
  /\ \E i \in DOMAIN devices :
       /\ devices[i].path = path
       /\ devices' = RemoveAt(devices, i)
       /\ files' = [files EXCEPT ![devices[i].fd] = "closed"]
       /\ epoll' = epoll \ {devices[i].fd}
  /\ unread' = unread \ {path}
  /\ UNCHANGED <<drmFd, sources, wait, seatEnabled, inbox, opened, active, pending, ackRefused>>

-----------------------------------------------------------------------------

SessionNext ==
  \/ \E event \in {"Enable", "Disable"} : SeatSays(event)
  \/ BeginOpen
  \/ ActivationReturns
  \/ ActivationFails
  \/ SessionDispatch
  \/ NextEvent
  \/ \E path \in Paths : TakeDevice(path) \/ ReleaseDevice(path)
  \/ /\ opened = "open"
     /\ UNCHANGED sessionVars
     /\ \/ OpenSource
        \/ CloseSource
        \/ \E kind \in {"bounded", "infinite", "poll"} : BeginDispatch(kind)
        \/ BecomesReadable
  \/ UNCHANGED sessionVars /\ (Signal \/ Retry \/ Tick \/ DispatchReturns)

\* Clocks run, and the scheduler lets a process out of a system call whose
\* timer has run out.
SessionFairness ==
  /\ WF_<<pageFlipVars, sessionVars>>(Tick /\ UNCHANGED sessionVars)
  /\ WF_<<pageFlipVars, sessionVars>>(Retry /\ UNCHANGED sessionVars)
  /\ WF_<<pageFlipVars, sessionVars>>(DispatchReturns /\ UNCHANGED sessionVars)
  /\ WF_<<pageFlipVars, sessionVars>>(ActivationReturns)

LoopInit == PageFlipInit /\ SessionInit

LoopSpec == LoopInit /\ [][SessionNext]_<<pageFlipVars, sessionVars>> /\ SessionFairness

-----------------------------------------------------------------------------
(* Properties.                                                             *)

\* "A signal storm cannot stretch the wait past the requested duration": a
\* bounded dispatch ends under any number of signals, and so does the wait for
\* the seat under any number of disables.
BoundedWaitEnds == wait.kind \in {"bounded", "activation"} ~> wait = NoWait

\* Once the caller has taken the session's events, a held card's flips reach
\* the dispatcher, across switches that renumber it, devices that do not come
\* back, and stale resumes; no rebind costs a foreign source its registration;
\* and a session that has heard all the seat said, and was refused no
\* acknowledgement in the last batch, agrees with it about who owns the
\* display.
EventsAreHeard ==
  /\ pending = <<>> =>
       \A fd \in CardsOf(devices) : drmFd = fd /\ fd \in epoll /\ files[fd] = Card
  /\ sources \subseteq epoll
  /\ opened = "open" /\ inbox = <<>> /\ ~ackRefused => active = seatEnabled

=============================================================================
