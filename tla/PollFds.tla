------------------------------ MODULE PollFds ------------------------------
(***************************************************************************)
(* The external poll loop of test-server.c (EXTERNAL_POLL) and the table   *)
(* of descriptors the protocol-0 callback in test-server-http.c keeps for  *)
(* it: an array with no holes, and an index from descriptor to slot.       *)
(*                                                                         *)
(* The library changes the table from inside the calls the loop makes      *)
(* while it scans that same table.  External: which descriptor the library *)
(* adds, drops or changes, what poll() reports, and that servicing a       *)
(* descriptor takes its input and clears its revents.                      *)
(***************************************************************************)
EXTENDS Integers, FiniteSets

CONSTANTS
  max_poll_elements,  \* getdtablesize()
  Events              \* masks of events to wait for

ASSUME TableAssumption == max_poll_elements \in Nat \ {0}

Fds   == 0 .. max_poll_elements - 1
Slots == 0 .. max_poll_elements - 1
NOFD  == -1

VARIABLES
  pollfds,        \* slot -> [fd, events, revents]
  fd_lookup,      \* descriptor -> slot
  count_pollfds,
  asked,          \* external: descriptor -> events the library asked for
  ready,          \* external: descriptors with something to service
  pc,             \* "start", "poll", "scan", "service", "after" or "done"
  n,              \* the scan's index
  cur,            \* the descriptor being serviced, if it is still open
  served          \* history: descriptors serviced since the last poll()

tableVars == <<pollfds, fd_lookup, count_pollfds>>
loopVars  == <<pc, n, served>>
vars == <<tableVars, asked, ready, loopVars, cur>>

(* malloc leaves the table undefined.                                      *)
Init ==
  /\ pollfds = [i \in Slots |-> [fd |-> 0, events |-> 0, revents |-> FALSE]]
  /\ fd_lookup \in [Fds -> Slots]
  /\ count_pollfds = 0
  /\ asked = [f \in {} |-> 0]
  /\ ready = {}
  /\ pc = "start"
  /\ n = 0
  /\ cur = NOFD
  /\ served = {}

-----------------------------------------------------------------------------
(* main() up to its loop.  -h, no lock file, no memory for the table, a    *)
(* resource path that is too long, no context or no vhost end it before    *)
(* there is a descriptor.                                                  *)
StartFails ==
  /\ pc = "start"
  /\ DOMAIN asked = {}
  /\ pc' = "done"
  /\ UNCHANGED <<tableVars, asked, ready, n, served, cur>>

(* lws_create_vhost() has added the listening socket, if it could bind.    *)
Started ==
  /\ pc = "start"
  /\ pc' = "poll"
  /\ UNCHANGED <<tableVars, asked, ready, n, served, cur>>

-----------------------------------------------------------------------------
(* The library calls back from lws_create_vhost(), from lws_service_fd(),  *)
(* after the scan from the timeout and forced service, and from            *)
(* lws_context_destroy().                                                  *)

(* LWS_CALLBACK_ADD_POLL_FD                                                *)
AddPollFd(f, e) ==
  /\ pc \in {"start", "service", "after"}
  /\ f \notin DOMAIN asked
  /\ ~(count_pollfds >= max_poll_elements)
  /\ fd_lookup' = [fd_lookup EXCEPT ![f] = count_pollfds]
  /\ pollfds' = [pollfds EXCEPT ![count_pollfds] =
                   [fd |-> f, events |-> e, revents |-> FALSE]]
  /\ count_pollfds' = count_pollfds + 1
  /\ asked' = [g \in DOMAIN asked \cup {f} |-> IF g = f THEN e ELSE asked[g]]
  /\ UNCHANGED <<ready, loopVars, cur>>

(* Fault: the index of the entry that moves is not updated.                *)
VacateNoIndex(f) ==
  LET last == count_pollfds - 1
  IN /\ count_pollfds' = last
     /\ pollfds' = [pollfds EXCEPT ![fd_lookup[f]] = pollfds[last]]
     /\ UNCHANGED fd_lookup

(* Faults: the last entry is not moved; the count is not decremented.      *)
VacateNoMove(f) ==
  /\ count_pollfds' = count_pollfds - 1
  /\ UNCHANGED <<pollfds, fd_lookup>>

VacateNoCount(f) ==
  /\ pollfds' = [pollfds EXCEPT ![fd_lookup[f]] = pollfds[count_pollfds - 1]]
  /\ UNCHANGED <<count_pollfds, fd_lookup>>

(* LWS_CALLBACK_DEL_POLL_FD: "have the last guy take up the vacant slot".  *)
Vacate(f) ==
  LET m == fd_lookup[f]
      last == count_pollfds - 1
  IN /\ count_pollfds' = last
     /\ IF last = 0
        THEN UNCHANGED <<pollfds, fd_lookup>>
        ELSE /\ pollfds' = [pollfds EXCEPT ![m] = pollfds[last]]
             /\ fd_lookup' = [fd_lookup EXCEPT ![pollfds[last].fd] = m]

DelPollFd(f) ==
  /\ pc \in {"service", "after", "done"}
  /\ f \in DOMAIN asked
  /\ Vacate(f)
  /\ asked' = [g \in DOMAIN asked \ {f} |-> asked[g]]
  /\ ready' = ready \ {f}
  /\ cur' = IF cur = f THEN NOFD ELSE cur
  /\ UNCHANGED loopVars

(* LWS_CALLBACK_CHANGE_MODE_POLL_FD: also when the loop asks for writeable *)
(* callbacks, before it polls.                                             *)
ChangeModePollFd(f, e) ==
  /\ pc \in {"poll", "service", "after"}
  /\ f \in DOMAIN asked
  /\ pollfds' = [pollfds EXCEPT ![fd_lookup[f]].events = e]
  /\ asked' = [asked EXCEPT ![f] = e]
  /\ UNCHANGED <<fd_lookup, count_pollfds, ready, loopVars, cur>>

-----------------------------------------------------------------------------
(* Input arrives on a descriptor.                                          *)
Arrive(f) ==
  /\ f \in DOMAIN asked \ ready
  /\ ready' = ready \cup {f}
  /\ UNCHANGED <<tableVars, asked, loopVars, cur>>

(* Fault: the scan's index is not reset.                                   *)
PollKeepsIndex ==
  /\ pc = "poll"
  /\ pollfds' = [i \in Slots |->
       IF i < count_pollfds
       THEN [pollfds[i] EXCEPT !.revents = pollfds[i].fd \in ready]
       ELSE pollfds[i]]
  /\ pc' = IF \E i \in 0 .. count_pollfds - 1 : pollfds'[i].revents
           THEN "scan" ELSE "after"
  /\ served' = {}
  /\ UNCHANGED <<fd_lookup, count_pollfds, asked, ready, n, cur>>

(* poll(): level-triggered, over the first count_pollfds slots.  With      *)
(* nothing to report the loop goes straight on to the timeouts.            *)
Poll ==
  /\ pc = "poll"
  /\ pollfds' = [i \in Slots |->
       IF i < count_pollfds
       THEN [pollfds[i] EXCEPT !.revents = pollfds[i].fd \in ready]
       ELSE pollfds[i]]
  /\ pc' = IF \E i \in 0 .. count_pollfds - 1 : pollfds'[i].revents
           THEN "scan" ELSE "after"
  /\ n' = 0
  /\ served' = {}
  /\ UNCHANGED <<fd_lookup, count_pollfds, asked, ready, cur>>

(* for (n = 0; n < count_pollfds; n++) if (pollfds[n].revents): the next   *)
(* slot with revents is handed to lws_service_fd().                        *)
Service ==
  /\ pc = "scan"
  /\ \E i \in n .. count_pollfds - 1 :
       /\ pollfds[i].revents
       /\ \A j \in n .. i - 1 : ~pollfds[j].revents
       /\ n' = i
       /\ cur' = pollfds[i].fd
       /\ served' = served \cup {pollfds[i].fd}
       /\ ready' = ready \ {pollfds[i].fd}
  /\ pc' = "service"
  /\ UNCHANGED <<tableVars, asked>>

(* Fault: the scan starts over after every service.                        *)
ServicedRescan ==
  /\ pc = "service"
  /\ pollfds' = IF cur = NOFD THEN pollfds ELSE [pollfds EXCEPT ![n].revents = FALSE]
  /\ n' = 0
  /\ cur' = NOFD
  /\ pc' = "scan"
  /\ UNCHANGED <<fd_lookup, count_pollfds, asked, ready, served>>

(* lws_service_fd() returns.  A closed descriptor's slot is left alone.    *)
Serviced ==
  /\ pc = "service"
  /\ pollfds' = IF cur = NOFD THEN pollfds ELSE [pollfds EXCEPT ![n].revents = FALSE]
  /\ n' = n + 1
  /\ cur' = NOFD
  /\ pc' = "scan"
  /\ UNCHANGED <<fd_lookup, count_pollfds, asked, ready, served>>

(* The scan is over; the library checks timeouts and forces service.       *)
ScanDone ==
  /\ pc = "scan"
  /\ \A i \in n .. count_pollfds - 1 : ~pollfds[i].revents
  /\ pc' = "after"
  /\ UNCHANGED <<tableVars, asked, ready, n, served, cur>>

NextTurn ==
  /\ pc = "after"
  /\ pc' = "poll"
  /\ UNCHANGED <<tableVars, asked, ready, n, served, cur>>

(* force_exit, or poll() or lws_service_fd() failed: lws_context_destroy().*)
(* A SIGINT makes poll() fail too, which ends the loop by n >= 0.          *)
Leave ==
  /\ pc \in {"poll", "scan", "after"}
  /\ pc' = "done"
  /\ UNCHANGED <<tableVars, asked, ready, n, served, cur>>

Next ==
  \/ \E f \in Fds : DelPollFd(f) \/ Arrive(f)
  \/ \E f \in Fds, e \in Events : AddPollFd(f, e) \/ ChangeModePollFd(f, e)
  \/ StartFails \/ Started
  \/ Poll \/ Service \/ Serviced \/ ScanDone \/ NextTurn \/ Leave

Spec == Init /\ [][Next]_vars

(* The loop keeps turning and the library returns from its callbacks.      *)
Turn == Started \/ Poll \/ Service \/ Serviced \/ ScanDone \/ NextTurn

FairSpec == Spec /\ WF_vars(Turn)

-----------------------------------------------------------------------------
Used == 0 .. count_pollfds - 1

(* The table keeps its type, and count, index and scan stay within it.     *)
TypeOK ==
  /\ pollfds \in [Slots -> [fd : Fds, events : Events \cup {0}, revents : BOOLEAN]]
  /\ fd_lookup \in [Fds -> Slots]
  /\ count_pollfds \in 0 .. max_poll_elements
  /\ DOMAIN asked \subseteq Fds
  /\ ready \subseteq DOMAIN asked
  /\ pc \in {"start", "poll", "scan", "service", "after", "done"}
  /\ n \in 0 .. max_poll_elements
  /\ cur \in Fds \cup {NOFD}
  /\ served \subseteq Fds

(***************************************************************************)
(* The table and its index are inverse to each other on the slots in use,  *)
(* after any sequence of additions and of deletions at any slot: no        *)
(* descriptor has two slots, and no index is stale.                        *)
(***************************************************************************)
LookupInverse == \A i \in Used : fd_lookup[pollfds[i].fd] = i

(* The descriptors and events in the table, as poll() sees them.           *)
TableWatch == [f \in {pollfds[i].fd : i \in Used} |-> pollfds[fd_lookup[f]].events]

(* The table holds exactly what the library asked for, and its index finds *)
(* it.                                                                     *)
TableFaithful == LookupInverse /\ TableWatch = asked

(* "too many sockets to track" is never said: a table of getdtablesize()   *)
(* slots has room for every descriptor that can be opened.                 *)
RoomForEveryFd == DOMAIN asked # Fds => count_pollfds < max_poll_elements

(* However the table is changed under the scan, no descriptor is serviced  *)
(* twice for one poll().                                                   *)
ServicedOncePerPoll ==
  [][pc = "scan" /\ pc' = "service" => cur' \notin served]_vars

(* A descriptor with input is serviced, or closed, or the loop is left:    *)
(* one that is skipped because it moved into the vacant slot is reported   *)
(* again by the next poll().                                               *)
NoneStarves ==
  \A f \in Fds : f \in ready ~> (f \notin ready \/ pc = "done")

(* The table implements the set of descriptors the library thinks it has.  *)
Abstract == INSTANCE FdSet WITH watch <- TableWatch

Implements == Abstract!Spec
=============================================================================
