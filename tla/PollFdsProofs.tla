--------------------------- MODULE PollFdsProofs ---------------------------
(***************************************************************************)
(* What the poll table promises for any size of the table, any events, and *)
(* whatever malloc() left in the index.                                    *)
(***************************************************************************)
EXTENDS PollFds, FiniteSetTheorems, TLAPS

(***************************************************************************)
(* The strengthening.  The index leads from a descriptor the library asked *)
(* for to a slot in use that holds it, and every slot in use holds such a  *)
(* descriptor with its events; the count is the number of descriptors; and *)
(* what is still in front of the scan has not been serviced.               *)
(***************************************************************************)
AskedFunction == asked \in [DOMAIN asked -> Events]

Indexed == \A f \in DOMAIN asked :
  fd_lookup[f] \in Used /\ pollfds[fd_lookup[f]].fd = f

Held == \A i \in Used :
  /\ pollfds[i].fd \in DOMAIN asked
  /\ pollfds[i].events = asked[pollfds[i].fd]

Counted == IsFiniteSet(DOMAIN asked) /\ Cardinality(DOMAIN asked) = count_pollfds

ScanAhead ==
  /\ pc = "service" => n < max_poll_elements
  /\ \A i \in Used :
       /\ pc = "scan" /\ i >= n /\ pollfds[i].revents => pollfds[i].fd \notin served
       /\ pc = "service" /\ i > n /\ pollfds[i].revents => pollfds[i].fd \notin served

IInv == TypeOK /\ AskedFunction /\ LookupInverse /\ Indexed /\ Held /\ Counted /\ ScanAhead

-----------------------------------------------------------------------------
(* An empty table.                                                         *)
LEMMA InitInv == Init => IInv
<1> SUFFICES ASSUME Init PROVE IInv
  OBVIOUS
<1>1. TypeOK
  BY TableAssumption DEF Init, TypeOK, Fds, Slots, NOFD
<1>2. DOMAIN asked = {} /\ Used = {}
  BY DEF Init, Used
<1>3. Counted
  BY <1>2, FS_EmptySet DEF Counted, Init
<1>4. AskedFunction /\ LookupInverse /\ Indexed /\ Held
  BY <1>2 DEF Init, AskedFunction, LookupInverse, Indexed, Held
<1>5. ScanAhead
  BY <1>2 DEF Init, ScanAhead
<1> QED
  BY <1>1, <1>3, <1>4, <1>5 DEF IInv

(* LWS_CALLBACK_ADD_POLL_FD fills the first free slot.                     *)
LEMMA AddInv ==
  ASSUME IInv, NEW f \in Fds, NEW e \in Events, AddPollFd(f, e)
  PROVE  IInv'
<1> DEFINE c == count_pollfds
           new == [fd |-> f, events |-> e, revents |-> FALSE]
<1>1. /\ c \in Slots /\ c \in Nat /\ c < max_poll_elements
      /\ f \notin DOMAIN asked
  BY TableAssumption DEF IInv, TypeOK, AddPollFd, Slots
<1>2. /\ pollfds' = [pollfds EXCEPT ![c] = new]
      /\ fd_lookup' = [fd_lookup EXCEPT ![f] = c]
      /\ count_pollfds' = c + 1
      /\ asked' = [g \in DOMAIN asked \cup {f} |-> IF g = f THEN e ELSE asked[g]]
      /\ UNCHANGED <<ready, pc, n, served, cur>>
  BY DEF AddPollFd, loopVars
<1>3. /\ pollfds \in [Slots -> [fd : Fds, events : Events \cup {0}, revents : BOOLEAN]]
      /\ fd_lookup \in [Fds -> Slots]
      /\ DOMAIN asked \subseteq Fds
  BY DEF IInv, TypeOK
<1>4. DOMAIN asked' = DOMAIN asked \cup {f}
  BY <1>2
<1>5. Used' = Used \cup {c} /\ c \notin Used /\ Used \subseteq Slots
  <2>1. Used = 0 .. c - 1 /\ Used' = 0 .. c
    BY <1>1, <1>2 DEF Used
  <2> QED
    BY <2>1, <1>1, TableAssumption DEF Slots
<1>6. /\ pollfds'[c] = new /\ \A i \in Used : pollfds'[i] = pollfds[i]
      /\ fd_lookup'[f] = c /\ \A g \in DOMAIN asked : fd_lookup'[g] = fd_lookup[g]
      /\ asked'[f] = e /\ \A g \in DOMAIN asked : asked'[g] = asked[g]
  BY <1>1, <1>2, <1>3, <1>5
<1>7. TypeOK'
  <2>1. new \in [fd : Fds, events : Events \cup {0}, revents : BOOLEAN]
    OBVIOUS
  <2>2. pollfds' \in [Slots -> [fd : Fds, events : Events \cup {0}, revents : BOOLEAN]]
    BY <2>1, <1>1, <1>2, <1>3
  <2>3. fd_lookup' \in [Fds -> Slots]
    BY <1>1, <1>2, <1>3
  <2> QED
    BY <2>2, <2>3, <1>1, <1>2, <1>4, TableAssumption DEF IInv, TypeOK
<1>8. AskedFunction'
  BY <1>2, <1>4 DEF IInv, AskedFunction
<1>9. LookupInverse'
  BY <1>5, <1>6 DEF IInv, LookupInverse, Held
<1>10. Indexed'
  BY <1>4, <1>5, <1>6 DEF IInv, Indexed
<1>11. Held'
  BY <1>4, <1>5, <1>6 DEF IInv, Held
<1>12. Counted'
  BY <1>1, <1>2, <1>4, FS_AddElement DEF IInv, Counted
<1>13. ScanAhead'
  BY <1>2, <1>5, <1>6 DEF IInv, ScanAhead
<1> QED
  BY <1>7, <1>8, <1>9, <1>10, <1>11, <1>12, <1>13 DEF IInv

(* LWS_CALLBACK_DEL_POLL_FD moves the last entry into the vacant slot: what *)
(* is in use afterwards is what was, without the slot and the descriptor.  *)
LEMMA DelInv ==
  ASSUME IInv, NEW f \in Fds, DelPollFd(f)
  PROVE  IInv'
<1> DEFINE c == count_pollfds
           m == fd_lookup[f]
           last == c - 1
           moved == pollfds[last].fd
<1>1. /\ f \in DOMAIN asked
      /\ m \in Used /\ pollfds[m].fd = f
      /\ c \in Nat /\ c > 0 /\ c <= max_poll_elements /\ max_poll_elements \in Nat
  <2>1. f \in DOMAIN asked
    BY DEF DelPollFd
  <2>2. m \in Used /\ pollfds[m].fd = f
    BY <2>1 DEF IInv, Indexed
  <2> QED
    BY <2>1, <2>2, TableAssumption DEF IInv, TypeOK, Used
<1>2. /\ pollfds \in [Slots -> [fd : Fds, events : Events \cup {0}, revents : BOOLEAN]]
      /\ fd_lookup \in [Fds -> Slots]
      /\ DOMAIN asked \subseteq Fds
  BY DEF IInv, TypeOK
<1>3. /\ count_pollfds' = last
      /\ asked' = [g \in DOMAIN asked \ {f} |-> asked[g]]
      /\ ready' = ready \ {f}
      /\ cur' = IF cur = f THEN NOFD ELSE cur
      /\ UNCHANGED <<pc, n, served>>
  BY DEF DelPollFd, Vacate, loopVars
<1>4. \/ last = 0 /\ UNCHANGED <<pollfds, fd_lookup>>
      \/ /\ last # 0
         /\ pollfds' = [pollfds EXCEPT ![m] = pollfds[last]]
         /\ fd_lookup' = [fd_lookup EXCEPT ![moved] = m]
  BY DEF DelPollFd, Vacate
<1>5. DOMAIN asked' = DOMAIN asked \ {f}
  BY <1>3
<1>6. /\ Used' = Used \ {last} /\ Used \subseteq Slots
      /\ last \in Used /\ last \in Slots /\ m \in Slots
      /\ last = 0 => Used' = {} /\ m = last
      /\ \A i \in Used : i \in Int /\ i <= last
  <2>1. Used = 0 .. c - 1 /\ Used' = 0 .. c - 2
    BY <1>1, <1>3 DEF Used
  <2> QED
    BY <2>1, <1>1 DEF Slots
(* Different slots in use hold different descriptors.                      *)
<1>7. \A i \in Used : pollfds[i].fd = f => i = m
  BY DEF IInv, LookupInverse
<1>8. moved \in DOMAIN asked /\ (moved = f <=> m = last)
  BY <1>1, <1>6, <1>7 DEF IInv, Held
(* Where the entry in a slot still in use was before.                      *)
<1>9. \A i \in Used' : /\ i # m => pollfds'[i] = pollfds[i]
                       /\ i = m => pollfds'[i] = pollfds[last] /\ m # last
                       /\ pollfds'[i].fd # f
  <2>1. CASE last = 0
    BY <2>1, <1>6
  <2>2. CASE last # 0
    <3>1. pollfds' = [pollfds EXCEPT ![m] = pollfds[last]]
      BY <2>2, <1>4
    <3> QED
      BY <3>1, <1>2, <1>6, <1>7, <1>8
  <2> QED
    BY <2>1, <2>2
<1>10. \A g \in DOMAIN asked' :
         /\ g # moved => fd_lookup'[g] = fd_lookup[g]
         /\ g = moved => fd_lookup'[g] = m
  <2>1. CASE last = 0
    BY <2>1, <1>1, <1>4, <1>5, <1>6, <1>8
  <2>2. CASE last # 0
    <3>1. fd_lookup' = [fd_lookup EXCEPT ![moved] = m]
      BY <2>2, <1>4
    <3> QED
      BY <3>1, <1>2, <1>5
  <2> QED
    BY <2>1, <2>2
<1>11. TypeOK'
  <2>1. pollfds' \in [Slots -> [fd : Fds, events : Events \cup {0}, revents : BOOLEAN]]
    BY <1>2, <1>4, <1>6
  <2>2. fd_lookup' \in [Fds -> Slots]
    BY <1>2, <1>4, <1>6
  <2>3. cur' \in Fds \cup {NOFD}
    BY <1>3 DEF IInv, TypeOK
  <2>4. ready' \subseteq DOMAIN asked' /\ DOMAIN asked' \subseteq Fds
    BY <1>2, <1>3, <1>5 DEF IInv, TypeOK
  <2>5. count_pollfds' \in 0 .. max_poll_elements
    BY <1>1, <1>3
  <2> QED
    BY <2>1, <2>2, <2>3, <2>4, <2>5, <1>3 DEF IInv, TypeOK
<1>12. AskedFunction'
  BY <1>3, <1>5 DEF IInv, AskedFunction
<1>13. Held'
  BY <1>3, <1>5, <1>6, <1>9 DEF IInv, Held
<1>14. LookupInverse'
  <2> SUFFICES ASSUME NEW i \in Used'
               PROVE  fd_lookup'[pollfds'[i].fd] = i
    BY DEF LookupInverse
  <2>1. pollfds'[i].fd \in DOMAIN asked'
    BY <1>13 DEF Held
  <2>2. CASE i = m
    BY <2>1, <2>2, <1>9, <1>10
  <2>3. CASE i # m
    BY <2>1, <2>3, <1>6, <1>9, <1>10 DEF IInv, LookupInverse
  <2> QED
    BY <2>2, <2>3
<1>15. Indexed'
  <2> SUFFICES ASSUME NEW g \in DOMAIN asked'
               PROVE  fd_lookup'[g] \in Used' /\ pollfds'[fd_lookup'[g]].fd = g
    BY DEF Indexed
  <2>1. g \in DOMAIN asked /\ g # f
    BY <1>5
  <2>2. CASE g = moved
    BY <2>1, <2>2, <1>1, <1>6, <1>8, <1>9, <1>10
  <2>3. CASE g # moved
    <3>1. fd_lookup'[g] = fd_lookup[g] /\ fd_lookup[g] \in Used
          /\ pollfds[fd_lookup[g]].fd = g
      BY <2>1, <2>3, <1>10 DEF IInv, Indexed
    <3>2. fd_lookup[g] # last /\ fd_lookup[g] # m
      BY <3>1, <2>1, <2>3, <1>1
    <3> QED
      BY <3>1, <3>2, <1>6, <1>9
  <2> QED
    BY <2>2, <2>3
<1>16. Counted'
  BY <1>1, <1>3, <1>5, FS_RemoveElement DEF IInv, Counted
<1>17. ScanAhead'
  <2> SUFFICES ASSUME NEW i \in Used', pollfds'[i].revents
               PROVE  /\ pc = "scan" /\ i >= n => pollfds'[i].fd \notin served
                      /\ pc = "service" /\ i > n => pollfds'[i].fd \notin served
    BY <1>3 DEF IInv, ScanAhead
  <2>1. CASE i # m
    BY <2>1, <1>6, <1>9 DEF IInv, ScanAhead
  <2>2. CASE i = m
    <3>1. pollfds'[i] = pollfds[last] /\ last >= i /\ last \in Used
      BY <2>2, <1>6, <1>9
    <3>2. n \in Int /\ i \in Int /\ last \in Int
      BY <1>1, <1>6 DEF IInv, TypeOK
    <3> QED
      BY <3>1, <3>2 DEF IInv, ScanAhead
  <2> QED
    BY <2>1, <2>2
<1> QED
  BY <1>11, <1>12, <1>13, <1>14, <1>15, <1>16, <1>17 DEF IInv

(* LWS_CALLBACK_CHANGE_MODE_POLL_FD reaches the right entry.               *)
LEMMA ChangeInv ==
  ASSUME IInv, NEW f \in Fds, NEW e \in Events, ChangeModePollFd(f, e)
  PROVE  IInv'
<1> DEFINE m == fd_lookup[f]
<1>1. f \in DOMAIN asked /\ m \in Used /\ pollfds[m].fd = f
  BY DEF IInv, Indexed, ChangeModePollFd
<1>2. /\ pollfds \in [Slots -> [fd : Fds, events : Events \cup {0}, revents : BOOLEAN]]
      /\ asked \in [DOMAIN asked -> Events]
      /\ Used \subseteq Slots
  BY TableAssumption DEF IInv, TypeOK, AskedFunction, Used, Slots
<1>3. /\ pollfds' = [pollfds EXCEPT ![m].events = e]
      /\ asked' = [asked EXCEPT ![f] = e]
      /\ UNCHANGED <<fd_lookup, count_pollfds, ready, pc, n, served, cur>>
  BY DEF ChangeModePollFd, loopVars
<1>4. /\ DOMAIN asked' = DOMAIN asked
      /\ asked'[f] = e /\ \A g \in DOMAIN asked : g # f => asked'[g] = asked[g]
  BY <1>1, <1>2, <1>3
<1>5. /\ pollfds' \in [Slots -> [fd : Fds, events : Events \cup {0}, revents : BOOLEAN]]
      /\ \A i \in Slots : /\ pollfds'[i].fd = pollfds[i].fd
                          /\ pollfds'[i].revents = pollfds[i].revents
                          /\ pollfds'[i].events = IF i = m THEN e ELSE pollfds[i].events
  BY <1>1, <1>2, <1>3
<1>6. Used' = Used
  BY <1>3 DEF Used
<1>7. TypeOK'
  BY <1>3, <1>4, <1>5 DEF IInv, TypeOK
<1>8. AskedFunction'
  BY <1>2, <1>3, <1>4 DEF AskedFunction
<1>9. LookupInverse' /\ Indexed'
  BY <1>2, <1>3, <1>4, <1>5, <1>6 DEF IInv, LookupInverse, Indexed
<1>10. Held'
  <2> SUFFICES ASSUME NEW i \in Used
               PROVE  /\ pollfds'[i].fd \in DOMAIN asked'
                      /\ pollfds'[i].events = asked'[pollfds'[i].fd]
    BY <1>6 DEF Held
  <2>1. i = m <=> pollfds[i].fd = f
    BY <1>1 DEF IInv, LookupInverse
  <2> QED
    BY <2>1, <1>2, <1>4, <1>5 DEF IInv, Held
<1>11. Counted'
  BY <1>3, <1>4 DEF IInv, Counted
<1>12. ScanAhead'
  BY <1>2, <1>3, <1>5, <1>6 DEF IInv, ScanAhead
<1> QED
  BY <1>7, <1>8, <1>9, <1>10, <1>11, <1>12 DEF IInv

(* A step that changes nothing in the table but revents keeps what is said *)
(* about the table.                                                        *)
LEMMA SameTable ==
  ASSUME IInv, UNCHANGED <<fd_lookup, count_pollfds, asked>>,
         \A i \in Slots : /\ pollfds'[i].fd = pollfds[i].fd
                         /\ pollfds'[i].events = pollfds[i].events
  PROVE  /\ AskedFunction' /\ LookupInverse' /\ Indexed' /\ Held' /\ Counted'
         /\ Used' = Used /\ Used \subseteq Slots
<1>1. Used' = Used /\ Used \subseteq Slots
  BY TableAssumption DEF IInv, TypeOK, Used, Slots
<1>2. AskedFunction' /\ Counted'
  BY DEF IInv, AskedFunction, Counted
<1>3. LookupInverse' /\ Indexed'
  BY <1>1 DEF IInv, LookupInverse, Indexed
<1>4. Held'
  BY <1>1 DEF IInv, Held
<1> QED
  BY <1>1, <1>2, <1>3, <1>4

(* poll() starts the scan with nothing serviced.                           *)
LEMMA PollInv == ASSUME IInv, Poll PROVE IInv'
<1>1. pollfds \in [Slots -> [fd : Fds, events : Events \cup {0}, revents : BOOLEAN]]
  BY DEF IInv, TypeOK
<1>2. pollfds' = [i \in Slots |-> IF i < count_pollfds
                    THEN [pollfds[i] EXCEPT !.revents = pollfds[i].fd \in ready]
                    ELSE pollfds[i]]
  BY DEF Poll
<1>3. /\ pollfds' \in [Slots -> [fd : Fds, events : Events \cup {0}, revents : BOOLEAN]]
      /\ \A i \in Slots : /\ pollfds'[i].fd = pollfds[i].fd
                          /\ pollfds'[i].events = pollfds[i].events
  <2> SUFFICES ASSUME NEW i \in Slots
               PROVE  /\ pollfds'[i] \in [fd : Fds, events : Events \cup {0}, revents : BOOLEAN]
                      /\ pollfds'[i].fd = pollfds[i].fd
                      /\ pollfds'[i].events = pollfds[i].events
    BY <1>2
  <2>1. pollfds[i] \in [fd : Fds, events : Events \cup {0}, revents : BOOLEAN]
    BY <1>1
  <2>2. CASE i < count_pollfds
    <3> DEFINE r == pollfds[i].fd \in ready
    <3>1. pollfds'[i] = [pollfds[i] EXCEPT !.revents = r]
      BY <2>2, <1>2
    <3>2. r \in BOOLEAN
      OBVIOUS
    <3> HIDE DEF r
    <3> QED
      BY <2>1, <3>1, <3>2
  <2>3. CASE ~(i < count_pollfds)
    <3>1. pollfds'[i] = pollfds[i]
      BY <2>3, <1>2
    <3> QED
      BY <2>1, <3>1
  <2> QED
    BY <2>2, <2>3
<1>4. /\ UNCHANGED <<fd_lookup, count_pollfds, asked, ready, cur>>
      /\ n' = 0 /\ served' = {} /\ pc' \in {"scan", "after"}
  BY DEF Poll
<1>5. TypeOK'
  BY <1>3, <1>4, TableAssumption DEF IInv, TypeOK
<1>6. ScanAhead'
  BY <1>4 DEF ScanAhead
<1> QED
  BY <1>3, <1>4, <1>5, <1>6, SameTable DEF IInv

(* The scan hands over the next slot.                                      *)
LEMMA ServiceInv == ASSUME IInv, Service PROVE IInv'
<1>1. PICK i \in n .. count_pollfds - 1 :
        /\ pollfds[i].revents
        /\ n' = i
        /\ cur' = pollfds[i].fd
        /\ served' = served \cup {pollfds[i].fd}
        /\ ready' = ready \ {pollfds[i].fd}
  BY DEF Service
<1>2. UNCHANGED <<pollfds, fd_lookup, count_pollfds, asked>> /\ pc = "scan" /\ pc' = "service"
  BY DEF Service, tableVars
<1>3. i \in Used /\ i \in Slots /\ i \in Nat /\ i < max_poll_elements /\ i >= n
  BY TableAssumption DEF IInv, TypeOK, Used, Slots
<1>4. TypeOK'
  <2>1. pollfds[i].fd \in Fds
    BY <1>3 DEF IInv, TypeOK
  <2> QED
    BY <2>1, <1>1, <1>2, <1>3, TableAssumption DEF IInv, TypeOK
<1>5. ScanAhead'
  <2> SUFFICES ASSUME NEW j \in Used, j > i, pollfds[j].revents
               PROVE  pollfds[j].fd \notin served \cup {pollfds[i].fd}
    BY <1>1, <1>2, <1>3 DEF ScanAhead, Used
  <2>1. j >= n
    BY <1>3 DEF IInv, TypeOK, Used
  <2>2. pollfds[j].fd \notin served
    BY <2>1, <1>2 DEF IInv, ScanAhead
  <2>3. pollfds[j].fd # pollfds[i].fd
    BY <1>3 DEF IInv, LookupInverse, Used
  <2> QED
    BY <2>2, <2>3
<1> QED
  BY <1>2, <1>4, <1>5, SameTable DEF IInv

(* lws_service_fd() returns.                                               *)
LEMMA ServicedInv == ASSUME IInv, Serviced PROVE IInv'
<1>1. pollfds \in [Slots -> [fd : Fds, events : Events \cup {0}, revents : BOOLEAN]]
  BY DEF IInv, TypeOK
<1>2. /\ pollfds' = IF cur = NOFD THEN pollfds ELSE [pollfds EXCEPT ![n].revents = FALSE]
      /\ n' = n + 1 /\ cur' = NOFD /\ pc = "service" /\ pc' = "scan"
      /\ UNCHANGED <<fd_lookup, count_pollfds, asked, ready, served>>
  BY DEF Serviced
<1>3. /\ pollfds' \in [Slots -> [fd : Fds, events : Events \cup {0}, revents : BOOLEAN]]
      /\ \A i \in Slots : /\ pollfds'[i].fd = pollfds[i].fd
                          /\ pollfds'[i].events = pollfds[i].events
                          /\ i # n => pollfds'[i].revents = pollfds[i].revents
  BY <1>1, <1>2
<1>4. n \in Nat /\ n < max_poll_elements
  BY <1>2 DEF IInv, TypeOK, ScanAhead
<1>5. TypeOK'
  BY <1>2, <1>3, <1>4, TableAssumption DEF IInv, TypeOK
<1>6. Used' = Used /\ Used \subseteq Slots
  BY <1>2, <1>3, SameTable
<1>7. ScanAhead'
  <2> SUFFICES ASSUME NEW i \in Used, i >= n + 1, pollfds'[i].revents
               PROVE  pollfds'[i].fd \notin served
    BY <1>2, <1>6 DEF ScanAhead
  <2>1. i > n /\ i # n
    BY <1>4 DEF IInv, TypeOK, Used
  <2> QED
    BY <2>1, <1>2, <1>3, <1>6 DEF IInv, ScanAhead
<1> QED
  BY <1>2, <1>3, <1>5, <1>7, SameTable DEF IInv

(* The steps that leave the table alone.                                   *)
LEMMA OtherInv ==
  ASSUME IInv,
         (\E f \in Fds : Arrive(f)) \/ StartFails \/ Started \/ ScanDone \/ NextTurn \/ Leave \/ UNCHANGED vars
  PROVE  IInv'
<1>1. /\ UNCHANGED <<pollfds, fd_lookup, count_pollfds, asked, n, served, cur>>
      /\ ready' \subseteq DOMAIN asked
      /\ pc' \in {"start", "poll", "scan", "service", "after", "done"}
      /\ pc' \in {"scan", "service"} => pc' = pc
  BY DEF IInv, TypeOK, Arrive, StartFails, Started, ScanDone, NextTurn, Leave, vars, tableVars, loopVars
<1>2. TypeOK'
  BY <1>1 DEF IInv, TypeOK
<1>3. ScanAhead'
  BY <1>1 DEF IInv, ScanAhead, Used
<1> QED
  BY <1>1, <1>2, <1>3, SameTable DEF IInv

(* The strengthening holds in every state of the poll loop.                *)
THEOREM InvariantHolds == Spec => []IInv
<1>1. IInv /\ [Next]_vars => IInv'
  <2> SUFFICES ASSUME IInv, [Next]_vars PROVE IInv'
    OBVIOUS
  <2>1. ASSUME NEW f \in Fds, DelPollFd(f) PROVE IInv'
    BY <2>1, DelInv
  <2>2. ASSUME NEW f \in Fds, NEW e \in Events, AddPollFd(f, e) PROVE IInv'
    BY <2>2, AddInv
  <2>3. ASSUME NEW f \in Fds, NEW e \in Events, ChangeModePollFd(f, e) PROVE IInv'
    BY <2>3, ChangeInv
  <2>4. CASE Poll \/ Service \/ Serviced
    BY <2>4, PollInv, ServiceInv, ServicedInv
  <2>5. CASE (\E f \in Fds : Arrive(f)) \/ StartFails \/ Started \/ ScanDone \/ NextTurn \/ Leave \/ UNCHANGED vars
    BY <2>5, OtherInv
  <2> QED
    BY <2>1, <2>2, <2>3, <2>4, <2>5 DEF Next
<1> QED
  BY <1>1, InitInv, PTL DEF Spec

(* The table, its index and the scan keep their bounds.                    *)
THEOREM TypeCorrect == Spec => []TypeOK
<1>1. IInv => TypeOK
  BY DEF IInv
<1> QED
  BY <1>1, InvariantHolds, PTL

(* What the table shows to poll() is what the library asked for.           *)
LEMMA Faithful == IInv => TableFaithful
<1> SUFFICES ASSUME IInv PROVE TableFaithful
  OBVIOUS
<1>1. {pollfds[i].fd : i \in Used} = DOMAIN asked
  BY DEF IInv, Indexed, Held
<1>2. \A f \in DOMAIN asked : pollfds[fd_lookup[f]].events = asked[f]
  BY DEF IInv, Indexed, Held
<1>3. asked = [f \in DOMAIN asked |-> asked[f]]
  BY DEF IInv, AskedFunction
<1> QED
  BY <1>1, <1>2, <1>3 DEF IInv, TableFaithful, TableWatch

(* After any sequence of additions, deletions and changes, made at any     *)
(* point of the scan, the table holds exactly what the library asked for   *)
(* and the index is its inverse (test-server-http.c:722-746).              *)
THEOREM TableIsFaithful == Spec => []TableFaithful
BY Faithful, InvariantHolds, PTL

(* The table never runs full while a descriptor is left to be added.       *)
THEOREM RoomIsLeft == Spec => []RoomForEveryFd
<1>1. IInv => RoomForEveryFd
  <2> SUFFICES ASSUME IInv, DOMAIN asked # Fds PROVE count_pollfds < max_poll_elements
    BY DEF RoomForEveryFd
  <2>1. IsFiniteSet(Fds) /\ Cardinality(Fds) = max_poll_elements
    BY FS_Interval, TableAssumption DEF Fds
  <2>2. DOMAIN asked \in SUBSET Fds
    BY DEF IInv, TypeOK
  <2>3. Cardinality(DOMAIN asked) <= Cardinality(Fds)
        /\ Cardinality(DOMAIN asked) # Cardinality(Fds)
    BY <2>1, <2>2, FS_Subset
  <2>4. Cardinality(DOMAIN asked) = count_pollfds /\ count_pollfds \in 0 .. max_poll_elements
    BY Zenon DEF IInv, Counted, TypeOK
  <2> QED
    BY <2>1, <2>3, <2>4, TableAssumption
<1> QED
  BY <1>1, InvariantHolds, PTL

(* However the library changes the table under the scan, it is not handed  *)
(* the same descriptor twice for one poll() (test-server.c:503).           *)
THEOREM ServicedOnce == Spec => ServicedOncePerPoll
<1>1. IInv /\ [Next]_vars
        => (pc = "scan" /\ pc' = "service" => cur' \notin served)
  <2> SUFFICES ASSUME IInv, [Next]_vars, pc = "scan", pc' = "service"
               PROVE  cur' \notin served
    OBVIOUS
  <2>1. Service
    BY DEF Next, DelPollFd, Arrive, AddPollFd, ChangeModePollFd, Poll, Serviced,
           StartFails, Started, ScanDone, NextTurn, Leave, vars, tableVars, loopVars
  <2>2. PICK i \in n .. count_pollfds - 1 : pollfds[i].revents /\ cur' = pollfds[i].fd
    BY <2>1 DEF Service
  <2>3. i \in Used /\ i >= n
    BY DEF IInv, TypeOK, Used
  <2> QED
    BY <2>2, <2>3 DEF IInv, ScanAhead
<1> QED
  BY <1>1, InvariantHolds, PTL DEF Spec, ServicedOncePerPoll

(* A step of the library maps to the same step on the set of descriptors   *)
(* it keeps.                                                               *)
LEMMA StepMaps ==
  ASSUME IInv, IInv', [Next]_vars
  PROVE  [Abstract!Next]_TableWatch
<1>1. TableWatch = asked /\ TableWatch' = asked'
  <2>1. TableFaithful /\ TableFaithful'
    BY Faithful, PTL
  <2> QED
    BY <2>1 DEF TableFaithful
<1>2. ASSUME NEW f \in Fds, DelPollFd(f) PROVE Abstract!Del(f)
  BY <1>1, <1>2 DEF DelPollFd, Abstract!Del
<1>3. ASSUME NEW f \in Fds, NEW e \in Events, AddPollFd(f, e) PROVE Abstract!Add(f, e)
  BY <1>1, <1>3 DEF AddPollFd, Abstract!Add
<1>4. ASSUME NEW f \in Fds, NEW e \in Events, ChangeModePollFd(f, e)
      PROVE  Abstract!Change(f, e)
  BY <1>1, <1>4 DEF ChangeModePollFd, Abstract!Change
<1>5. ASSUME \/ \E f \in Fds : Arrive(f)
             \/ StartFails \/ Started \/ Poll \/ Service \/ Serviced \/ ScanDone \/ NextTurn \/ Leave
             \/ UNCHANGED vars
      PROVE  TableWatch' = TableWatch
  <2>1. asked' = asked
    BY <1>5 DEF Arrive, StartFails, Started, Poll, Service, Serviced, ScanDone, NextTurn, Leave, vars, tableVars
  <2> QED
    BY <1>1, <2>1
<1> QED
  BY <1>2, <1>3, <1>4, <1>5 DEF Next, Abstract!Next

(* The table and its index implement the set of descriptors that the       *)
(* library adds to, deletes from and changes (test-server-http.c:718-746). *)
THEOREM Refinement == Spec => Implements
<1>1. Init => Abstract!Init
  <2> SUFFICES ASSUME Init PROVE Abstract!Init
    OBVIOUS
  <2>1. TableWatch = asked
    BY InitInv, Faithful DEF TableFaithful
  <2> QED
    BY <2>1 DEF Init, Abstract!Init
<1>2. IInv /\ IInv' /\ [Next]_vars => [Abstract!Next]_TableWatch
  BY StepMaps
<1> QED
  BY <1>1, <1>2, InvariantHolds, PTL DEF Spec, Implements, Abstract!Spec
=============================================================================
