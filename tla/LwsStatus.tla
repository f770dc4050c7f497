----------------------------- MODULE LwsStatus -----------------------------
(***************************************************************************)
(* The lws-status protocol plugin (plugins/protocol_lws_status.c): every   *)
(* connected browser is sent the list of connections, one fragment per     *)
(* writeable callback, and again whenever the list has changed.            *)
(*                                                                         *)
(* A session is the address of its per_session_data, which the library     *)
(* frees when the connection closes and may hand out again.  Callbacks run *)
(* one at a time.  A report is abstracted to its entries: the session an   *)
(* entry is about, or NULL for a separator with no entry after it.         *)
(***************************************************************************)
EXTENDS Integers, Sequences

CONSTANTS
  Sessions,   \* addresses the library has for per-session data
  NULL,
  MaxConns    \* bound: connections made over the whole run

ASSUME NullAssumption == NULL \notin Sessions
ASSUME ConnsAssumption == MaxConns \in Nat

VARIABLES
  live_pss_list,    \* linked list of the established sessions, newest first
  count_live_pss,   \* printed as "wsi" in every report
  walk,             \* pss->walk
  walk_next,        \* pss->walk_next
  subsequent,       \* pss->subsequent
  changed_partway,  \* pss->changed_partway
  want,             \* a writeable callback is requested
  open,             \* history: a fragmented message has begun and not ended
  report,           \* history: entries of the message being sent
  last,             \* history: entries of the last message finished
  touched           \* history: the list changed since the message began

pssVars == <<walk, walk_next, subsequent, changed_partway>>
sentVars == <<open, report, last>>
vars == <<live_pss_list, count_live_pss, pssVars, want, sentVars, touched>>

Members(list) == {list[i] : i \in DOMAIN list}

Live == Members(live_pss_list)

First(list) == IF list = <<>> THEN NULL ELSE list[1]

(* Where the session s is in the list.                                     *)
Place(s) == CHOOSE i \in DOMAIN live_pss_list : live_pss_list[i] = s

(* The session after s in the list: s->next.                               *)
After(s) ==
  IF Place(s) = Len(live_pss_list) THEN NULL ELSE live_pss_list[Place(s) + 1]

(* The list with s unlinked: its neighbours are joined.                    *)
Unlink(s) ==
  [i \in 1 .. Len(live_pss_list) - 1 |->
     IF i < Place(s) THEN live_pss_list[i] ELSE live_pss_list[i + 1]]

Init ==
  /\ live_pss_list   = <<>>
  /\ count_live_pss  = 0
  /\ walk            = [s \in Sessions |-> "WALK_NONE"]
  /\ walk_next       = [s \in Sessions |-> NULL]
  /\ subsequent      = [s \in Sessions |-> FALSE]
  /\ changed_partway = [s \in Sessions |-> FALSE]
  /\ want            = [s \in Sessions |-> FALSE]
  /\ open            = [s \in Sessions |-> FALSE]
  /\ report          = [s \in Sessions |-> <<>>]
  /\ last            = [s \in Sessions |-> <<>>]
  /\ touched         = [s \in Sessions |-> FALSE]

(***************************************************************************)
(* trigger_resend() on the changed list: sessions at rest start a walk,    *)
(* the others are told that the list changed under them.  `fresh' is the   *)
(* session just created, all zeroes, or the one just closed.               *)
(***************************************************************************)
Resting(s, fresh) == s = fresh \/ walk[s] = "WALK_NONE"

trigger_resend(list, fresh) ==
  LET on == Members(list)
      starts(s) == s \in on /\ Resting(s, fresh)
      told(s) == s \in on /\ ~Resting(s, fresh)
      gone(s) == s = fresh /\ s \notin on
  IN /\ walk' = [s \in Sessions |-> IF starts(s) THEN "WALK_INITIAL"
                                    ELSE IF gone(s) THEN "WALK_NONE" ELSE walk[s]]
     /\ walk_next' = [s \in Sessions |-> IF starts(s) THEN First(list)
                                         ELSE IF gone(s) THEN NULL ELSE walk_next[s]]
     /\ subsequent' = [s \in Sessions |-> subsequent[s] /\ ~starts(s) /\ ~gone(s)]
     /\ changed_partway' = [s \in Sessions |->
                              IF s = fresh THEN FALSE ELSE changed_partway[s] \/ told(s)]
     /\ want' = [s \in Sessions |-> s \in on]
     /\ touched' = [s \in Sessions |-> s \in on /\ s # fresh]

(* The browser at s has not been sent anything (any more).                 *)
ForgetSent(s) ==
  /\ open'   = [open EXCEPT ![s] = FALSE]
  /\ report' = [report EXCEPT ![s] = <<>>]
  /\ last'   = [last EXCEPT ![s] = <<>>]

(* LWS_CALLBACK_ESTABLISHED: s goes to the front of the list.              *)
Established(s) ==
  /\ s \notin Live
  /\ count_live_pss < MaxConns
  /\ count_live_pss' = count_live_pss + 1
  /\ live_pss_list' = <<s>> \o live_pss_list
  /\ trigger_resend(live_pss_list', s)
  /\ ForgetSent(s)

(* LWS_CALLBACK_CLOSED, also after a write that failed.                    *)
Closed(s) ==
  /\ s \in Live
  /\ live_pss_list' = Unlink(s)
  /\ trigger_resend(live_pss_list', s)
  /\ ForgetSent(s)
  /\ UNCHANGED count_live_pss

-----------------------------------------------------------------------------
(* LWS_CALLBACK_SERVER_WRITEABLE: one fragment for s.                      *)

(* Fault: the walk goes on from where trigger_resend() set it.             *)
InitialKeepsNext(s) ==
  /\ walk[s] = "WALK_INITIAL"
  /\ walk'    = [walk EXCEPT ![s] = "WALK_LIST"]
  /\ open'    = [open EXCEPT ![s] = TRUE]
  /\ report'  = [report EXCEPT ![s] = <<>>]
  /\ touched' = [touched EXCEPT ![s] = FALSE]
  /\ UNCHANGED <<walk_next, subsequent, changed_partway, last>>

(* WALK_INITIAL: opens the message.                                        *)
WalkInitial(s) ==
  /\ walk[s] = "WALK_INITIAL"
  /\ walk'      = [walk EXCEPT ![s] = "WALK_LIST"]
  /\ walk_next' = [walk_next EXCEPT ![s] = First(live_pss_list)]
  /\ open'      = [open EXCEPT ![s] = TRUE]
  /\ report'    = [report EXCEPT ![s] = <<>>]
  /\ touched'   = [touched EXCEPT ![s] = FALSE]
  /\ UNCHANGED <<subsequent, changed_partway, last>>

(* WALK_LIST, walk_next still in the list: one entry.                      *)
WalkEntry(s) ==
  LET x == walk_next[s]
  IN /\ walk[s] = "WALK_LIST"
     /\ x \in Live
     /\ report'     = [report EXCEPT ![s] = Append(@, x)]
     /\ subsequent' = [subsequent EXCEPT ![s] = TRUE]
     /\ walk_next'  = [walk_next EXCEPT ![s] = After(x)]
     /\ walk' = [walk EXCEPT ![s] = IF After(x) = NULL THEN "WALK_FINAL" ELSE @]
     /\ UNCHANGED <<changed_partway, open, last, touched>>

(* WALK_LIST, "our next guy went away": the separator is already written.  *)
WalkWentAway(s) ==
  /\ walk[s] = "WALK_LIST"
  /\ walk_next[s] \notin Live \cup {NULL}
  /\ report' = [report EXCEPT ![s] = IF subsequent[s] THEN Append(@, NULL) ELSE @]
  /\ subsequent'      = [subsequent EXCEPT ![s] = TRUE]
  /\ walk'            = [walk EXCEPT ![s] = "WALK_FINAL"]
  /\ changed_partway' = [changed_partway EXCEPT ![s] = TRUE]
  /\ UNCHANGED <<walk_next, open, last, touched>>

(* WALK_FINAL, or the jump to it from WALK_LIST with nothing left.         *)
AtEnd(s) == walk[s] = "WALK_FINAL" \/ (walk[s] = "WALK_LIST" /\ walk_next[s] = NULL)

(* Fault: the change is forgotten.                                         *)
FinalForgetsChange(s) ==
  /\ AtEnd(s)
  /\ last' = [last EXCEPT ![s] = report[s]]
  /\ open' = [open EXCEPT ![s] = FALSE]
  /\ walk' = [walk EXCEPT ![s] = "WALK_NONE"]
  /\ UNCHANGED <<walk_next, subsequent, changed_partway, report, touched>>

(* WALK_FINAL: ends the message; a changed list is walked again.           *)
WalkFinal(s) ==
  /\ AtEnd(s)
  /\ last' = [last EXCEPT ![s] = report[s]]
  /\ open' = [open EXCEPT ![s] = FALSE]
  /\ IF changed_partway[s]
     THEN /\ subsequent' = [subsequent EXCEPT ![s] = FALSE]
          /\ walk_next'  = [walk_next EXCEPT ![s] = First(live_pss_list)]
          /\ walk'       = [walk EXCEPT ![s] = "WALK_INITIAL"]
     ELSE /\ walk' = [walk EXCEPT ![s] = "WALK_NONE"]
          /\ UNCHANGED <<subsequent, walk_next>>
  /\ UNCHANGED <<changed_partway, report, touched>>

(* Fault: the callback is requested only inside the list.                  *)
WantMoreList(s) == want' = [want EXCEPT ![s] = walk'[s] = "WALK_LIST"]

WantMore(s) == want' = [want EXCEPT ![s] = walk'[s] # "WALK_NONE"]

Writeable(s) ==
  /\ s \in Live
  /\ want[s]
  /\ \/ WalkInitial(s) \/ WalkEntry(s) \/ WalkWentAway(s)
     \/ WalkFinal(s)
  /\ WantMore(s)
  /\ UNCHANGED <<live_pss_list, count_live_pss>>

Next == \E s \in Sessions : Established(s) \/ Closed(s) \/ Writeable(s)

Spec == Init /\ [][Next]_vars

(* The library's poll loop makes the writeable callbacks asked of it.      *)
FairSpec == Spec /\ \A s \in Sessions : WF_vars(Writeable(s))

-----------------------------------------------------------------------------
(* The walks of the sessions keep their type, and count_live_pss is never  *)
(* less than the number of sessions in the list.                           *)
TypeOK ==
  /\ live_pss_list \in Seq(Sessions)
  /\ count_live_pss \in Len(live_pss_list) .. MaxConns
  /\ walk \in [Sessions -> {"WALK_NONE", "WALK_INITIAL", "WALK_LIST", "WALK_FINAL"}]
  /\ walk_next \in [Sessions -> Sessions \cup {NULL}]
  /\ subsequent \in [Sessions -> BOOLEAN] /\ changed_partway \in [Sessions -> BOOLEAN]
  /\ want \in [Sessions -> BOOLEAN]
  /\ open \in [Sessions -> BOOLEAN] /\ touched \in [Sessions -> BOOLEAN]
  /\ report \in [Sessions -> Seq(Sessions \cup {NULL})]
  /\ last \in [Sessions -> Seq(Sessions \cup {NULL})]

(***************************************************************************)
(* The fragments of a report make "a single ws message" (lines 112-116):   *)
(* however the list changes meanwhile, a message is begun only when the    *)
(* previous one has ended, and is always continued or ended.               *)
(***************************************************************************)
OneMessageAtATime ==
  \A s \in Live : open[s] <=> walk[s] \in {"WALK_LIST", "WALK_FINAL"}

(* The list from session x on.                                             *)
ListFrom(x) ==
  IF x = NULL THEN <<>>
  ELSE SubSeq(live_pss_list, Place(x), Len(live_pss_list))

(***************************************************************************)
(* As long as the list does not change, what a session has been sent and   *)
(* what its walk still has in front of it make up the list, each           *)
(* connection once and in order; and whatever changes, there is one        *)
(* message at a time.                                                      *)
(***************************************************************************)
UntouchedWalkExact ==
  /\ OneMessageAtATime
  /\ \A s \in Live :
       (open[s] /\ ~touched[s]) => report[s] \o ListFrom(walk_next[s]) = live_pss_list

(***************************************************************************)
(* A session comes to rest only when the last report its browser got is    *)
(* the present list: no change made during a walk, or between two, goes    *)
(* unreported, whatever address a new connection gets.                     *)
(***************************************************************************)
RestingIsInformed ==
  \A s \in Live : walk[s] = "WALK_NONE" => last[s] = live_pss_list

(* test-server.c:96: "informs connected browsers of who else is            *)
(* connected": once connections stop coming and going, the last report of  *)
(* every browser is the list.                                              *)
EventuallyInformed ==
  \A s \in Sessions : <>[](s \in Live => last[s] = live_pss_list)

(***************************************************************************)
(* test-server.c:96: a report "informs" the browser, which parses it: no   *)
(* finished report has a separator with nothing after it.                  *)
(***************************************************************************)
ReportsParse ==
  \A s \in Live : NULL \notin Members(last[s])
=============================================================================
