---------------------------- MODULE WorkflowUpdates ----------------------------
(***************************************************************************)
(* The jobs a page of the web UI shows: submitted for the selection the    *)
(* user has made, kept up to date by events and polls, and dropped when    *)
(* the selection changes, whatever answers are still on their way.         *)
(* The comparison pane and the deployment pane have a selection each and   *)
(* share no job: a behaviour is one of one `pane`.                         *)
(***************************************************************************)
EXTENDS Naturals, FiniteSets

CONSTANTS Selections, None,
          MaxRequests, MaxChanges  \* bounds: requests sent, changes of the selection

VARIABLES pane,         \* whose behaviour this is
          selection,    \* workflowSelectionKey or dryRunSelectionKey
          dirty,        \* rendered with a new selection, effects not yet run
          changes,      \* how often the selection has changed
          owner,        \* comparisonJobSelectionKeyRef, dryRunJobSelectionKeyRef
          shown,        \* per slot: the job shown and its status as read
          request,      \* per number: a POST and the job it makes
          current,      \* per slot: the request whose controller is kept
          submitting,   \* per slot: comparisonSubmitting, dryRunSubmitting, ...
          status,       \* per job: its status on the server
          told,         \* the events sent and not yet received
          event,        \* per slot: the GET an event caused
          poll,         \* per slot: the timer or the GET of the poll
          missed,       \* the slots whose job no poll has shown since one failed
          reconciling,  \* reconcilingJobId: the job, once answered with its status
          reconciled    \* jobs ever reconciled

updateVars == <<pane, selection, dirty, changes, owner, shown, request, current, submitting,
                status, told, event, poll, missed, reconciling, reconciled>>

Requests == 1 .. MaxRequests
AllSlots == {"comparison", "dryRun", "deployment"}
Slots == IF pane = "compare" THEN {"comparison"} ELSE {"dryRun", "deployment"}
Statuses == {"running", "unclear", "approved", "over"}
Seen == [job : Requests, status : Statuses]
Asked == [job : Requests, key : Selections \cup {None}, status : Statuses \cup {"timer"}]
Unsent == [slot |-> None, selection |-> None, state |-> "unsent"]

UpdateTypeOK ==
  /\ pane \in {"compare", "deploy"} /\ selection \in Selections /\ dirty \in BOOLEAN
  /\ changes \in 0 .. MaxChanges
  /\ owner \in Selections \cup {None}
  /\ shown \in [AllSlots -> Seen \cup {None}]
  /\ request \in [Requests -> [slot : AllSlots \cup {None}, selection : Selections \cup {None},
                               state : {"unsent", "sent", "aborted", "over"}]]
  /\ current \in [AllSlots -> Requests \cup {None}] /\ submitting \in [AllSlots -> BOOLEAN]
  /\ status \in [Requests -> Statuses \cup {None}] /\ told \subseteq Requests
  /\ event \in [AllSlots -> Asked \cup {None}] /\ poll \in [AllSlots -> Asked \cup {None}]
  /\ missed \subseteq AllSlots
  /\ reconciling \in Seen \cup {None} /\ reconciled \subseteq Requests

UpdateInit ==
  /\ pane \in {"compare", "deploy"} /\ selection \in Selections /\ dirty = FALSE /\ changes = 0
  /\ owner = None /\ shown = [s \in AllSlots |-> None]
  /\ request = [n \in Requests |-> Unsent] /\ current = [s \in AllSlots |-> None]
  /\ submitting = [s \in AllSlots |-> FALSE] /\ status = [n \in Requests |-> None]
  /\ told = {} /\ event = [s \in AllSlots |-> None] /\ poll = [s \in AllSlots |-> None]
  /\ missed = {} /\ reconciling = None /\ reconciled = {}

Server == <<status, told>>
Posts == <<request, current, submitting>>
Reads == <<event, poll, missed>>
Jobs == <<shown, poll, missed>>
Page == <<selection, dirty, changes>>
Reconciles == <<reconciling, reconciled>>

-----------------------------------------------------------------------------
(* A job set, or set anew, ends the poll before it; while it runs, a new   *)
(* timer starts, but not for a job nobody owns.                            *)
Polled(s, to, of) ==
  IF /\ to # None /\ to.status = "running"
     /\ s = "deployment" \/ of # None
  THEN [job |-> to.job, key |-> of, status |-> "timer"] ELSE None

Show(s, to) ==
  /\ shown' = [shown EXCEPT ![s] = to]
  /\ poll' = [poll EXCEPT ![s] = Polled(s, to, owner)]
  /\ missed' = missed \ {s}

(* The user changes the selection, which is rendered at once ...           *)
Change ==
  /\ ~dirty /\ changes < MaxChanges
  /\ \E k \in Selections \ {selection} : selection' = k
  /\ dirty' = TRUE /\ changes' = changes + 1
  /\ UNCHANGED <<pane, owner, shown, Posts, Server, Reads, Reconciles>>

Aborted(ns) ==
  [n \in Requests |-> IF n \in ns /\ request[n].state = "sent"
                      THEN [request[n] EXCEPT !.state = "aborted"] ELSE request[n]]

(* Mutant: the jobs of the selection before stay.                          *)
KeepsJobs == UNCHANGED <<owner, Jobs>>

DropsJobs ==
  /\ owner' = None
  /\ shown' = [s \in AllSlots |-> None] /\ poll' = [s \in AllSlots |-> None] /\ missed' = {}

(* ... and the effects of the pane abort what was sent and drop its jobs.  *)
Effects ==
  /\ dirty /\ dirty' = FALSE
  /\ DropsJobs
  /\ request' = Aborted({current[s] : s \in Slots})
  /\ current' = IF pane = "compare" THEN [current EXCEPT !["comparison"] = None] ELSE current
  /\ submitting' = [s \in AllSlots |-> FALSE]
  /\ UNCHANGED <<pane, selection, changes, Server, event, Reconciles>>

-----------------------------------------------------------------------------
Busy(s) == submitting[s] \/ (shown[s] # None /\ shown[s].status = "running")

(* runComparison, startDryRun and executeDeployment, up to the POST: the   *)
(* request before is aborted, the job before no longer shown.              *)
Submit(s, n) ==
  /\ s \in Slots /\ ~dirty /\ \A t \in Slots : ~Busy(t)
  /\ request[n] = Unsent /\ \A m \in 1 .. n - 1 : request[m] # Unsent
  /\ request' = [Aborted({current[s]}) EXCEPT
                   ![n] = [slot |-> s, selection |-> selection, state |-> "sent"]]
  /\ current' = [current EXCEPT ![s] = n] /\ submitting' = [submitting EXCEPT ![s] = TRUE]
  /\ IF s = "deployment" THEN UNCHANGED owner ELSE owner' = selection
  /\ LET cleared == IF s = "dryRun" THEN {"dryRun", "deployment"} ELSE {s}
     IN /\ shown' = [t \in AllSlots |-> IF t \in cleared THEN None ELSE shown[t]]
        /\ poll' = [t \in AllSlots |-> IF t \in cleared THEN None ELSE poll[t]]
        /\ missed' = missed \ cleared
  /\ UNCHANGED <<pane, Page, Server, event, reconciling, reconciled>>

(* Mutant: who answers ends the wait, current or not.                      *)
AnyoneSettles(n) == submitting' = [submitting EXCEPT ![request[n].slot] = FALSE] /\ UNCHANGED current

(* finally: only the request whose controller is kept ends the wait.       *)
Settles(n) ==
  LET s == request[n].slot
  IN IF current[s] = n
     THEN current' = [current EXCEPT ![s] = None] /\ submitting' = [submitting EXCEPT ![s] = FALSE]
     ELSE UNCHANGED <<current, submitting>>

StillWanted(n) ==
  /\ request[n].state = "sent" /\ selection = request[n].selection
  /\ request[n].slot = "deployment" \/ owner = request[n].selection

(* The server has made the job (whether or not the answer is wanted).      *)
Answer(n) ==
  /\ request[n].state \in {"sent", "aborted"} /\ request' = [request EXCEPT ![n].state = "over"]
  /\ status' = [status EXCEPT ![n] = "running"]
  /\ IF StillWanted(n) THEN Show(request[n].slot, [job |-> n, status |-> "running"])
     ELSE UNCHANGED Jobs
  /\ Settles(n)
  /\ UNCHANGED <<pane, Page, owner, told, event, Reconciles>>

(* Refused or lost.                                                        *)
Refused(n) ==
  /\ request[n].state \in {"sent", "aborted"} /\ request' = [request EXCEPT ![n].state = "over"]
  /\ Settles(n)
  /\ UNCHANGED <<pane, Page, owner, shown, Server, Reads, Reconciles>>

-----------------------------------------------------------------------------
(* A job ends: a dry run approvable or not, a deployment known or not.     *)
JobMoves(n) ==
  /\ status[n] = "running"
  /\ \E to \in {"over"} \cup (IF pane = "compare" THEN {} ELSE {"unclear"})
                        \cup (IF request[n].slot = "dryRun" THEN {"approved"} ELSE {}) :
       status' = [status EXCEPT ![n] = to]
  /\ told' = told \cup {n}
  /\ UNCHANGED <<pane, Page, owner, shown, Posts, Reads, Reconciles>>

(* An event, lost or received: the job shown is read, if it is owned; the  *)
(* answer may come much later.                                             *)
Receive(n) ==
  /\ n \in told /\ told' = told \ {n}
  /\ \/ UNCHANGED event
     \/ \E s \in Slots :
          /\ shown[s] # None /\ shown[s].job = n /\ event[s] = None
          /\ s = "deployment" \/ owner = selection
          /\ event' = [event EXCEPT ![s] = [job |-> n, key |-> owner, status |-> status[n]]]
  /\ UNCHANGED <<pane, Page, owner, Jobs, Posts, status, Reconciles>>

(* The timer of a poll, and the job as the server reads it then.           *)
TimerFires(s) ==
  /\ poll[s] # None /\ poll[s].status = "timer"
  /\ poll' = [poll EXCEPT ![s].status = status[poll[s].job]]
  /\ UNCHANGED <<pane, Page, owner, shown, Posts, Server, event, missed, Reconciles>>

Got(a) == [job |-> a.job, status |-> a.status]
OwnedBy(s, key) == s = "deployment" \/ (owner = key /\ selection = key)

EventAnswer(s) ==
  /\ event[s] # None /\ event' = [event EXCEPT ![s] = None]
  /\ IF shown[s] # None /\ shown[s].job = event[s].job /\ OwnedBy(s, event[s].key)
     THEN Show(s, Got(event[s])) ELSE UNCHANGED Jobs
  /\ UNCHANGED <<pane, Page, owner, Posts, Server, Reconciles>>

(* Mutant: a poll of a job that still runs is the last one.                *)
PolledOnce(s) ==
  poll' = [poll EXCEPT ![s] = None] /\ shown' = [shown EXCEPT ![s] = Got(poll[s])] /\ missed' = missed \ {s}

PollShows(s) == Show(s, Got(poll[s]))

PollAnswer(s) ==
  /\ poll[s] # None /\ poll[s].status \in Statuses
  /\ IF OwnedBy(s, poll[s].key) THEN PollShows(s)
     ELSE poll' = [poll EXCEPT ![s] = None] /\ UNCHANGED <<shown, missed>>
  /\ UNCHANGED <<pane, Page, owner, event, Posts, Server, Reconciles>>

(* A read that fails changes nothing of what is shown: that of an event is *)
(* forgotten; that of a poll is reported, and no other poll follows.       *)
EventFails(s) ==
  /\ event[s] # None /\ event' = [event EXCEPT ![s] = None]
  /\ UNCHANGED <<pane, Page, owner, Jobs, Posts, Server, Reconciles>>

PollFails(s) ==
  /\ poll[s] # None /\ poll[s].status \in Statuses
  /\ poll' = [poll EXCEPT ![s] = None] /\ missed' = missed \cup {s}
  /\ UNCHANGED <<pane, Page, owner, shown, event, Posts, Server, Reconciles>>

-----------------------------------------------------------------------------
(* reconcileDeployment: the job the answer is about is shown, whatever is  *)
(* selected by then.                                                       *)
Reconcile(s) ==
  /\ s \in Slots /\ ~dirty /\ shown[s] # None /\ shown[s].status = "unclear" /\ reconciling = None
  /\ reconciling' = shown[s] /\ reconciled' = reconciled \cup {shown[s].job}
  /\ UNCHANGED <<pane, Page, owner, shown, Posts, Server, Reads>>

ReconcileEnds ==
  /\ reconciling # None
  /\ LET n == reconciling.job
     IN \E to \in {"unclear", "over"} \cup (IF request[n].slot = "dryRun" THEN {"approved"} ELSE {}) :
          /\ status' = [status EXCEPT ![n] = IF status[n] = "unclear" THEN to ELSE status[n]]
          /\ Show(request[n].slot, [job |-> n, status |-> status'[n]])
  /\ reconciling' = None
  /\ UNCHANGED <<pane, Page, owner, event, Posts, told, reconciled>>

ReconcileFails ==
  /\ reconciling # None /\ reconciling' = None
  /\ UNCHANGED <<pane, Page, owner, shown, Posts, Server, Reads, reconciled>>

-----------------------------------------------------------------------------
Proceeds(s) == TimerFires(s) \/ PollAnswer(s) \/ PollFails(s) \/ EventFails(s)
UpdateNext ==
  \/ Change \/ Effects \/ ReconcileEnds \/ ReconcileFails
  \/ \E n \in Requests : Answer(n) \/ Refused(n) \/ JobMoves(n) \/ Receive(n)
  \/ \E s \in AllSlots : \/ Proceeds(s) \/ EventAnswer(s) \/ Reconcile(s)
                         \/ \E n \in Requests : Submit(s, n)

-----------------------------------------------------------------------------
(* Once the page has taken in a change, the jobs it shows are those        *)
(* submitted for the selection, but for one the user had reconciled.       *)
ShownIsSelected ==
  ~dirty => \A s \in Slots : shown[s] # None =>
    \/ request[shown[s].job].selection = selection
    \/ shown[s].job \in reconciled

(* The page waits for an answer exactly while one may still be wanted.     *)
WaitsForAnswer ==
  \A s \in Slots : submitting[s] <=>
    \E n \in Requests : request[n].state = "sent" /\ request[n].slot = s

(* A job that has ended is not shown running for ever, even if all its     *)
(* events are lost: a poll of it, begun or due, is there as long as it is, *)
(* unless the change that drops it is about to be taken in, or a poll of   *)
(* it has failed: the page then shows the error and polls no more, until   *)
(* an event or another answer shows the job anew.                          *)
OutOfDate(s) == shown[s] # None /\ shown[s].status = "running" /\ status[shown[s].job] # "running"
StaleIsPolled ==
  ~dirty => \A s \in Slots : OutOfDate(s) /\ s \notin missed => poll[s] # None /\ poll[s].job = shown[s].job
=============================================================================
