------------------------------ MODULE UiControl ------------------------------
(***************************************************************************)
(* `sfud ui` and `sfud ui stop`: a server that started leaves a record of  *)
(* its control port in the home directory, and a stop, another process,    *)
(* reads the records, asks each server whether it runs, removes what a     *)
(* crash left, and asks the one server found to shut down.                 *)
(***************************************************************************)
EXTENDS Integers, FiniteSets

CONSTANTS Servers, Ports, None,
          MaxCrashes, MaxStops     \* Bounds

VARIABLES start,     \* Where startWebUi is
          close,     \* Where app.close() is
          closing,   \* The flag of a start
          control,   \* startWebUi has the control
          port, listening,   \* Of the control, and whether it listens there
          record,    \* The record of the server is in the directory
          stopper,   \* The process of `sfud ui stop`
          asked,     \* The servers shut down by a stop (history)
          kept,      \* Those that could not remove their record (history)
          budget
uiVars == <<start, close, closing, control, port, listening, record, stopper, asked, kept, budget>>

Idle == [at |-> "idle", wanted |-> Servers, pending |-> {}, stale |-> {}, live |-> {}, chosen |-> None]

UiInit ==
  /\ start = [s \in Servers |-> "none"] /\ close = [s \in Servers |-> "none"]
  /\ closing = [s \in Servers |-> FALSE] /\ control = [s \in Servers |-> FALSE]
  /\ port = [s \in Servers |-> 0] /\ listening = [s \in Servers |-> FALSE]
  /\ record = [s \in Servers |-> FALSE]
  /\ stopper = Idle /\ asked = {} /\ kept = {}
  /\ budget = [crashes |-> 0, stops |-> 0]

Alive(s) == start[s] \notin {"none", "crashed"}

(* app.close(): the hooks run once, however often it is asked for.         *)
Shut(s) ==
  /\ closing' = [closing EXCEPT ![s] = TRUE]
  /\ close' = [close EXCEPT ![s] = IF @ = "none" THEN "hook" ELSE @]

Starts(s, at) == start' = [start EXCEPT ![s] = at]
FailStart(s) == Starts(s, "failed") /\ Shut(s)

StartWebUi(s) ==
  /\ start[s] = "none"
  /\ Starts(s, "binding")
  /\ UNCHANGED <<close, closing, control, port, listening, record, stopper, asked, kept, budget>>

(* app.listen: the port may be taken, and the end been asked for meanwhile.*)
Bind(s) ==
  /\ start[s] = "binding"
  /\ \/ FailStart(s)
     \/ ~closing[s] /\ Starts(s, "control") /\ UNCHANGED <<close, closing>>
  /\ UNCHANGED <<control, port, listening, record, stopper, asked, kept, budget>>

(* startUiControl: listens on any free port, then makes the record. A file *)
(* that cannot be written whole is removed again, which may fail too.      *)
Free == {p \in Ports : \A s \in Servers : listening[s] => port[s] # p}
Listen(s) ==
  /\ start[s] = "control"
  /\ \E p \in Free : port' = [port EXCEPT ![s] = p]
  /\ listening' = [listening EXCEPT ![s] = TRUE]
  /\ Starts(s, "record")
  /\ UNCHANGED <<close, closing, control, record, stopper, asked, kept, budget>>
MakeRecord(s) ==
  /\ start[s] = "record"
  /\ \/ /\ record' = [record EXCEPT ![s] = TRUE] /\ Starts(s, "check")
        /\ UNCHANGED <<listening, close, closing, kept>>
     \/ /\ listening' = [listening EXCEPT ![s] = FALSE] /\ FailStart(s)
        /\ \/ UNCHANGED <<record, kept>>
           \/ record' = [record EXCEPT ![s] = TRUE] /\ kept' = kept \cup {s}
  /\ UNCHANGED <<control, port, stopper, asked, budget>>

(* dispose, its end: what is no file any more is fine; any other error is  *)
(* reported on the terminal, and the record stays.                         *)
Remove(s) ==
  \/ record' = [record EXCEPT ![s] = FALSE] /\ UNCHANGED kept
  \/ record[s] /\ kept' = kept \cup {s} /\ UNCHANGED record

(* Mutant: the end asked for meanwhile is not looked at.                   *)
StartedUnchecked(s) ==
  /\ start[s] = "check"
  /\ control' = [control EXCEPT ![s] = TRUE] /\ Starts(s, "up")
  /\ UNCHANGED <<listening, close, closing, port, record, stopper, asked, kept, budget>>

(* The start has its control. The end asked for while it was made has not  *)
(* seen it: the start disposes of it.                                      *)
Started(s) ==
  /\ start[s] = "check"
  /\ control' = [control EXCEPT ![s] = TRUE]
  /\ IF closing[s] THEN /\ listening' = [listening EXCEPT ![s] = FALSE] /\ Starts(s, "undo")
                   ELSE Starts(s, "up") /\ UNCHANGED listening
  /\ UNCHANGED <<close, closing, port, record, stopper, asked, kept, budget>>
Undo(s) ==
  /\ start[s] = "undo"
  /\ Remove(s) /\ FailStart(s)
  /\ UNCHANGED <<control, port, listening, stopper, asked, budget>>

(* SIGINT or SIGTERM, once there is an app.                                *)
Signal(s) ==
  /\ Alive(s) /\ ~closing[s] /\ Shut(s)
  /\ UNCHANGED <<start, control, port, listening, record, stopper, asked, kept, budget>>

(* The onClose hook: dispose, unless the start does so, stops listening,   *)
(* then unlinks the record.                                                *)
CloseHook(s) ==
  /\ close[s] = "hook" /\ Alive(s)
  /\ IF control[s] /\ start[s] = "up"
     THEN /\ listening' = [listening EXCEPT ![s] = FALSE]
          /\ close' = [close EXCEPT ![s] = "unlink"]
     ELSE close' = [close EXCEPT ![s] = "closed"] /\ UNCHANGED listening
  /\ UNCHANGED <<start, closing, control, port, record, stopper, asked, kept, budget>>
Unlink(s) ==
  /\ close[s] = "unlink" /\ Alive(s)
  /\ Remove(s) /\ close' = [close EXCEPT ![s] = "closed"]
  /\ UNCHANGED <<start, closing, control, port, listening, stopper, asked, budget>>

(* The process is killed, by start-local.sh for one: its record stays.     *)
Crash(s) ==
  /\ Alive(s) /\ budget.crashes < MaxCrashes
  /\ Starts(s, "crashed") /\ listening' = [listening EXCEPT ![s] = FALSE]
  /\ budget' = [budget EXCEPT !.crashes = @ + 1]
  /\ UNCHANGED <<close, closing, control, port, record, stopper, asked, kept>>

-----------------------------------------------------------------------------
server == <<start, close, closing, control, port, listening, record, kept>>

(* stopWebUi: all the records there are; a port and a host may be asked    *)
(* for, which narrows the servers down to those wanted. One record that    *)
(* cannot be read ends the stop.                                           *)
ReadRecords ==
  /\ stopper.at \in {"idle", "nothing", "ambiguous", "failed", "stopped"} /\ budget.stops < MaxStops
  /\ budget' = [budget EXCEPT !.stops = @ + 1]
  /\ \/ \E wanted \in {Servers} \cup {{s} : s \in Servers} :
          stopper' = [Idle EXCEPT !.at = "asking", !.wanted = wanted, !.pending = {s \in Servers : record[s]}]
     \/ stopper' = [Idle EXCEPT !.at = "failed"]
  /\ UNCHANGED <<server, asked>>

(* Eight workers ask the servers; a failure of one does not stop the others*)
Asking == stopper.at \in {"asking", "failed"}

(* Who gets what is sent to the control port of a record.                  *)
Reached(s) == {t \in Servers : listening[t] /\ port[t] = port[s]}

(* Mutant: whoever listens is taken for the server of the record.          *)
Anybody(s, t) == TRUE

(* A server answers for its own id and token only; anything but a refused  *)
(* connection, a late answer included, leaves the record alone.            *)
Answers(s, t) == s = t
Refused(s) == Reached(s) = {}
AskStatus(s) ==
  /\ Asking /\ s \in stopper.pending
  /\ stopper' = [stopper EXCEPT
       !.pending = @ \ {s},
       !.stale = IF Refused(s) THEN @ \cup {s} ELSE @,
       !.live = IF s \in stopper.wanted /\ \E t \in Reached(s) : Answers(s, t) THEN @ \cup {s} ELSE @]
  /\ UNCHANGED <<server, asked, budget>>
(* Mutant: no answer is as good as a refused connection.                   *)
NoAnswerIsStale(s) ==
  /\ Asking /\ s \in stopper.pending
  /\ stopper' = [stopper EXCEPT !.pending = @ \ {s}, !.stale = @ \cup {s}]
  /\ UNCHANGED <<server, asked, budget>>

NoAnswer(s) ==
  /\ Asking /\ s \in stopper.pending
  /\ stopper' = [stopper EXCEPT !.pending = @ \ {s}]
  /\ UNCHANGED <<server, asked, budget>>
RemoveStale(s) ==
  /\ Asking /\ s \in stopper.stale
  /\ \/ /\ record' = [record EXCEPT ![s] = FALSE]
        /\ stopper' = [stopper EXCEPT !.stale = @ \ {s}]
     \/ /\ stopper' = [stopper EXCEPT !.stale = @ \ {s}, !.at = "failed"]
        /\ UNCHANGED record
  /\ UNCHANGED <<start, close, closing, control, port, listening, asked, kept, budget>>

Choose ==
  /\ stopper.at = "asking" /\ stopper.pending = {} /\ stopper.stale = {}
  /\ stopper' = CASE stopper.live = {} -> [stopper EXCEPT !.at = "nothing"]
                  [] Cardinality(stopper.live) > 1 -> [stopper EXCEPT !.at = "ambiguous"]
                  [] OTHER -> [stopper EXCEPT !.at = "stop", !.chosen = CHOOSE s \in stopper.live : TRUE]
  /\ UNCHANGED <<server, asked, budget>>

(* The request to stop: whoever listens now shuts down if it is for him.   *)
AskStop ==
  /\ stopper.at = "stop"
  /\ LET reached == {t \in Reached(stopper.chosen) : Answers(stopper.chosen, t)} IN
     IF reached = {}
     THEN stopper' = [stopper EXCEPT !.at = "failed"] /\ UNCHANGED <<asked, close, closing>>
     ELSE /\ stopper' = [stopper EXCEPT !.at = "waiting"]
          /\ asked' = asked \cup reached
          /\ \E t \in reached : Shut(t)
  /\ UNCHANGED <<start, control, port, listening, record, kept, budget>>
(* Mutant: the request is answered at once.                                *)
RepliesAtOnce(s) == Alive(s)

Replies(s) == close[s] = "closed" /\ Alive(s)
Reply ==
  /\ stopper.at = "waiting" /\ Replies(stopper.chosen)
  /\ stopper' = [stopper EXCEPT !.at = "stopped"]
  /\ UNCHANGED <<server, asked, budget>>
(* 60 seconds are over, the connection is closed, or the shutdown failed.  *)
NoReply ==
  /\ stopper.at = "waiting"
  /\ stopper' = [stopper EXCEPT !.at = "failed"]
  /\ UNCHANGED <<server, asked, budget>>

Run(s) ==
  \/ Bind(s) \/ Listen(s) \/ MakeRecord(s) \/ Started(s) \/ Undo(s) \/ CloseHook(s) \/ Unlink(s)
UiNext ==
  \/ \E s \in Servers : \/ StartWebUi(s) \/ Run(s) \/ Signal(s) \/ Crash(s)
                        \/ AskStatus(s) \/ NoAnswer(s) \/ RemoveStale(s)
  \/ ReadRecords \/ Choose \/ AskStop \/ Reply \/ NoReply

-----------------------------------------------------------------------------
UiTypeOK ==
  /\ \A s \in Servers : port[s] \in Ports \cup {0} /\ (listening[s] => Alive(s))
  /\ \A s, t \in Servers : s # t /\ listening[s] /\ listening[t] => port[s] # port[t]
  /\ stopper.pending \cup stopper.stale \cup stopper.live \subseteq Servers

(* A server that runs can be stopped: no stop removes its record.          *)
RunningIsRecorded == \A s \in Servers : start[s] = "up" /\ close[s] = "none" => record[s] /\ listening[s]

(* A stop shuts down nothing but the server it wants, though a control port*)
(* that a crash has freed is another server's now.                         *)
OnlyWantedStops == [][\A s \in asked' \ asked : s \in stopper.wanted]_uiVars

(* What is reported as stopped is closed.                                  *)
StoppedIsClosed == stopper.at = "stopped" => close[stopper.chosen] = "closed"

(* A server that has ended by itself, whenever in its start the end was    *)
(* asked for, listens no more and leaves no record, unless it has tried to *)
(* remove it and could not.                                                *)
Ended(s) == close[s] = "closed" /\ start[s] \in {"up", "failed"}
NothingLeftBehind == \A s \in Servers : Ended(s) => ~listening[s] /\ (record[s] => s \in kept)
=============================================================================
