------------------------------ MODULE DraftSaving ------------------------------
(***************************************************************************)
(* The selection of a page is saved as it is edited: at once in the        *)
(* browser, a little later on the server, where the requests of a tab are  *)
(* ordered as they were received.  After a reload it is offered again.     *)
(***************************************************************************)
EXTENDS Naturals, FiniteSets

CONSTANTS None,
          MaxEdits, MaxPuts, MaxReloads   \* bounds

VARIABLES selection,   \* on the page: 0 to begin with, then the number of the edit
          edits, reloads,
          latest,      \* what the user made last and has not given up
          client,      \* the client draft of the tab
          row,         \* the draft on the server and its revision
          revision,    \* deployment_draft_revision
          put,         \* per PUT sent: what it saves and how far it is
          saved,       \* lastSavedFingerprint: what is known to be on the server
          waiting,     \* the PUT whose answer the page still takes
          timer,       \* the selection whose PUT waits for 700 ms
          recovery,    \* the draft offered: from the browser or from the server
          restoring,   \* restore: what the page showed when asked, the PUT, the draft as read
          before,      \* the PUTs that were under way when a draft was read
          overtaken,   \* a PUT was received after one, or saved after a reading, sent later
          reverted     \* the user went back to what was saved last

draftVars == <<selection, edits, reloads, latest, client, row, revision, put, saved, waiting, timer,
               recovery, restoring, before, overtaken, reverted>>

Edits == 0 .. MaxEdits
Puts == 1 .. MaxPuts
NoPut == [selection |-> None, state |-> "none", revision |-> 0]
Stages == {"none", "sent", "received", "saved", "refused"}

DraftTypeOK ==
  /\ selection \in Edits /\ edits \in Edits /\ reloads \in 0 .. MaxReloads
  /\ latest \in Edits \cup {None} /\ client \in Edits \cup {None}
  /\ row \in [selection : Edits, revision : Puts] \cup {None} /\ revision \in 0 .. MaxPuts
  /\ put \in [Puts -> [selection : Edits \cup {None}, state : Stages, revision : 0 .. MaxPuts]]
  /\ saved \in Edits \cup {None} /\ waiting \in Puts \cup {None} /\ timer \in Edits \cup {None}
  /\ recovery \in [from : {"browser", "server"}, selection : Edits \cup {None}] \cup {None}
  /\ restoring \in [shown : Edits, put : Puts \cup {None}, read : Edits \cup {None}] \cup {None}
  /\ before \subseteq Puts /\ overtaken \in BOOLEAN /\ reverted \in BOOLEAN

DraftInit ==
  /\ selection = 0 /\ edits = 0 /\ reloads = 0 /\ latest = None /\ client = None /\ row = None
  /\ revision = 0 /\ put = [p \in Puts |-> NoPut] /\ saved = None /\ waiting = None /\ timer = None
  /\ recovery = None /\ restoring = None /\ before = {} /\ overtaken = FALSE /\ reverted = FALSE

Bounds == <<edits, reloads>>
Drafts == <<row, revision, before, overtaken>>

-----------------------------------------------------------------------------
(* The user edits: what was offered is dropped, what was being sent is     *)
(* waited for no longer, and the edit is kept in the browser at once.      *)
(* During a restore the effects rest.                                      *)
Edit ==
  /\ edits < MaxEdits /\ edits' = edits + 1 /\ selection' = edits' /\ latest' = edits'
  /\ waiting' = None /\ reverted' = FALSE
  /\ IF restoring = None
     THEN client' = edits' /\ timer' = edits' /\ recovery' = None
     ELSE UNCHANGED <<client, timer, recovery>>
  /\ UNCHANGED <<reloads, Drafts, put, saved, restoring>>

(* An edit that goes back to what was saved last ends what was being sent, *)
(* but is not saved again.                                                 *)
Revert ==
  /\ saved # None /\ selection # saved /\ selection' = saved /\ latest' = saved
  /\ waiting' = None /\ timer' = None /\ reverted' = TRUE
  /\ recovery' = None
  /\ UNCHANGED <<Bounds, client, Drafts, put, saved, restoring>>

Unused == {p \in Puts : put[p] = NoPut}
Sent(p, s) ==
  /\ p \in Unused /\ \A q \in Unused : p <= q
  /\ put' = [put EXCEPT ![p] = [NoPut EXCEPT !.selection = s, !.state = "sent"]]

TimerFires ==
  /\ timer # None /\ timer' = None
  /\ \E p \in Puts : Sent(p, timer) /\ waiting' = p
  /\ UNCHANGED <<selection, Bounds, latest, client, Drafts, saved, recovery, restoring, reverted>>

Page == <<selection, Bounds, latest, client, saved, waiting, timer, recovery, restoring, reverted>>

(* reserveRevision, before the selection is captured.                      *)
Receive(p) ==
  /\ put[p].state = "sent" /\ revision' = revision + 1
  /\ put' = [put EXCEPT ![p].state = "received", ![p].revision = revision']
  /\ overtaken' = (overtaken \/ \E q \in Puts : q > p /\ put[q].revision > 0)
  /\ UNCHANGED <<Page, row, before>>

(* Mutant: who saves last wins.                                            *)
AlwaysLater(p) == TRUE

Later(p) == IF row = None THEN TRUE ELSE row.revision < put[p].revision

(* captureSelection takes its time, and may fail; save compares revisions. *)
Save(p) ==
  /\ put[p].state = "received"
  /\ \/ /\ Later(p)
        /\ row' = [selection |-> put[p].selection, revision |-> put[p].revision]
        /\ put' = [put EXCEPT ![p].state = "saved"]
        /\ overtaken' = (overtaken \/ p \in before)
     \/ put' = [put EXCEPT ![p].state = "refused"] /\ UNCHANGED <<row, overtaken>>
  /\ UNCHANGED <<Page, revision, before>>

Expected(p) == waiting = p

(* The answer: the copy in the browser is needed no more.                  *)
Answer(p) ==
  /\ put[p].state = "saved" /\ Expected(p) /\ restoring = None
  /\ client' = None /\ waiting' = None /\ saved' = put[p].selection
  /\ UNCHANGED <<selection, Bounds, latest, Drafts, put, timer, recovery, restoring, reverted>>

-----------------------------------------------------------------------------
(* The page is loaded anew: the draft in the browser is offered, or the    *)
(* one on the server.  What was edited during a restore is nowhere yet.    *)
Reload ==
  /\ reloads < MaxReloads /\ reloads' = reloads + 1
  /\ selection' = 0 /\ waiting' = None /\ timer' = None /\ restoring' = None /\ saved' = None
  /\ recovery' = IF client # None THEN [from |-> "browser", selection |-> client]
                 ELSE IF row # None THEN [from |-> "server", selection |-> None]
                 ELSE None
  /\ latest' = IF restoring # None /\ selection # restoring.shown THEN None ELSE latest
  /\ UNCHANGED <<edits, client, Drafts, put, reverted>>

(* restore: a draft known to the browser alone is first put on the server. *)
Restore ==
  /\ recovery # None /\ restoring = None /\ waiting' = None /\ timer' = None
  /\ \E p \in Puts :
       /\ IF recovery.from = "browser" THEN Sent(p, recovery.selection) ELSE UNCHANGED put
       /\ restoring' = [shown |-> selection, read |-> None,
                        put |-> IF recovery.from = "browser" THEN p ELSE None]
  /\ UNCHANGED <<selection, Bounds, latest, client, Drafts, saved, recovery, reverted>>

(* Once it is there, the server reads the draft as it is by then.          *)
Resolve ==
  /\ restoring # None /\ restoring.read = None
  /\ restoring.put # None => put[restoring.put].state = "saved"
  /\ restoring' = [restoring EXCEPT !.read = row.selection]
  /\ before' = {p \in Puts : put[p].state \in {"sent", "received"}}
  /\ UNCHANGED <<selection, Bounds, latest, client, row, revision, overtaken, put, saved, waiting,
                 timer, recovery, reverted>>

StillWanted == selection = restoring.shown

(* The busy page again: its effects take in what was edited meanwhile.     *)
Resumed ==
  /\ restoring' = None
  /\ IF selection # restoring.shown
     THEN recovery' = None /\ client' = selection /\ timer' = selection
     ELSE UNCHANGED <<recovery, client, timer>>

Restored ==
  /\ restoring # None /\ restoring.read # None
  /\ IF StillWanted
     THEN /\ selection' = restoring.read /\ recovery' = None /\ client' = None
          /\ restoring' = None /\ saved' = restoring.read /\ reverted' = FALSE /\ UNCHANGED timer
          /\ latest' = IF selection = restoring.shown THEN restoring.read ELSE latest
     ELSE Resumed /\ UNCHANGED <<selection, latest, saved, reverted>>
  /\ UNCHANGED <<Bounds, Drafts, put, waiting>>

RestoreFails ==
  /\ restoring # None /\ Resumed
  /\ UNCHANGED <<selection, Bounds, latest, Drafts, put, saved, waiting, reverted>>

Dismiss ==
  /\ recovery # None /\ restoring = None /\ recovery' = None /\ client' = None /\ latest' = None
  /\ reverted' = FALSE
  /\ UNCHANGED <<selection, Bounds, Drafts, put, saved, waiting, timer, restoring>>

DraftNext ==
  \/ Edit \/ Revert \/ TimerFires \/ Reload \/ Restore \/ Resolve \/ Restored \/ RestoreFails \/ Dismiss
  \/ \E p \in Puts : Receive(p) \/ Save(p) \/ Answer(p)

-----------------------------------------------------------------------------
Offered == IF client # None THEN client ELSE IF row # None THEN row.selection ELSE None

(* What the user made last is on the page, or it is what the page offers   *)
(* when it is loaded anew -- unless requests took effect in another order  *)
(* than they were sent, or the user went back to what was saved last.      *)
LatestIsKept == latest = None \/ overtaken \/ reverted \/ selection = latest \/ Offered = latest
=============================================================================
