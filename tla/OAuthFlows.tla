------------------------------- MODULE OAuthFlows -------------------------------
(***************************************************************************)
(* The OAuth login of a Salesforce org: a flow starts in a browser, comes  *)
(* back through Salesforce once, and is completed by the session that      *)
(* started it, with the session looked up again after every await.         *)
(***************************************************************************)
EXTENDS Naturals, FiniteSets

CONSTANTS Flows,                   \* numbered as they start
          Sessions, Completions, None,
          MaxActive, MaxStarts,    \* MAX_ACTIVE_ATTEMPTS, MAX_STARTS_PER_SESSION
          Ttl, Window,             \* ATTEMPT_TTL_MS, START_WINDOW_MS
          MaxTime                  \* bound

VARIABLES clock,
          attempt,      \* per flow: the attempt, and under which key it is kept
          starts,       \* startsBySession: when each flow of a session started
          cookie,       \* per browser session: the flow whose proof it holds
          signedIn,     \* the sessions not ended
          completion,   \* per request to complete: its flow and how far it is
          exchanged,    \* how often a flow's code was sent to Salesforce
          stored        \* per flow: the sessions connections were stored for

flowVars == <<clock, attempt, starts, cookie, signedIn, completion, exchanged, stored>>

NoAttempt == [key |-> "gone", session |-> None, created |-> 0, answer |-> "none",
              completing |-> FALSE, consumed |-> FALSE]
Idle == [pc |-> "idle", flow |-> None, session |-> None, late |-> FALSE]

FlowTypeOK ==
  /\ clock \in 0 .. MaxTime
  /\ attempt \in [Flows -> [key : {"gone", "state", "id"}, session : Sessions \cup {None},
                            created : 0 .. MaxTime, answer : {"none", "code", "failure"},
                            completing : BOOLEAN, consumed : BOOLEAN]]
  /\ starts \in [Sessions -> SUBSET (Flows \X (0 .. MaxTime))]
  /\ cookie \in [Sessions -> Flows \cup {None}] /\ signedIn \subseteq Sessions
  /\ completion \in [Completions ->
       [pc : {"idle", "begun", "exchange", "exchanged", "validate", "validated", "store"},
        flow : Flows \cup {None}, session : Sessions \cup {None}, late : BOOLEAN]]
  /\ exchanged \in [Flows -> 0 .. 2] /\ stored \in [Flows -> SUBSET Sessions]

FlowInit ==
  /\ clock = 0 /\ attempt = [f \in Flows |-> NoAttempt]
  /\ starts = [s \in Sessions |-> {}] /\ cookie = [s \in Sessions |-> None]
  /\ signedIn = Sessions /\ completion = [c \in Completions |-> Idle]
  /\ exchanged = [f \in Flows |-> 0] /\ stored = [f \in Flows |-> {}]

Browser == <<clock, cookie, signedIn>>
History == <<exchanged, stored>>

-----------------------------------------------------------------------------
(* cleanup: what is too old is dropped, the completion of it goes on.      *)
Expired(f) == clock - attempt[f].created > Ttl
Cleaned == [f \in Flows |-> IF Expired(f) THEN [attempt[f] EXCEPT !.key = "gone"] ELSE attempt[f]]
Active(attempts) == {f \in Flows : attempts[f].key # "gone"}

(* Mutant: one start too many.                                             *)
LaxRecent(s) == {p \in starts[s] : clock - p[2] + 1 < Window}

Recent(s) == {p \in starts[s] : clock - p[2] < Window}

(* Mutant: finished attempts alone make room.                              *)
RoomAnyway == TRUE

Room == Cardinality(Active(Cleaned)) < MaxActive

(* start: the limits, then a new attempt, whose proof replaces any other   *)
(* flow's in this browser.                                                 *)
StartFlow(f, s) ==
  /\ s \in signedIn /\ attempt[f] = NoAttempt /\ \A g \in 1 .. f - 1 : attempt[g] # NoAttempt
  /\ Room /\ Cardinality(Recent(s)) < MaxStarts
  /\ starts' = [starts EXCEPT ![s] = Recent(s) \cup {<<f, clock>>}]
  /\ attempt' = [Cleaned EXCEPT ![f] = [NoAttempt EXCEPT !.key = "state", !.session = s, !.created = clock]]
  /\ cookie' = [cookie EXCEPT ![s] = f]
  /\ UNCHANGED <<clock, signedIn, completion, History>>

(* callback: once, in time, from the browser that holds the proof; with a  *)
(* code, or without.                                                       *)
Callback(f, s) ==
  /\ attempt[f].key = "state" /\ ~attempt[f].consumed /\ ~Expired(f) /\ cookie[s] = f
  /\ \E answer \in {"code", "failure"} :
       attempt' = [attempt EXCEPT ![f].key = "id", ![f].answer = answer]
  /\ cookie' = [cookie EXCEPT ![s] = None]
  /\ UNCHANGED <<clock, starts, signedIn, completion, History>>

-----------------------------------------------------------------------------
Go(c, r) == completion' = [completion EXCEPT ![c] = r]

(* Mutants: a flow being completed may be completed again; or by another   *)
(* session.                                                                *)
MayCompleteAgain(f, s) ==
  attempt[f].key = "id" /\ ~Expired(f) /\ ~attempt[f].consumed /\ attempt[f].session = s
MayCompleteAnyones(f, s) ==
  attempt[f].key = "id" /\ ~Expired(f) /\ ~attempt[f].consumed /\ ~attempt[f].completing

MayComplete(f, s) ==
  /\ attempt[f].key = "id" /\ ~Expired(f) /\ ~attempt[f].consumed
  /\ ~attempt[f].completing /\ attempt[f].session = s

(* beginComplete.                                                          *)
BeginComplete(c, f, s) ==
  /\ completion[c].pc = "idle" /\ s \in signedIn /\ MayComplete(f, s)
  /\ attempt' = [Cleaned EXCEPT ![f].completing = TRUE]
  /\ Go(c, [Idle EXCEPT !.pc = "begun", !.flow = f, !.session = s])
  /\ UNCHANGED <<Browser, starts, History>>

(* Every outcome of the request ends in consume.                           *)
Consumed(c) ==
  /\ Go(c, Idle)
  /\ attempt' = [attempt EXCEPT ![completion[c].flow].consumed = TRUE, ![completion[c].flow].key = "gone"]

(* Mutant: the session is looked up before the exchange only.              *)
CheckedOnce == {"begun"}

(* isRequestSessionActive, before the exchange, before the validation and  *)
(* before the connection is stored.                                        *)
CheckedAt == {"begun", "exchanged", "validated"}

After == [begun |-> "exchange", exchanged |-> "validate", validated |-> "store"]
CheckSession(c) ==
  /\ completion[c].pc \in {"begun", "exchanged", "validated"}
  /\ IF completion[c].pc \in CheckedAt /\ completion[c].session \notin signedIn THEN Consumed(c)
     ELSE Go(c, [completion[c] EXCEPT !.pc = After[@]]) /\ UNCHANGED attempt
  /\ UNCHANGED <<Browser, starts, History>>

(* exchange: a denied or failed flow asks nothing; the code is sent, and   *)
(* the answer may be refused.                                              *)
Exchange(c) ==
  LET f == completion[c].flow
  IN /\ completion[c].pc = "exchange"
     /\ IF attempt[f].answer = "failure" THEN Consumed(c) /\ UNCHANGED exchanged
        ELSE /\ exchanged' = [exchanged EXCEPT ![f] = @ + 1]
             /\ \/ Go(c, [completion[c] EXCEPT !.pc = "exchanged"]) /\ UNCHANGED attempt
                \/ Consumed(c)
     /\ UNCHANGED <<Browser, starts, stored>>

Validate(c) ==
  /\ completion[c].pc = "validate"
  /\ \/ Go(c, [completion[c] EXCEPT !.pc = "validated"]) /\ UNCHANGED attempt
     \/ Consumed(c)
  /\ UNCHANGED <<Browser, starts, History>>

(* upsert, for the user of the session; it may refuse.                     *)
StoreConnection(c) ==
  LET f == completion[c].flow
  IN /\ completion[c].pc = "store" /\ Consumed(c)
     /\ \/ stored' = [stored EXCEPT ![f] = @ \cup {completion[c].session}]
        \/ UNCHANGED stored
     /\ UNCHANGED <<Browser, starts, exchanged>>

-----------------------------------------------------------------------------
(* A session ends; the completions it has not been looked up for again     *)
(* since are late.                                                         *)
EndSession(s) ==
  /\ s \in signedIn /\ signedIn' = signedIn \ {s}
  /\ completion' = [c \in Completions |->
       IF completion[c].session = s THEN [completion[c] EXCEPT !.late = (@ \/ completion[c].pc # "store")]
       ELSE completion[c]]
  /\ UNCHANGED <<clock, attempt, starts, cookie, History>>

Tick ==
  /\ clock < MaxTime /\ clock' = clock + 1
  /\ UNCHANGED <<attempt, starts, cookie, signedIn, completion, History>>

CompletionStep(c) == CheckSession(c) \/ Exchange(c) \/ Validate(c) \/ StoreConnection(c)
FlowNext ==
  \/ Tick
  \/ \E s \in Sessions :
       \/ EndSession(s)
       \/ \E f \in Flows :
            \/ StartFlow(f, s) \/ Callback(f, s)
            \/ /\ \E c \in Completions : completion[c].pc = "idle"
               /\ BeginComplete(CHOOSE c \in Completions : completion[c].pc = "idle", f, s)
  \/ \E c \in Completions : CompletionStep(c)

-----------------------------------------------------------------------------
(* The code of a flow is sent to Salesforce at most once, however many     *)
(* requests ask for the flow to be completed.                              *)
CodeSentOnce == \A f \in Flows : exchanged[f] <= 1

(* A connection is stored for the session that started the flow only.      *)
StoredForItsStarter == \A f \in Flows : stored[f] \subseteq {attempt[f].session}

(* A completion whose session ended before the last look-up stores none.   *)
EndedStoresNothing ==
  [][\A c \in Completions : completion[c].late /\ completion[c].pc = "store" => UNCHANGED stored]_flowVars

(* No session starts more flows within the window than it may, and there   *)
(* are never more under way than the server means to hold.                 *)
StartsWithinLimit ==
  \A s \in Sessions, t \in 0 .. MaxTime :
    Cardinality({f \in Flows : /\ attempt[f].session = s
                               /\ attempt[f].created \in t .. t + Window - 1}) <= MaxStarts
ActiveWithinLimit == Cardinality(Active(attempt)) <= MaxActive
=============================================================================
