---------------------------- MODULE BrowserSession ----------------------------
(***************************************************************************)
(* Who the web UI takes the user for, and whose jobs and projects its home *)
(* page lists: sessions end on the server at any time, answers come when   *)
(* somebody else has signed in, and a lost session shows only by a 401.    *)
(***************************************************************************)
EXTENDS Naturals

CONSTANTS Users, None,
          MaxSent, MaxLogins   \* bounds: requests, sign-ins

VARIABLES session,   \* the session the cookie names: its number and user
          living,    \* the sessions the server still accepts
          logins,
          asked,     \* getAuthStatus: sent, answered for a session, or shown
          page,      \* auth: "loading", None, or the user
          listed,    \* whose workspace and jobs the home page shows
          call,      \* per number: a request
          leaving    \* logout: the session to be ended, or its answer is due

sessionVars == <<session, living, logins, asked, page, listed, call, leaving>>

Sent == 1 .. MaxSent
NoCall == [kind |-> "none", user |-> None, session |-> 0, answer |-> None, aborted |-> FALSE]
Sessions == 0 .. MaxLogins

SessionTypeOK ==
  /\ session \in [number : Sessions, user : Users \cup {None}] /\ living \subseteq Sessions
  /\ logins \in Sessions /\ asked \in {"sent", "in", "out", "shown"}
  /\ page \in Users \cup {"loading", None} /\ listed \in Users \cup {None}
  /\ call \in [Sent -> [kind : {"none", "list", "other", "over"}, user : Users \cup {None},
                        session : Sessions, answer : Users \cup {"401", None}, aborted : BOOLEAN]]
  /\ leaving \in {"no", "sent", "done"}

SessionInit ==
  /\ session \in {[number |-> 0, user |-> u] : u \in Users \cup {None}}
  /\ living = IF session.user = None THEN {} ELSE {0}
  /\ logins = 0 /\ asked = "sent" /\ page = "loading" /\ listed = None
  /\ call = [n \in Sent |-> NoCall] /\ leaving = "no"

Cookie == <<session, living, logins>>
SignedIn == page \notin {"loading", None}

-----------------------------------------------------------------------------
(* The page takes somebody, or nobody, for its user: what is listed goes,  *)
(* and the effects abort the requests for the lists and send new ones.     *)
Aborting == [n \in Sent |-> IF call[n].kind = "list" THEN [call[n] EXCEPT !.aborted = TRUE] ELSE call[n]]

Unsent == {n \in Sent : call[n].kind = "none"}
Request(calls, kind, user, of) ==
  \E n \in Unsent : /\ \A m \in Unsent : n <= m
                    /\ call' = [calls EXCEPT ![n] = [NoCall EXCEPT !.kind = kind, !.user = user,
                                                                   !.session = of]]

Becomes(user) ==
  /\ page' = user /\ listed' = None
  /\ IF user = page THEN UNCHANGED call
     ELSE IF user = None \/ Unsent = {} THEN call' = Aborting
     ELSE Request(Aborting, "list", user, session'.number)

(* getAuthStatus, once, when the page is loaded.                           *)
StatusRead ==
  /\ asked = "sent" /\ asked' = IF session.number \in living THEN "in" ELSE "out"
  /\ UNCHANGED <<Cookie, page, listed, call, leaving>>
StatusShown ==
  /\ asked \in {"in", "out"} /\ asked' = "shown" /\ UNCHANGED <<Cookie, leaving>>
  /\ Becomes(IF asked = "in" THEN session.user ELSE None)
StatusFails ==
  /\ asked \in {"sent", "in", "out"} /\ page = "loading" /\ asked' = "shown"
  /\ UNCHANGED <<Cookie, page, listed, call, leaving>>

(* The login form is answered: a new session, in the cookie of the answer. *)
LogIn(u) ==
  /\ page = None /\ logins < MaxLogins /\ logins' = logins + 1
  /\ session' = [number |-> logins', user |-> u] /\ living' = living \cup {logins'}
  /\ Becomes(u) /\ UNCHANGED <<asked, leaving>>

(* logout: the server first; if that fails nothing changes.                *)
LogOut ==
  /\ SignedIn /\ leaving = "no" /\ leaving' = "sent"
  /\ UNCHANGED <<Cookie, asked, page, listed, call>>
Ended ==
  /\ leaving = "sent"
  /\ \/ leaving' = "done" /\ living' = living \ {session.number} /\ session' = [session EXCEPT !.user = None]
     \/ leaving' = "no" /\ UNCHANGED <<session, living>>
  /\ UNCHANGED <<logins, asked, page, listed, call>>
LoggedOut ==
  /\ leaving = "done" /\ leaving' = "no" /\ Becomes(None) /\ UNCHANGED <<Cookie, asked>>

(* Expiry, a new password, an administrator.                               *)
SessionEnds ==
  /\ session.number \in living /\ living' = living \ {session.number}
  /\ UNCHANGED <<session, logins, asked, page, listed, call, leaving>>

-----------------------------------------------------------------------------
(* Any other request of a page, which nobody aborts.                       *)
Ask ==
  /\ SignedIn /\ Unsent # {} /\ Request(call, "other", page, session.number)
  /\ UNCHANGED <<Cookie, asked, page, listed, leaving>>

(* The server answers for the session of the cookie it was sent.           *)
Serve(n) ==
  /\ call[n].kind \in {"list", "other"} /\ call[n].answer = None
  /\ call' = [call EXCEPT ![n].answer =
                IF call[n].session \in living THEN call[n].user ELSE "401"]
  /\ UNCHANGED <<Cookie, asked, page, listed, leaving>>

(* apiRequest: aborted, by its caller or after its time.                   *)
Lost(n) ==
  /\ call[n].kind \in {"list", "other"} /\ call' = [call EXCEPT ![n].kind = "over"]
  /\ UNCHANGED <<Cookie, asked, page, listed, leaving>>

(* Mutant: whoever is signed in by now.                                    *)
Always(n) == TRUE

StillWanted(n) == ~call[n].aborted /\ page = call[n].user

Shown(n) ==
  /\ call[n].kind = "list" /\ call[n].answer \in Users
  /\ listed' = IF StillWanted(n) THEN call[n].answer ELSE listed
  /\ call' = [call EXCEPT ![n].kind = "over"]
  /\ UNCHANGED <<Cookie, asked, page, leaving>>

Done(n) ==
  /\ call[n].kind = "other" /\ call[n].answer \in Users /\ call' = [call EXCEPT ![n].kind = "over"]
  /\ UNCHANGED <<Cookie, asked, page, listed, leaving>>

(* sfud:unauthorized, whichever session the answer was about.              *)
Unauthorized == page' = None /\ listed' = None

Refused(n) ==
  /\ call[n].kind \in {"list", "other"} /\ call[n].answer = "401" /\ ~call[n].aborted
  /\ Unauthorized
  /\ call' = [Aborting EXCEPT ![n].kind = "over"]
  /\ UNCHANGED <<Cookie, asked, leaving>>

Answered(n) == Shown(n) \/ Done(n) \/ Refused(n)

SessionNext ==
  \/ StatusRead \/ StatusShown \/ StatusFails \/ LogOut \/ Ended \/ LoggedOut \/ SessionEnds \/ Ask
  \/ \E u \in Users : LogIn(u)
  \/ \E n \in Sent : Serve(n) \/ Lost(n) \/ Answered(n)

-----------------------------------------------------------------------------
(* What is listed belongs to the user the page is signed in as.            *)
ListedIsOwn == listed # None => listed = page
=============================================================================
