------------------------------- MODULE Sessions -------------------------------
(***************************************************************************)
(* Login sessions: the rows of the sessions table                          *)
(* (internal/store/sessions.go), the cookie that all tabs of a browser     *)
(* share, and in each tab the login state and CSRF token of App.tsx.       *)
(*                                                                         *)
(* A session is numbered; its number stands for cookie and CSRF token.     *)
(* A tab has one request under way at a time.                              *)
(***************************************************************************)
EXTENDS Naturals, Sequences

CONSTANTS
  SesTabs,       \* browser tabs
  SesFaults,     \* requests and answers may get lost
  SesMaxLogins   \* bound: sessions

ASSUME SesAssumption == SesMaxLogins \in Nat

VARIABLES
  sesRows,   \* the sessions table
  sesStale,  \* the rows that are past their expiry
  sesCookie, \* the browser's cookie, 0 if it has none
  sesTab,    \* each tab: its state and CSRF token
  sesCall,   \* each tab: the request under way, if any
  sesEnded,  \* history: the sessions that were logged out
  sesLast    \* the session that was created last, 0 at first

sesServer == <<sesRows, sesStale, sesEnded>>
sesVars == <<sesServer, sesCookie, sesTab, sesCall, sesLast>>

SesLoading == [auth |-> "checking", csrf |-> 0]
SesOut == [auth |-> "out", csrf |-> 0]
SesIn(k) == [auth |-> "in", csrf |-> k]

SesInit ==
  /\ sesRows = {} /\ sesStale = {} /\ sesEnded = {} /\ sesCookie = 0
  /\ sesTab = [t \in SesTabs |-> SesLoading] /\ sesCall = [t \in SesTabs |-> <<>>]
  /\ sesLast = 0

-----------------------------------------------------------------------------
(* Requests carry the cookie and the tab's CSRF token of that moment.      *)

SesSend(t, kind) ==
  /\ sesCall[t] = <<>>
  /\ sesCall' = [sesCall EXCEPT ![t] =
       <<[kind |-> kind, session |-> sesCookie, csrf |-> sesTab[t].csrf, step |-> "sent"]>>]
  /\ UNCHANGED <<sesServer, sesCookie, sesTab>>

SesAsk(t)  == sesTab[t].auth = "checking" /\ SesSend(t, "session") /\ UNCHANGED sesLast
SesPoll(t) == sesTab[t].auth = "in" /\ SesSend(t, "get") /\ UNCHANGED sesLast
SesClick(t) ==
  sesTab[t].auth = "in" /\ UNCHANGED sesLast /\ \E kind \in {"write", "logout"} : SesSend(t, kind)
SesSubmit(t) == sesTab[t].auth = "out" /\ SesSend(t, "login") /\ UNCHANGED sesLast

SesReload(t) ==
  /\ UNCHANGED sesLast
  /\ sesTab' = [sesTab EXCEPT ![t] = SesLoading] /\ sesCall' = [sesCall EXCEPT ![t] = <<>>]
  /\ UNCHANGED <<sesServer, sesCookie>>

-----------------------------------------------------------------------------
(* The server: GetSession, and what the middleware and the handler do.     *)

SesAt(t, step) == sesCall[t] # <<>> /\ sesCall[t][1].step = step
SesTo(t, step) == sesCall' = [sesCall EXCEPT ![t][1].step = step]

\* SELECT; an expired row is deleted and a live one renewed by a second
\* statement.
SesLookup(t) ==
  /\ SesAt(t, "sent") /\ sesCall[t][1].kind # "login"
  /\ LET k == sesCall[t][1].session
     IN  SesTo(t, IF k \notin sesRows THEN "unauthenticated" ELSE IF k \in sesStale THEN "drop" ELSE "renew")
  /\ UNCHANGED <<sesServer, sesCookie, sesTab, sesLast>>

SesDrop(t) ==
  /\ SesAt(t, "drop") /\ SesTo(t, "unauthenticated")
  /\ sesRows' = sesRows \ {sesCall[t][1].session} /\ sesStale' = sesStale \ {sesCall[t][1].session}
  /\ UNCHANGED <<sesEnded, sesCookie, sesTab, sesLast>>

\* Mutant of SesTouch: the renewal writes the row it has read.
SesTouchAndStore(k) == sesStale' = sesStale \ {k} /\ sesRows' = sesRows \cup {k}

SesTouch(k) == sesStale' = sesStale \ {k} /\ sesRows' = sesRows

\* requireCSRF lets reads pass.
SesRenew(t) ==
  /\ SesAt(t, "renew") /\ SesTouch(sesCall[t][1].session)
  /\ SesTo(t, IF sesCall[t][1].kind \in {"write", "logout"} /\ sesCall[t][1].csrf # sesCall[t][1].session
              THEN "forbidden" ELSE IF sesCall[t][1].kind = "logout" THEN "delete" ELSE "ok")
  /\ UNCHANGED <<sesEnded, sesCookie, sesTab, sesLast>>

SesLogout(t) ==
  /\ SesAt(t, "delete") /\ SesTo(t, "ok")
  /\ sesRows' = sesRows \ {sesCall[t][1].session} /\ sesStale' = sesStale \ {sesCall[t][1].session}
  /\ sesEnded' = sesEnded \cup {sesCall[t][1].session}
  /\ UNCHANGED <<sesCookie, sesTab, sesLast>>

\* A wrong password and the rate limit refuse.
SesLogin(t) ==
  /\ SesAt(t, "sent") /\ sesCall[t][1].kind = "login"
  /\ \/ /\ sesLast < SesMaxLogins /\ sesLast' = sesLast + 1
        /\ sesCall' = [sesCall EXCEPT ![t][1].session = sesLast', ![t][1].step = "ok"]
        /\ sesRows' = sesRows \cup {sesLast'}
        /\ UNCHANGED <<sesStale, sesEnded>>
     \/ SesTo(t, "refused") /\ UNCHANGED <<sesServer, sesLast>>
  /\ UNCHANGED <<sesCookie, sesTab>>

\* Time passes without a request of the session.
SesExpire ==
  /\ UNCHANGED sesLast
  /\ \E k \in sesRows \ sesStale : sesStale' = sesStale \cup {k}
  /\ UNCHANGED <<sesRows, sesEnded, sesCookie, sesTab, sesCall>>

\* The hourly PruneSessions.
SesPrune ==
  /\ sesStale # {} /\ sesRows' = sesRows \ sesStale /\ sesStale' = {}
  /\ UNCHANGED <<sesEnded, sesCookie, sesTab, sesCall, sesLast>>

-----------------------------------------------------------------------------
(* Answers.  A log-out reloads the page whatever its answer is.            *)

\* Mutant of SesAfter: only the first request of a page reacts to a 401.
SesAfterAsking(tab, call, step) ==
  CASE call.kind = "logout" -> SesLoading
    [] call.kind = "session" -> IF step = "ok" THEN SesIn(call.session) ELSE SesOut
    [] call.kind = "login" -> IF step = "ok" THEN SesIn(call.session) ELSE tab
    [] OTHER -> tab

SesAfter(tab, call, step) ==
  CASE call.kind = "logout" -> SesLoading
    [] call.kind = "session" -> IF step = "ok" THEN SesIn(call.session) ELSE SesOut
    [] call.kind = "login" -> IF step = "ok" THEN SesIn(call.session) ELSE tab
    [] OTHER -> IF step = "unauthenticated" THEN SesOut ELSE tab

\* The cookie comes and goes with the answers to log-in and log-out.
SesAnswered(t) ==
  /\ sesCall[t] # <<>> /\ sesCall[t][1].step \in {"ok", "unauthenticated", "forbidden", "refused"}
  /\ LET call == sesCall[t][1]
     IN  /\ sesTab' = [sesTab EXCEPT ![t] = SesAfter(@, call, call.step)]
         /\ sesCookie' = IF call.step = "ok" /\ call.kind = "login" THEN call.session
                         ELSE IF call.step = "ok" /\ call.kind = "logout" THEN 0 ELSE sesCookie
  /\ sesCall' = [sesCall EXCEPT ![t] = <<>>]
  /\ UNCHANGED <<sesServer, sesLast>>

SesAnswerLost(t) ==
  /\ SesFaults /\ sesCall[t] # <<>>
  /\ sesTab' = [sesTab EXCEPT ![t] = SesAfter(@, sesCall[t][1], "lost")]
  /\ sesCall' = [sesCall EXCEPT ![t] = <<>>]
  /\ UNCHANGED <<sesServer, sesCookie, sesLast>>

SesNext ==
  \/ \E t \in SesTabs :
       \/ SesAsk(t) \/ SesPoll(t) \/ SesClick(t) \/ SesSubmit(t) \/ SesReload(t)
       \/ SesLookup(t) \/ SesDrop(t) \/ SesRenew(t) \/ SesLogout(t) \/ SesLogin(t)
       \/ SesAnswered(t) \/ SesAnswerLost(t)
  \/ SesExpire \/ SesPrune

SesSpec == SesInit /\ [][SesNext]_sesVars

\* A tab goes on polling, and not every request or answer is lost.
SesFairness ==
  \A t \in SesTabs :
    /\ WF_sesVars(SesAsk(t)) /\ WF_sesVars(SesPoll(t))
    /\ SF_sesVars(SesLookup(t) \/ SesDrop(t) \/ SesRenew(t) \/ SesLogout(t) \/ SesLogin(t))
    /\ SF_sesVars(SesAnswered(t))

SesFairSpec == SesSpec /\ SesFairness

-----------------------------------------------------------------------------
\* A session that was logged out stays logged out, although requests that
\* were looked up before renew it afterwards.
EndedSessionsStayEnded == sesEnded \cap sesRows = {}

\* A tab whose session is gone (logged out in another tab, expired or pruned)
\* ends up at the login page, whatever it was doing.
TabsLeaveWithTheirSession ==
  \A t \in SesTabs : []<>(sesTab[t].auth = "in" => sesCookie \in sesRows)
=============================================================================
