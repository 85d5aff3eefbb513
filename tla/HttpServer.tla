------------------------------- MODULE HttpServer -------------------------------
(***************************************************************************)
(* The HTTP server under the RPC server (httptest/server.go): Start with   *)
(* goServe, the connection-state hook that wrap installs, Close and        *)
(* CloseClientConnections. The wait group wg counts what Close has to wait *)
(* for; conns records the state of every connection net/http has reported. *)
(* net/http itself (accepting, reading requests, running the handler,      *)
(* reporting each change of state through the hook) is external; mu makes  *)
(* every call of the hook and the scan in Close one step.                  *)
(***************************************************************************)
EXTENDS Integers, FiniteSets

CONSTANTS
  Conns,    \* connections that clients may open
  Closers   \* goroutines that call Close

Main == "main"    \* the goroutine that calls Start
Waiters == Closers \cup {Main}

ASSUME HttpAssumption == IsFiniteSet(Conns) /\ Main \notin Closers

VARIABLES
  url,       \* Server.URL is set: Start has been called
  serve,     \* control state of the goroutine of goServe
  listener,  \* "open", "closed", or "nil" when listening failed
  keepAlive, \* http.Server accepts further requests on a connection
  wg,        \* Server.wg
  closed,    \* Server.closed
  conns,     \* Server.conns; "none" is a connection that is not in the map
  net,       \* where net/http is with each connection
  cut,       \* connections on which Close was called
  waiter,    \* who has reached wg.Wait: goServe in Main, or a closer
  ccc,       \* CloseClientConnections: connections still to be closed
  cccRuns,   \* ... and whether it is running
  crashed    \* "no", or why the process has died

tracked == <<wg, conns, cut>>
ends    == <<closed, listener, keepAlive>>
client  == <<ccc, cccRuns>>
vars == <<url, serve, waiter, tracked, ends, client, net, crashed>>

\* NewUnstartedServer: newLocalListener gives a nil listener when it fails.
Init ==
  /\ url = FALSE /\ serve = "none"
  /\ listener \in {"open", "nil"} /\ keepAlive = TRUE
  /\ wg = 0 /\ closed = FALSE
  /\ conns = [c \in Conns |-> "none"] /\ net = [c \in Conns |-> "unborn"]
  /\ cut = {} /\ waiter = [p \in Waiters |-> "idle"]
  /\ ccc = {} /\ cccRuns = FALSE /\ crashed = "no"

-----------------------------------------------------------------------------
(* Start and goServe.                                                      *)

\* Mutant: goServe does not count itself.
StartM ==
  /\ ~url /\ listener # "nil"
  /\ url' = TRUE /\ serve' = "starting" /\ waiter' = [waiter EXCEPT ![Main] = "waiting"]
  /\ UNCHANGED <<wg, crashed, conns, cut, ends, client, net>>

\* Start up to the Wait at the end of goServe: the goroutine of goServe is
\* started, and wg.Add(1) stands for goServe itself. A nil listener panics.
Start ==
  /\ ~url
  /\ IF listener = "nil"
     THEN crashed' = "nil listener" /\ UNCHANGED <<url, serve, waiter, wg>>
     ELSE /\ url' = TRUE /\ serve' = "starting"
          /\ waiter' = [waiter EXCEPT ![Main] = "waiting"]
          /\ wg' = wg + 1
          /\ UNCHANGED crashed
  /\ UNCHANGED <<conns, cut, ends, client, net>>

\* The goroutine of goServe: SetKeepAlivesEnabled(true), then Serve ...
goServe ==
  /\ serve = "starting"
  /\ serve' = "accept" /\ keepAlive' = TRUE
  /\ UNCHANGED <<url, tracked, closed, listener, waiter, client, net, crashed>>

\* ... which fails once the listener is closed; then wg.Add(1).
serveFails ==
  /\ serve = "accept" /\ listener = "closed" /\ \A c \in Conns : net[c] # "accepted"
  /\ serve' = "failed" /\ wg' = wg + 1
  /\ UNCHANGED <<url, waiter, conns, cut, ends, client, net, crashed>>

-----------------------------------------------------------------------------
(* The hook that wrap installs, called by net/http.                        *)

closeConn(c) == cut' = cut \cup {c}

\* Mutant: the connection is deleted without wg.Done().
forgetConnM(c) == conns' = [conns EXCEPT ![c] = "none"] /\ UNCHANGED wg

\* forgetConn: at most one wg.Done for a connection.
forgetConn(c) ==
  IF conns[c] = "none" THEN UNCHANGED <<conns, wg>>
  ELSE conns' = [conns EXCEPT ![c] = "none"] /\ wg' = wg - 1

\* Mutant: a connection that is reported after Close is left open.
stateNewM(c) ==
  /\ wg' = wg + 1 /\ conns' = [conns EXCEPT ![c] = "new"]
  /\ UNCHANGED <<cut, crashed>>

\* StateNew: count it, and close it at once if Close has run already.
stateNew(c) ==
  /\ wg' = wg + 1
  /\ crashed' = IF conns[c] = "none" THEN crashed ELSE "invalid state transition"
  /\ conns' = [conns EXCEPT ![c] = "new"]
  /\ IF closed THEN closeConn(c) ELSE UNCHANGED cut

\* StateActive and StateIdle: a connection that was forgotten stays so.
stateChange(c, from, to) ==
  IF conns[c] = "none" THEN UNCHANGED <<conns, crashed>>
  ELSE /\ crashed' = IF conns[c] \in from THEN crashed ELSE "invalid state transition"
       /\ conns' = [conns EXCEPT ![c] = to]

\* Mutant: a connection that becomes idle after Close is left open.
stateIdleM(c) == stateChange(c, {"active"}, "idle") /\ UNCHANGED <<wg, cut>>

stateIdle(c) ==
  /\ stateChange(c, {"active"}, "idle")
  /\ IF closed THEN closeConn(c) ELSE UNCHANGED cut
  /\ UNCHANGED wg

\* Mutant: a second request is not expected on a connection.
stateActiveM(c) == stateChange(c, {"new"}, "active") /\ UNCHANGED <<wg, cut>>

stateActive(c) == stateChange(c, {"new", "idle"}, "active") /\ UNCHANGED <<wg, cut>>

-----------------------------------------------------------------------------
(* net/http (external): one connection, from accept to the end.            *)

accept(c) ==
  /\ serve = "accept" /\ listener = "open" /\ net[c] = "unborn"
  /\ \A d \in Conns : net[d] # "accepted"
  /\ net' = [net EXCEPT ![c] = "accepted"] /\ UNCHANGED <<tracked, crashed>>
reportNew(c) ==
  /\ net[c] = "accepted" /\ net' = [net EXCEPT ![c] = "new"] /\ stateNew(c)
\* The first bytes of a request have been read; the hook is called afterwards.
readRequest(c) ==
  /\ net[c] \in {"new", "idle"} /\ c \notin cut
  /\ net[c] = "idle" => keepAlive
  /\ net' = [net EXCEPT ![c] = "read"] /\ UNCHANGED <<tracked, crashed>>
reportActive(c) ==
  /\ net[c] = "read" /\ net' = [net EXCEPT ![c] = "active"] /\ stateActive(c)
reportIdle(c) ==
  /\ net[c] = "active" /\ net' = [net EXCEPT ![c] = "idle"] /\ stateIdle(c)
\* A websocket takes the connection over (server.go handleWS).
hijack(c) ==
  /\ net[c] = "active" /\ net' = [net EXCEPT ![c] = "hijacked"]
  /\ forgetConn(c) /\ UNCHANGED <<cut, crashed>>
\* The connection was closed on either side, or is not kept alive.
connEnds(c) ==
  /\ net[c] \in {"new", "active", "idle"} /\ net' = [net EXCEPT ![c] = "ended"]
  /\ forgetConn(c) /\ UNCHANGED <<cut, crashed>>

MustEnd(c) == net[c] \in {"new", "idle"} /\ (c \in cut \/ (net[c] = "idle" /\ ~keepAlive))

-----------------------------------------------------------------------------
(* Close, and CloseClientConnections.                                      *)

\* Close up to wg.Wait(): the first call stops the listener and closes what is
\* idle or new; every call then waits.
Close(k) ==
  /\ waiter[k] = "idle"
  /\ waiter' = [waiter EXCEPT ![k] = "waiting"]
  /\ IF closed THEN UNCHANGED <<closed, listener, keepAlive, cut>>
     ELSE /\ closed' = TRUE /\ keepAlive' = FALSE
          /\ listener' = IF listener = "nil" THEN "nil" ELSE "closed"
          /\ cut' = cut \cup {c \in Conns : conns[c] \in {"new", "idle"}}
  /\ UNCHANGED <<url, serve, wg, conns, client, net, crashed>>

\* wg.Wait() returns; in goServe the deferred wg.Done() follows.
waitReturns(p) ==
  /\ waiter[p] = "waiting" /\ wg = 0
  /\ waiter' = [waiter EXCEPT ![p] = "returned"]
  /\ wg' = IF p = Main THEN wg - 1 ELSE wg
  /\ UNCHANGED <<url, serve, conns, cut, ends, client, net, crashed>>

\* CloseClientConnections starts a goroutine for each connection in the map ...
CloseClientConnections ==
  /\ ~cccRuns /\ cccRuns' = TRUE
  /\ ccc' = ccc \cup {c \in Conns : conns[c] # "none"}
  /\ UNCHANGED <<url, serve, waiter, tracked, ends, net, crashed>>
closeConnChan(c) ==
  /\ c \in ccc /\ ccc' = ccc \ {c} /\ closeConn(c)
  /\ UNCHANGED <<url, serve, waiter, wg, conns, ends, cccRuns, net, crashed>>
\* ... and waits for them or for its timer.
cccReturns ==
  /\ cccRuns /\ cccRuns' = FALSE
  /\ UNCHANGED <<url, serve, waiter, tracked, ends, ccc, net, crashed>>

-----------------------------------------------------------------------------
NetHttp(c) ==
  /\ \/ accept(c) \/ reportNew(c) \/ readRequest(c) \/ reportActive(c) \/ reportIdle(c)
     \/ hijack(c) \/ connEnds(c)
  /\ UNCHANGED <<url, serve, waiter, ends, client>>

Next ==
  /\ crashed = "no"
  /\ \/ Start \/ goServe \/ serveFails
     \/ \E c \in Conns : NetHttp(c) \/ closeConnChan(c)
     \/ \E k \in Closers : Close(k)
     \/ \E p \in Waiters : waitReturns(p)
     \/ CloseClientConnections \/ cccReturns

Spec == Init /\ [][Next]_vars

Live(A) == crashed = "no" /\ A

\* Goroutines that can run do: goServe, a waiter whose group is empty, the
\* hook after a change of state. A handler returns or takes the connection
\* over; a connection that was closed or is not kept alive ends. Nobody has
\* to connect, send a request, or call Close.
Fairness ==
  /\ WF_vars(Live(goServe)) /\ WF_vars(Live(serveFails))
  /\ \A p \in Waiters : WF_vars(Live(waitReturns(p)))
  /\ \A c \in Conns :
       /\ WF_vars(Live(NetHttp(c) /\ net[c] \in {"accepted", "read", "active"}))
       /\ WF_vars(Live(NetHttp(c) /\ MustEnd(c) /\ net'[c] = "ended"))

FairSpec == Spec /\ Fairness

-----------------------------------------------------------------------------
(* Properties.                                                             *)

\* The values the variables of the server can take.
FlagType == {url, keepAlive, closed, cccRuns} \subseteq BOOLEAN
ValueType ==
  /\ serve \in {"none", "starting", "accept", "failed"}
  /\ listener \in {"open", "closed", "nil"}
  /\ waiter \in [Waiters -> {"idle", "waiting", "returned"}]
  /\ wg \in Nat
  /\ conns \in [Conns -> {"none", "new", "active", "idle"}]
  /\ net \in [Conns -> {"unborn", "accepted", "new", "read", "active", "idle",
                        "hijacked", "ended"}]
  /\ cut \subseteq Conns /\ ccc \subseteq Conns
  /\ crashed \in {"no", "nil listener", "invalid state transition"}
TypeOK == FlagType /\ ValueType

Tracked == {c \in Conns : conns[c] # "none"}

\* wg counts the connections in the map, one for goServe and one for a Serve
\* that has failed: no connection is counted twice or dropped uncounted, and
\* the counter does not become negative (server.go:42 "wg counts the number of
\* outstanding HTTP requests on this server").
WgCounts ==
  wg = Cardinality(Tracked) + (IF url THEN 1 ELSE 0) + (IF serve = "failed" THEN 1 ELSE 0)

\* The map follows net/http: whatever Close and CloseClientConnections do in
\* between, the hook never meets an invalid state transition.
MapFollowsNet ==
  /\ crashed # "invalid state transition"
  /\ \A c \in Conns : conns[c] \in IF net[c] \in {"new", "active", "idle"} THEN {net[c]}
                                 ELSE IF net[c] = "read" THEN {"new", "idle"}
                                 ELSE {"none"}

\* Once Close has run, a connection that is doing nothing is closed: by Close,
\* or by the hook if it became new or idle only afterwards.
IdleCutAfterClose ==
  closed => \A c \in Conns : conns[c] \in {"new", "idle"} => c \in cut

\* After Close, every connection is done with, and leaves the map.
ConnsDrain == \A c \in Conns : closed /\ conns[c] # "none" ~> conns[c] = "none" \/ crashed # "no"

\* server.go:146 "Close shuts down the server and blocks until all outstanding
\* requests on this server have completed": it returns when they have.
CloseReturns ==
  \A k \in Closers : waiter[k] = "waiting" /\ Tracked = {} /\ listener = "closed"
                       ~> waiter[k] = "returned" \/ Tracked # {} \/ crashed # "no"
=============================================================================
