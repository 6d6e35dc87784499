--------------------------- MODULE StoreConnection ---------------------------
(***************************************************************************)
(* A board's connection to the store: the session that opens it, settles   *)
(* who the board is, subscribes and tries again (src/src/sync/session.rs   *)
(* and connection.rs), and the connector that holds the sockets (src/src/  *)
(* sync/sdk_connector/connect.rs and mod.rs).                              *)
(*                                                                         *)
(* Every connection has a thread of the store's client, which delivers     *)
(* rows and, when the socket is gone or was closed, reports the end into   *)
(* one slot of the connector. A closed connection's thread goes on for a   *)
(* while. What of the rows matters is the connection they came from.       *)
(***************************************************************************)
EXTENDS FiniteSets, Naturals

CONSTANTS
    Conn,           \* connections of the client
    MaxFaults,      \* the bound on failures
    Ops,            \* which failures a run has
    Prompt          \* a connection let go has ended when the backoff has passed

NoConn == "no connection"
NoIdentity == "nobody"
Identity == {"me", "fresh"}

ASSUME StoreConnectionAssumption ==
    MaxFaults \in Nat /\ Prompt \in BOOLEAN /\ NoConn \notin Conn

VARIABLES
    board,          \* "starting", "up" or "gone"
    status,         \* the status of the board's connection
    pc,             \* where an attempt stands, "idle" between two steps
    offered,        \* who the store said the board is
    stored,         \* who the install is, on its disk
    token,          \* the credential on its disk
    slot,           \* the connection the connector holds
    thread,         \* what each connection's thread does
    asked,          \* connections whose subscription was asked for
    rows,           \* connections whose rows the board holds
    dropped,        \* whose end was reported and not yet collected
    faults

InAttempt == {"opening", "accepted", "coming up", "subscribing"}

sessionVars == <<board, status, pc, offered>>
diskVars == <<stored, token>>
connectorVars == <<slot, thread, asked, rows, dropped>>
vars == <<sessionVars, diskVars, connectorVars, faults>>

Init ==
    /\ board = "starting" /\ status = "connecting" /\ pc = "idle" /\ offered = NoIdentity
    /\ stored \in {NoIdentity, "me"} /\ token \in {NoIdentity, "me"}
    /\ slot = NoConn
    /\ thread = [c \in Conn |-> "none"]
    /\ asked = {} /\ rows = {} /\ dropped = NoConn
    /\ faults = 0

Fails(op) == op \in Ops /\ faults < MaxFaults /\ faults' = faults + 1

\* A board whose first attempt does not come up does not start.
AbortStartup == board' = IF board = "starting" THEN "gone" ELSE board

(***************************************************************************)
(* The connector.                                                          *)
(***************************************************************************)
Closed(c) == [d \in Conn |-> IF d = c /\ thread[d] = "live" THEN "closing" ELSE thread[d]]

Install(c) ==
    /\ thread' = [Closed(slot) EXCEPT ![c] = "live"]
    /\ rows' = {} /\ dropped' = NoConn
    /\ slot' = c

Disconnect ==
    /\ thread' = Closed(slot)
    /\ rows' = {} /\ dropped' = NoConn
    /\ slot' = NoConn

(***************************************************************************)
(* An attempt.                                                             *)
(***************************************************************************)
BeginAttempt ==
    /\ board # "gone" /\ status = "connecting" /\ pc = "idle"
    /\ pc' = "opening"
    /\ UNCHANGED <<board, status, offered, diskVars, connectorVars, faults>>

Free(c) == thread[c] = "none" /\ c \notin {slot, dropped} \cup rows

\* An attempt that fails may have had a connection, which is closed.
ConnectFails ==
    /\ pc = "opening"
    /\ Fails("connect fails")
    /\ \/ thread' = thread
       \/ \E c \in Conn : Free(c) /\ thread' = [thread EXCEPT ![c] = "closing"]
    /\ status' = "disconnected" /\ pc' = "idle" /\ AbortStartup
    /\ UNCHANGED <<offered, diskVars, slot, asked, rows, dropped>>

\* The store knows whose a credential is, and makes a new identity for none.
Offer(t) == IF t = NoIdentity THEN "fresh" ELSE t

Connect ==
    /\ pc = "opening"
    /\ \E c \in Conn : Free(c) /\ Install(c)
    /\ offered' = Offer(token)
    /\ pc' = "accepted"
    /\ UNCHANGED <<board, status, diskVars, asked, faults>>

\* Reading who the install is fails: the attempt ends as it stands.
IdentityUnreadable ==
    /\ pc = "accepted"
    /\ Fails("identity unreadable")
    /\ pc' = "idle" /\ AbortStartup
    /\ UNCHANGED <<status, offered, diskVars, connectorVars>>

IsConflict == stored # NoIdentity /\ stored # offered

Settle ==
    /\ pc = "accepted" /\ ~IsConflict
    /\ status' = "connected" /\ pc' = "coming up"
    /\ UNCHANGED <<board, offered, diskVars, connectorVars, faults>>

Conflict ==
    /\ pc = "accepted" /\ IsConflict
    /\ status' = "failed" /\ pc' = "idle" /\ AbortStartup
    /\ Disconnect
    /\ UNCHANGED <<offered, diskVars, asked, faults>>

Adopt ==
    /\ pc = "coming up" /\ stored = NoIdentity
    /\ stored' = offered /\ token' = offered
    /\ UNCHANGED <<sessionVars, connectorVars, faults>>

Subscribe ==
    /\ pc = "coming up" /\ stored # NoIdentity
    /\ asked' = asked \cup ({slot} \ {c \in Conn : thread[c] = "none"})
    /\ pc' = "subscribing"
    /\ UNCHANGED <<board, status, offered, diskVars, slot, thread, rows, dropped, faults>>

Applied ==
    /\ pc = "subscribing" /\ thread[slot] = "live"
    /\ pc' = "idle" /\ board' = "up"
    /\ UNCHANGED <<status, offered, diskVars, connectorVars, faults>>

\* The faulty form records the outage and goes on with the attempt.
GoDownGoingOn ==
    /\ status' = "disconnected" /\ AbortStartup
    /\ Disconnect
    /\ UNCHANGED <<pc, offered, diskVars, asked>>

GoDown ==
    /\ status' = "disconnected" /\ pc' = "idle" /\ AbortStartup
    /\ Disconnect
    /\ UNCHANGED <<offered, diskVars, asked>>

ComingUpFails ==
    /\ pc = "coming up" /\ Fails("local write fails")
    /\ GoDown

SubscribeFails ==
    /\ pc = "subscribing"
    /\ \/ Fails("subscribe fails")
       \/ thread[slot] # "live" /\ UNCHANGED faults
    /\ GoDown

(***************************************************************************)
(* Between attempts.                                                       *)
(***************************************************************************)
TakeDrop ==
    /\ board = "up" /\ status = "connected" /\ pc = "idle"
    /\ dropped # NoConn
    /\ GoDown
    /\ UNCHANGED faults

RetryDue ==
    /\ board = "up" /\ status = "disconnected" /\ pc = "idle"
    /\ Prompt => \A c \in Conn \ {slot} : thread[c] = "none"
    /\ status' = "connecting"
    /\ UNCHANGED <<board, pc, offered, diskVars, connectorVars, faults>>

(***************************************************************************)
(* The threads.                                                            *)
(***************************************************************************)
SocketDies ==
    /\ Fails("socket dies")
    /\ \E c \in Conn : thread[c] = "live" /\ thread' = [thread EXCEPT ![c] = "lost"]
    /\ UNCHANGED <<sessionVars, diskVars, slot, asked, rows, dropped>>

\* The faulty form registers no callback for the end of a connection.
ReportEndToNobody(c) ==
    /\ thread[c] \in {"lost", "closing"}
    /\ thread' = [thread EXCEPT ![c] = "none"]
    /\ asked' = asked \ {c}
    /\ UNCHANGED <<sessionVars, diskVars, slot, rows, dropped, faults>>

\* The first reason stays.
ReportEnd(c) ==
    /\ thread[c] \in {"lost", "closing"}
    /\ thread' = [thread EXCEPT ![c] = "none"]
    /\ dropped' = IF dropped = NoConn THEN c ELSE dropped
    /\ asked' = asked \ {c}
    /\ UNCHANGED <<sessionVars, diskVars, slot, rows, faults>>

Deliver(c) ==
    /\ c \in asked /\ thread[c] # "none"
    /\ rows' = rows \cup {c}
    /\ UNCHANGED <<sessionVars, diskVars, slot, thread, asked, dropped, faults>>

SessionStep ==
    \/ BeginAttempt \/ Connect \/ Settle \/ Conflict \/ Adopt \/ Subscribe
    \/ Applied \/ SubscribeFails \/ TakeDrop \/ RetryDue

Next ==
    \/ SessionStep
    \/ ConnectFails \/ IdentityUnreadable \/ ComingUpFails \/ SocketDies
    \/ \E c \in Conn : ReportEnd(c) \/ Deliver(c)

Spec == Init /\ [][Next]_vars

FairSpec ==
    /\ Spec
    /\ WF_vars(SessionStep)
    /\ \A c \in Conn : WF_vars(ReportEnd(c)) /\ WF_vars(Deliver(c))

-----------------------------------------------------------------------------
(* Properties *)

\* The types, and an attempt past its opening holds a connection.
TypeOK ==
    /\ board \in {"starting", "up", "gone"}
    /\ status \in {"connecting", "connected", "disconnected", "failed"}
    /\ pc \in {"idle"} \cup InAttempt
    /\ offered \in Identity \cup {NoIdentity}
    /\ stored \in Identity \cup {NoIdentity} /\ token \in Identity \cup {NoIdentity}
    /\ slot \in Conn \cup {NoConn}
    /\ thread \in [Conn -> {"none", "live", "lost", "closing"}]
    /\ asked \subseteq Conn /\ rows \subseteq Conn
    /\ dropped \in Conn \cup {NoConn}
    /\ pc \in InAttempt \ {"opening"} => slot # NoConn

\* Nothing is asked for before the board knows it is asking as itself: with an
\* identity on disk, rows are only held of a connection that was offered that
\* very one (session.rs, attempt: "already have asked for a stranger's rows").
OnlyItsOwnRows == asked # {} \/ rows # {} => stored = offered

\* There is one open connection at most, the one the connector holds, and none
\* that was asked for rows once the board is down or has failed (mod.rs,
\* install).
OneOpenConnection ==
    /\ \A c \in Conn : thread[c] = "live" => c = slot
    /\ status \in {"disconnected", "failed"} => slot \notin asked

\* A board that shows itself connected has asked for its rows; it never rests
\* connected with nothing subscribed (session.rs, attempt).
ConnectedMeansSubscribed ==
    status = "connected" /\ pc = "idle" =>
        slot # NoConn /\ (slot \in asked \/ thread[slot] = "none")

\* What a connected board shows came from the connection it has.
ConnectedRowsAreCurrent == status = "connected" => rows \subseteq {slot}

\* Whatever fails on the way to the store, a board asks for rows only as itself,
\* over one open connection, and shows the rows of that one: those of a
\* connection it let go are delivered until its thread ends, so the last part
\* takes a backoff that outlasts the thread.
ConnectionsAreHonest ==
    /\ TypeOK
    /\ OnlyItsOwnRows
    /\ OneOpenConnection
    /\ ConnectedMeansSubscribed
    /\ Prompt => ConnectedRowsAreCurrent

\* Once failures stop, a board that is up and is who it was shows the rows of
\* one open connection for good (session.rs: "needs restarting after every
\* wifi handover" otherwise).
IsBack ==
    \/ board = "gone" \/ status = "failed"
    \/ status = "connected" /\ rows = {slot} /\ thread[slot] = "live"

\* A board that is down shows no rows (sync.allium,
\* ADisconnectedBoardDrawsNoSharedRows).
DownBoardIsEmpty == status = "disconnected" => rows = {}

\* Only the end of the connection the board holds takes the board down
\* (mod.rs, install: "that report must not surface as an outage of the
\* connection that just succeeded").
DropsAreItsOwn ==
    [][status = "connected" /\ pc = "idle" /\ status' = "disconnected"
           => thread[slot] # "live"]_vars
=============================================================================
