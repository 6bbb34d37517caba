------------------------------ MODULE ClientConn ------------------------------
(***************************************************************************)
(* A client and its keep-alive connection: the request loop of the Rust,   *)
(* Go, TypeScript and Python clients over the connection loop of the       *)
(* server.  A reply is two reads, its length and the rest; a connection    *)
(* may break, an attempt may time out while its request is still on the    *)
(* way, and the request is then sent again on a new connection.            *)
(*                                                                         *)
(* The server answers the requests of one connection in order and executes *)
(* what it has received even when the client has gone.  Two servers, one   *)
(* of which leads and executes; the other answers NOT_LEADER with a hint.  *)
(***************************************************************************)
EXTENDS Integers, Sequences, FiniteSets

CONSTANTS
    Langs,          \* the clients to look at: a subset of {"rust", "go", "ts", "py"}
    Calls,          \* how many operations the caller makes, 1 .. Calls
    MaxTries,       \* retry_policy.max_attempts
    MaxHops,        \* max_redirects
    MaxSockets,     \* connections made in one behaviour
    Breaks,         \* connections lost or timed out in one behaviour
    Overlapping     \* the TypeScript caller starts an operation before the last ended

Call == 1 .. Calls
Socket == 1 .. MaxSockets
Leader == "b"
None == 0

VARIABLES
    lang,           \* which client
    call,           \* each operation's progress
    sock,           \* each connection: where to, requests on the way, chunks on the way back
    conn,           \* the connection the client keeps, None if it has none
    target,         \* the address the client talks to
    ran,            \* the operations the leader executed, in order
    faults          \* breaks left

connVars == <<lang, call, sock, conn, target, ran, faults>>

NewCall == [at |-> "new", on |-> None, tries |-> 0, hops |-> 0, read |-> None, result |-> "none"]
NewSock == [made |-> FALSE, open |-> FALSE, to |-> "a", requests |-> <<>>, chunks |-> <<>>, waiters |-> <<>>]

Running == {c \in Call : call[c].at \in {"send", "head", "rest"}}
Unmade == {s \in Socket : ~sock[s].made}
NextSocket == CHOOSE s \in Unmade : \A t \in Unmade : s <= t

\* invalidate_conn, closeConn and close: the socket goes, and with it what was on it
Closed(s) == IF s = None THEN sock ELSE [sock EXCEPT ![s].open = FALSE, ![s].chunks = <<>>, ![s].waiters = <<>>]

-----------------------------------------------------------------------------
(***************************************************************************)
(* The caller.  A Rust client is borrowed mutably and the Python client is *)
(* synchronous; the Go client is used by one goroutine.  Nothing in the    *)
(* TypeScript client keeps two operations apart.                           *)
(***************************************************************************)
Begin(c) ==
    /\ call[c].at = "new"
    /\ \A d \in Call : d < c => call[d].at # "new"
    /\ Running = {} \/ (lang = "ts" /\ Overlapping)
    /\ call' = [call EXCEPT ![c].at = "send"]
    /\ UNCHANGED <<lang, sock, conn, target, ran, faults>>

(***************************************************************************)
(* One attempt: use the kept connection or make one, write the frame, and  *)
(* wait for the length of the reply.                                       *)
(***************************************************************************)
KeptConn == conn # None /\ sock[conn].open /\ sock[conn].to = target

Sent(s, c) == [sock EXCEPT ![s].made = TRUE, ![s].open = TRUE,
                           ![s].to = IF sock[s].made THEN @ ELSE target,
                           ![s].requests = Append(@, c),
                           ![s].waiters = Append(@, c)]

RawRoundtrip(c) ==
    /\ call[c].at = "send"
    /\ KeptConn \/ Unmade # {}
    /\ LET s == IF KeptConn THEN conn ELSE NextSocket
       IN /\ sock' = Sent(s, c)
          /\ conn' = s
          /\ call' = [call EXCEPT ![c].at = "head", ![c].on = s]
    /\ UNCHANGED <<lang, target, ran, faults>>

(***************************************************************************)
(* The server's loop on a connection: one request, one response.           *)
(***************************************************************************)
Reply(s, c) == LET st == IF sock[s].to = Leader THEN "ok" ELSE "not_leader"
               IN <<[part |-> "head", for |-> c, status |-> st], [part |-> "rest", for |-> c, status |-> st]>>

HandleConnection(s) ==
    /\ sock[s].requests # <<>>
    /\ LET c == Head(sock[s].requests)
       IN /\ ran' = IF sock[s].to = Leader THEN Append(ran, c) ELSE ran
          /\ sock' = [sock EXCEPT ![s].requests = Tail(@),
                                  ![s].chunks = IF sock[s].open THEN @ \o Reply(s, c) ELSE @]
    /\ UNCHANGED <<lang, call, conn, target, faults>>

(***************************************************************************)
(* Reading.  Bytes go to the operation that has waited longest.  For the   *)
(* three sequential clients that is the only one; the TypeScript client    *)
(* queues a read behind the reads of other operations (Conn.readExact).    *)
(***************************************************************************)
Turn(s, c) == sock[s].waiters # <<>> /\ Head(sock[s].waiters) = c
NextWaiter(s, c, more) == IF more THEN Append(Tail(sock[s].waiters), c) ELSE Tail(sock[s].waiters)

ReadHead(c) ==
    LET s == call[c].on
    IN /\ call[c].at = "head"
       /\ sock[s].open /\ sock[s].chunks # <<>> /\ Turn(s, c)
       /\ call' = [call EXCEPT ![c].at = "rest", ![c].read = Head(sock[s].chunks).for]
       /\ sock' = [sock EXCEPT ![s].chunks = Tail(@), ![s].waiters = NextWaiter(s, c, TRUE)]
       /\ UNCHANGED <<lang, conn, target, ran, faults>>

Finished(c, chunk) == [call EXCEPT ![c].at = "done", ![c].read = chunk.for, ![c].result = chunk.status]

ReadRest(c) ==
    LET s == call[c].on
    IN /\ call[c].at = "rest"
       /\ sock[s].open /\ sock[s].chunks # <<>> /\ Turn(s, c)
       /\ Head(sock[s].chunks).status = "ok"
       /\ call' = Finished(c, Head(sock[s].chunks))
       /\ sock' = [sock EXCEPT ![s].chunks = Tail(@), ![s].waiters = NextWaiter(s, c, FALSE)]
       /\ UNCHANGED <<lang, conn, target, ran, faults>>

(***************************************************************************)
(* NOT_LEADER: close, follow the hint, and send again within the redirect  *)
(* budget; past it the status is returned.  Python charges its retries to  *)
(* the same budget.                                                        *)
(***************************************************************************)
Redirected(c) ==
    LET s == call[c].on
    IN /\ call[c].at = "rest"
       /\ sock[s].open /\ sock[s].chunks # <<>> /\ Turn(s, c)
       /\ Head(sock[s].chunks).status = "not_leader"
       /\ sock' = Closed(conn)
       /\ conn' = None
       /\ IF call[c].hops >= MaxHops
          THEN /\ call' = Finished(c, Head(sock[s].chunks))
               /\ UNCHANGED target
          ELSE /\ call' = [call EXCEPT ![c].at = "send", ![c].hops = @ + 1, ![c].read = Head(sock[s].chunks).for]
               /\ target' = Leader
       /\ UNCHANGED <<lang, ran, faults>>

(***************************************************************************)
(* A transport error or an attempt's timeout: the connection is dropped    *)
(* and the same request is sent again, until the attempts are used up.     *)
(***************************************************************************)
Exhausted(c) == IF lang = "py" THEN call[c].hops >= MaxHops ELSE call[c].tries + 1 >= MaxTries

Retried(c) ==
    IF Exhausted(c) THEN [call EXCEPT ![c].at = "done", ![c].result = "failed"]
    ELSE IF lang = "py" THEN [call EXCEPT ![c].at = "send", ![c].hops = @ + 1]
    ELSE [call EXCEPT ![c].at = "send", ![c].tries = @ + 1]

Broken(c) == call[c].at # "send" /\ ~sock[call[c].on].open

\* mutant: the connection survives the attempt
AttemptFailsKeepsConn(c) ==
    /\ c \in Running
    /\ Broken(c) \/ faults > 0
    /\ faults' = IF Broken(c) THEN faults ELSE faults - 1
    /\ call' = Retried(c)
    /\ sock' = IF call[c].at = "send" THEN sock ELSE [sock EXCEPT ![call[c].on].waiters = <<>>]
    /\ UNCHANGED <<lang, conn, target, ran>>

AttemptFails(c) ==
    /\ c \in Running
    /\ Broken(c) \/ faults > 0
    /\ faults' = IF Broken(c) THEN faults ELSE faults - 1
    /\ call' = Retried(c)
    /\ sock' = Closed(conn)
    /\ conn' = None
    /\ UNCHANGED <<lang, target, ran>>

(***************************************************************************)
(* The caller of the Rust client stops polling the operation's future (a   *)
(* timeout or a select around it).  The client keeps its connection.       *)
(***************************************************************************)
FutureDropped(c) ==
    /\ lang = "rust" /\ faults > 0
    /\ call[c].at \in {"head", "rest"}
    /\ faults' = faults - 1
    /\ call' = [call EXCEPT ![c].at = "done", ![c].result = "dropped"]
    /\ sock' = [sock EXCEPT ![call[c].on].waiters = <<>>]
    /\ UNCHANGED <<lang, conn, target, ran>>

ConnInit ==
    /\ lang \in Langs
    /\ call = [c \in Call |-> NewCall]
    /\ sock = [s \in Socket |-> NewSock]
    /\ conn = None
    /\ target \in {"a", Leader}
    /\ ran = <<>>
    /\ faults = Breaks

ClientStep == \E c \in Call : Begin(c) \/ RawRoundtrip(c) \/ ReadHead(c) \/ ReadRest(c) \/ Redirected(c)
ConnNext ==
    \/ ClientStep
    \/ \E s \in Socket : HandleConnection(s)
    \/ \E c \in Call : AttemptFails(c)

ConnSpec == ConnInit /\ [][ConnNext]_connVars

\* The same with callers that give an operation up.
ConnSpecDropping == ConnInit /\ [][ConnNext \/ \E c \in Call : FutureDropped(c)]_connVars

-----------------------------------------------------------------------------
Times(c) == Cardinality({i \in DOMAIN ran : ran[i] = c})

(***************************************************************************)
(* An operation is answered by the reply to its own request: a late reply  *)
(* to a request given up earlier is never taken for it, because the        *)
(* connection it could arrive on is gone.                                  *)
(***************************************************************************)
RepliesAreOwn == \A c \in Call : call[c].read \in {None, c}

(***************************************************************************)
(* An operation that succeeded was executed, and one that was never sent   *)
(* again was executed at most once: only the client's own retries repeat   *)
(* an operation.                                                           *)
(***************************************************************************)
SuccessWasExecuted ==
    \A c \in Call :
        /\ call[c].result = "ok" => Times(c) >= 1
        /\ Times(c) <= 1 + call[c].tries + call[c].hops

(***************************************************************************)
(* client-wire-protocol.md: "Writes should be retried only when safe".  An *)
(* operation is executed at most once.                                     *)
(***************************************************************************)
ExecutedOnce == \A c \in Call : Times(c) <= 1
=============================================================================
