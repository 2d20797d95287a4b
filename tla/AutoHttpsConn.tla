---------------------------- MODULE AutoHttpsConn ----------------------------
(***************************************************************************)
(* One connection to the panel when it serves HTTPS                        *)
(* (web/network/autp_https_conn.go).  The wrapper reads the first bytes    *)
(* itself, answers a plain HTTP request with a redirect, and otherwise     *)
(* hands those bytes and all later ones to TLS.                            *)
(*                                                                         *)
(* The bytes a client sends are named by their positions 1, 2, 3, ...      *)
(***************************************************************************)
EXTENDS Integers, Sequences

CONSTANTS
    Length,     \* bound: bytes a client sends
    BufSize,    \* the buffer of the probe, and of a later Read
    HeaderEnd   \* where the header of a plain HTTP request ends

VARIABLES
    speaks,     \* what the client speaks
    sent,       \* bytes it has sent
    gone,       \* it has closed the connection
    taken,      \* bytes read from the socket
    deadline,   \* the read deadline of the socket
    open,       \* the panel has not closed the connection
    firstBuf,   \* length of firstBuf, 0 for nil
    bufStart,   \* bytes of firstBuf already replayed
    got,        \* the bytes TLS has got
    pc          \* the goroutine that serves the connection

client == <<speaks, sent, gone>>
socket == <<taken, deadline, open>>
buffer == <<firstBuf, bufStart>>
vars   == <<client, socket, buffer, got, pc>>

TypeOK ==
    /\ speaks \in {"http", "tls"} /\ sent \in 0..Length /\ gone \in BOOLEAN
    /\ taken \in 0..sent /\ deadline \in {"none", "set", "passed"}
    /\ open \in BOOLEAN
    /\ firstBuf \in 0..taken /\ bufStart \in 0..taken
    /\ got \in Seq(Nat)
    /\ pc \in {"accepted", "read first", "probe", "read", "established", "over"}

Init ==
    /\ speaks \in {"http", "tls"} /\ sent = 0 /\ gone = FALSE
    /\ taken = 0 /\ deadline = "none" /\ open = TRUE
    /\ firstBuf = 0 /\ bufStart = 0
    /\ got = <<>>
    /\ pc = "accepted"

-----------------------------------------------------------------------------
(* The client and the clock *)

Send ==
    /\ sent < Length /\ open /\ ~gone
    /\ sent' = sent + 1
    /\ UNCHANGED <<speaks, gone, socket, buffer, got, pc>>

HangUp ==
    /\ ~gone
    /\ gone' = TRUE
    /\ UNCHANGED <<speaks, sent, socket, buffer, got, pc>>

DeadlinePasses ==
    /\ deadline = "set"
    /\ deadline' = "passed"
    /\ UNCHANGED <<client, taken, open, buffer, got, pc>>

-----------------------------------------------------------------------------
(* net.Conn.Read *)

\* It returns the next n bytes ...
Reads(n) ==
    /\ open /\ deadline # "passed" /\ n \in 1..BufSize /\ taken + n <= sent
    /\ taken' = taken + n

\* ... or an error: the deadline, the end of the stream, a closed connection.
ReadFails == deadline = "passed" \/ ~open \/ (gone /\ taken = sent)

-----------------------------------------------------------------------------
(* readRequest, within the first Read *)

\* conn.serve of net/http sets a deadline, from the timeouts of web.go:366, and
\* has TLS read its first record.
Serve ==
    /\ pc = "accepted"
    /\ deadline' = "set" /\ pc' = "read first"
    /\ UNCHANGED <<client, taken, open, buffer, got>>

\* SetReadDeadline(probeTimeout); a broken socket refuses it.
SetProbeDeadline ==
    /\ pc = "read first"
    /\ \/ deadline' = "set" /\ pc' = "probe"
       \/ gone /\ pc' = "read" /\ UNCHANGED deadline
    /\ UNCHANGED <<client, taken, open, buffer, got>>

IsRequest(n) == speaks = "http" /\ n >= HeaderEnd

\* The first bytes are kept.  The deferred call clears the deadline.
ProbeReads ==
    /\ pc = "probe"
    /\ \E n \in 1..BufSize :
          Reads(n) /\ ~IsRequest(n) /\ firstBuf' = n
    /\ deadline' = "none" /\ pc' = "read"
    /\ UNCHANGED <<client, open, bufStart, got>>

\* They were a whole HTTP request: the redirect is written, the connection is
\* closed, and the Read goes on with the closed connection.
Redirect ==
    /\ pc = "probe"
    /\ \E n \in 1..BufSize : Reads(n) /\ IsRequest(n)
    /\ open' = FALSE /\ deadline' = "none" /\ pc' = "read"
    /\ UNCHANGED <<client, buffer, got>>

\* Nothing to replay; the deferred call clears the deadline all the same.
ProbeFails ==
    /\ pc = "probe" /\ ReadFails
    /\ deadline' = "none" /\ pc' = "read"
    /\ UNCHANGED <<client, taken, open, buffer, got>>

-----------------------------------------------------------------------------
(* Read *)

Hand(first, n) == got' = got \o [i \in 1..n |-> first + i]

Replay ==
    /\ pc = "read" /\ firstBuf # 0
    /\ \E n \in 1..BufSize :
          /\ bufStart + n <= firstBuf
          /\ Hand(bufStart, n)
          /\ bufStart' = bufStart + n
          /\ firstBuf' = IF bufStart + n = firstBuf THEN 0 ELSE firstBuf
    /\ UNCHANGED <<client, socket, pc>>

PassOn ==
    /\ pc = "read" /\ firstBuf = 0
    /\ \E n \in 1..BufSize : Reads(n) /\ Hand(taken, n)
    /\ UNCHANGED <<client, deadline, open, buffer, pc>>

\* TLS gives up on an error, and on what is not TLS.
GiveUp ==
    /\ pc = "read"
    /\ \/ firstBuf = 0 /\ ReadFails
       \/ speaks = "http" /\ got # <<>>
    /\ open' = FALSE /\ pc' = "over"
    /\ UNCHANGED <<client, taken, deadline, buffer, got>>

\* The handshake is done; from here on net/http sets deadlines of its own.
Establish ==
    /\ pc = "read" /\ speaks = "tls" /\ Len(got) = Length
    /\ pc' = "established"
    /\ UNCHANGED <<client, socket, buffer, got>>

-----------------------------------------------------------------------------
Panel ==
    \/ Serve \/ SetProbeDeadline \/ ProbeReads \/ Redirect \/ ProbeFails
    \/ Replay \/ PassOn \/ GiveUp \/ Establish

Next == Send \/ HangUp \/ DeadlinePasses \/ Panel

Spec == Init /\ [][Next]_vars

\* The goroutine runs when it can and time passes; a client need not do anything.
FairSpec == Spec /\ WF_vars(Panel) /\ WF_vars(DeadlinePasses)

-----------------------------------------------------------------------------
(* What the wrapper promises *)

\* TLS gets the bytes of the client in order, none lost and none twice, however
\* they are split between the probe and later reads; and it gets none of a
\* request that was redirected.
Faithful ==
    /\ \A i \in 1..Len(got) : got[i] = i
    /\ pc = "read" /\ ~open => got = <<>>

\* autp_https_conn.go:28: the wait for the first bytes is bounded: a client that
\* connects and sends nothing does not occupy its goroutine for ever.
ProbeIsBounded ==
    <>(sent > 0 \/ pc \in {"established", "over"})
=============================================================================
