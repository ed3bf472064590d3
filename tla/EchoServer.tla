----------------------------- MODULE EchoServer -----------------------------
(***************************************************************************)
(* The TCP echo server: one coroutine that accepts connections for ever,   *)
(* and one per session that reads what has arrived into the session's      *)
(* buffer and writes it back.  Every co_await starts an asio operation     *)
(* whose completion handler resumes the coroutine; io_context.run() calls  *)
(* the handlers one at a time.  So a step of the program is one handler:   *)
(* it takes a completion and runs the coroutine up to its next co_await.   *)
(*                                                                         *)
(* The clients and the socket layer are the environment: a client sends    *)
(* the bytes 1, 2, ..., reads what comes back and may close at any time;   *)
(* a read returns any part of what has arrived, a write goes out piece by  *)
(* piece, and either fails once the client has closed.                     *)
(***************************************************************************)
EXTENDS Integers, Sequences, SequencesExt, FiniteSetsExt

CONSTANTS Clients,
          BufferSize,   \* Session::BUFFER_SIZE
          MaxBytes      \* bound: bytes that a client sends

ASSUME SizeAssumption == BufferSize \in Nat \ {0} /\ MaxBytes \in Nat

VARIABLES acceptor,     \* the accept loop: "accepting" or "completed"
          session,      \* where the coroutine of a session is suspended
          data,         \* Session::_data
          length,       \* readResult.second, the length of the write
          ready,        \* the completions that io_context.run() has to handle
          connection,   \* of a client: none, pending, accepted or aborted
          closed,       \* clients that closed
          sent,         \* how many bytes a client has sent
          inbox,        \* bytes that have arrived and are not read
          written,      \* how many bytes of the current write are out
          received      \* bytes that a client got back

server == <<acceptor, session, length>>
client == <<connection, closed, sent>>
echoVars == <<server, data, ready, client, inbox, written, received>>

NoData == [i \in 1..BufferSize |-> 0]

EchoInit ==
    /\ acceptor = "accepting"
    /\ session = [c \in Clients |-> "none"]
    /\ data = [c \in Clients |-> NoData]
    /\ length = [c \in Clients |-> 0]
    /\ ready = <<>>
    /\ connection = [c \in Clients |-> "none"]
    /\ closed = {}
    /\ sent = [c \in Clients |-> 0]
    /\ inbox = [c \in Clients |-> <<>>]
    /\ written = [c \in Clients |-> 0]
    /\ received = [c \in Clients |-> <<>>]

Completion == [of : {"accept", "read", "write"}, from : Clients,
               error : BOOLEAN, size : 0..BufferSize]

Complete(of, c, error, size) ==
    ready' = Append(ready, [of |-> of, from |-> c, error |-> error, size |-> size])

\* The operation of session c is not completed yet.
InProgress(of, c) ==
    session[c] = of /\ \A i \in DOMAIN ready : ready[i].of = "accept" \/ ready[i].from # c

-----------------------------------------------------------------------------
(* The clients.                                                            *)

Connect(c) ==
    /\ connection[c] = "none"
    /\ connection' = [connection EXCEPT ![c] = "pending"]
    /\ UNCHANGED <<server, data, ready, closed, sent, inbox, written, received>>

Send(c) ==
    /\ connection[c] \in {"pending", "accepted"} /\ c \notin closed
    /\ session[c] # "ended"
    /\ sent[c] < MaxBytes
    /\ sent' = [sent EXCEPT ![c] = @ + 1]
    /\ inbox' = [inbox EXCEPT ![c] = Append(@, sent[c] + 1)]
    /\ UNCHANGED <<server, data, ready, connection, closed, written, received>>

Close(c) ==
    /\ connection[c] \in {"pending", "accepted"} /\ c \notin closed
    /\ closed' = closed \cup {c}
    /\ UNCHANGED <<server, data, ready, connection, sent, inbox, written, received>>

-----------------------------------------------------------------------------
(* The operations that asio has under way.                                 *)

Accepting(c) ==
    /\ acceptor = "accepting" /\ connection[c] = "pending"
    /\ acceptor' = "completed"
    /\ UNCHANGED <<session, data, length, closed, sent, inbox, written, received>>

AcceptSome(c) ==
    /\ Accepting(c)
    /\ connection' = [connection EXCEPT ![c] = "accepted"]
    /\ Complete("accept", c, FALSE, 0)

AcceptFails(c) ==
    /\ Accepting(c) /\ c \in closed
    /\ connection' = [connection EXCEPT ![c] = "aborted"]
    /\ Complete("accept", c, TRUE, 0)

ReadSome(c) ==
    /\ InProgress("read", c)
    /\ \E n \in 1..BufferSize :
         /\ n <= Len(inbox[c])
         /\ data' = [data EXCEPT ![c] = [i \in 1..BufferSize |->
                        IF i <= n THEN inbox[c][i] ELSE data[c][i]]]
         /\ inbox' = [inbox EXCEPT ![c] = SubSeq(@, n + 1, Len(@))]
         /\ Complete("read", c, FALSE, n)
    /\ UNCHANGED <<server, client, written, received>>

\* End of file, or a reset of the connection.
ReadFails(c) ==
    /\ InProgress("read", c) /\ c \in closed
    /\ Complete("read", c, TRUE, 0)
    /\ UNCHANGED <<server, data, client, inbox, written, received>>

\* async_write sends piece by piece and completes when all of it is out.
WriteSome(c) ==
    /\ InProgress("write", c)
    /\ \E n \in 1..length[c] :
         /\ written[c] + n <= length[c]
         /\ written' = [written EXCEPT ![c] = @ + n]
         /\ received' = [received EXCEPT ![c] =
                            @ \o SubSeq(data[c], written[c] + 1, written[c] + n)]
         /\ IF written[c] + n = length[c] THEN Complete("write", c, FALSE, length[c])
                                          ELSE UNCHANGED ready
    /\ UNCHANGED <<server, data, client, inbox>>

WriteFails(c) ==
    /\ InProgress("write", c) /\ c \in closed
    /\ Complete("write", c, TRUE, written[c])
    /\ UNCHANGED <<server, data, client, inbox, written, received>>

-----------------------------------------------------------------------------
(* The handlers.                                                           *)

\* The next completion that io_context.run() takes.
Handle(of) ==
    /\ ready # <<>> /\ Head(ready).of = of
    /\ ready' = Tail(ready)
    /\ UNCHANGED <<data, client, inbox, received>>

\* Session::doRunLoop up to the first co_await; the accept loop goes on.
OnAccept ==
    /\ Handle("accept")
    /\ session' = IF Head(ready).error THEN session
                  ELSE [session EXCEPT ![Head(ready).from] = "read"]
    /\ acceptor' = "accepting"
    /\ UNCHANGED <<length, written>>

\* asyncWriteSome of what was read.
WriteBack(c, size) ==
    /\ session' = [session EXCEPT ![c] = "write"]
    /\ length' = [length EXCEPT ![c] = size]
    /\ written' = [written EXCEPT ![c] = 0]

\* Mutants: the length of the write is an old one, or the loop goes on after an
\* error.
ReadThenWriteOldLength ==
    /\ Handle("read")
    /\ LET c == Head(ready).from IN
         IF Head(ready).error
         THEN session' = [session EXCEPT ![c] = "ended"] /\ UNCHANGED <<length, written>>
         ELSE WriteBack(c, IF length[c] = 0 THEN Head(ready).size ELSE length[c])
    /\ UNCHANGED acceptor

\* Leaving the loop drops the last reference to the session.
OnRead ==
    /\ Handle("read")
    /\ LET c == Head(ready).from IN
         IF Head(ready).error
         THEN session' = [session EXCEPT ![c] = "ended"] /\ UNCHANGED <<length, written>>
         ELSE WriteBack(c, Head(ready).size)
    /\ UNCHANGED acceptor

OnWrite ==
    /\ Handle("write")
    /\ session' = [session EXCEPT ![Head(ready).from] =
                      IF Head(ready).error THEN "ended" ELSE "read"]
    /\ UNCHANGED <<acceptor, length, written>>

-----------------------------------------------------------------------------

EchoRun == OnAccept \/ OnRead \/ OnWrite

AsioAccepts == \E c \in Clients : AcceptSome(c) \/ AcceptFails(c)
AsioServes(c) ==
    ReadSome(c) \/ ReadFails(c) \/ WriteSome(c) \/ WriteFails(c)

EchoNext ==
    \/ EchoRun \/ AsioAccepts
    \/ \E c \in Clients : Connect(c) \/ Send(c) \/ Close(c) \/ AsioServes(c)

EchoSpec == EchoInit /\ [][EchoNext]_echoVars

\* run() goes on while there are completions, and operations that can
\* complete do: connections are accepted, bytes arrive and errors show.
EchoFairness ==
    /\ WF_echoVars(EchoRun) /\ WF_echoVars(AsioAccepts)
    /\ \A c \in Clients : WF_echoVars(AsioServes(c))

EchoFairSpec == EchoSpec /\ EchoFairness

-----------------------------------------------------------------------------
Bytes == 1..MaxBytes

\* What has been read into the buffer and is not yet written back.
Buffered(c) ==
    LET reads == {i \in DOMAIN ready : ready[i].of = "read" /\ ready[i].from = c}
    IN  IF session[c] = "write" THEN SubSeq(data[c], written[c] + 1, length[c])
        ELSE IF reads = {} THEN <<>>
        ELSE SubSeq(data[c], 1, ready[Min(reads)].size)

(* The echo is the stream, in whatever pieces it is read and written and   *)
(* however the sessions interleave: what a client got back, what is in the *)
(* session's buffer and what has still to be read are together what the    *)
(* client sent, byte for byte (AsyncTCPEchoServer.cpp:113-137).            *)
EchoIsTheStream == \A c \in Clients :
    session[c] # "ended" =>
        received[c] \o Buffered(c) \o inbox[c] = [i \in 1..sent[c] |-> i]

(* A session that is served: its client has back what it sent, or has      *)
(* closed and the session is over (AsyncTCPEchoServer.cpp:121-136,         *)
(* 191-203).                                                               *)
Served(c) == IF c \in closed THEN session[c] = "ended" \/ connection[c] = "aborted"
                             ELSE Len(received[c]) = sent[c]
=============================================================================
