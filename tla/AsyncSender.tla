---------------------------- MODULE AsyncSender ----------------------------
(***************************************************************************)
(* One link of the network layer: AsyncReplicaClient with its queue at the *)
(* sender (src/platform/networkstrate/async_replica_client.cpp) and the    *)
(* sessions of AsyncAcceptor at the receiver (async_acceptor.cpp).         *)
(*                                                                         *)
(* The callers of SendMessage hold ReplicaCommunicator::mutex_, so there   *)
(* is one caller at a time; the handlers of the asynchronous writes run on *)
(* the threads of the io_service.  A message is cut into chunks (bytes);   *)
(* chunk k of message m is <<m, k>>, its first HeaderSize chunks hold its  *)
(* size.  TCP keeps the chunks of one connection in order; a connection    *)
(* that breaks loses a suffix of what is under way.                        *)
(***************************************************************************)
EXTENDS Integers, Sequences

CONSTANTS Size,            \* Size[m]: chunks of the body of message m
          HeaderSize,      \* chunks of the size field (8 bytes in the code)
          MaxConnections   \* bound on the connections of a behaviour

Messages == DOMAIN Size    \* message m is the m-th one given to SendMessage

SenderAssumption ==
    /\ Size \in Seq(Nat \ {0})
    /\ HeaderSize \in Nat \ {0}
    /\ MaxConnections \in Nat

VARIABLES
    pushed,       \* messages given to SendMessage so far
    queue,        \* queue_
    in_process,   \* in_process_
    caller,       \* where the thread in SendMessage is
    chain,        \* where the chain of handlers is that sends the queue
    pending,      \* pending_data_ (0: none)
    status,       \* status_
    idx,          \* sending_data_idx_
    conns,        \* the connections so far: what is under way, and broken or not
    session,      \* the Session of each connection
    received      \* calls of call_back_func_, with the connection

vars == <<pushed, queue, in_process, caller, chain, pending, status, idx,
          conns, session, received>>
sendVars == <<pending, status, idx>>
netVars == <<conns, session, received>>

Header(m) == [k \in 1..HeaderSize |-> <<m, k>>]
Body(m) == [k \in 1..Size[m] |-> <<m, HeaderSize + k>>]

(* A Session reads a header first: status_ = 0, current_idx_ = 0.          *)
NewSession == [status |-> 0, need |-> HeaderSize, buffer |-> <<>>]

Init == /\ pushed = 0
        /\ queue = <<>>
        /\ in_process = FALSE
        /\ caller = "idle"
        /\ chain = "none"
        /\ pending = 0 /\ status = 0 /\ idx = 0
        /\ conns = <<>> /\ session = <<>> /\ received = <<>>

(***************************************************************************)
(* SendMessage: push, load in_process_, compare_exchange.                  *)
(***************************************************************************)
Push == /\ caller = "idle"
        /\ pushed + 1 \in Messages
        /\ pushed' = pushed + 1
        /\ queue' = Append(queue, pushed + 1)
        /\ caller' = "load"
        /\ UNCHANGED <<in_process, chain, sendVars, netVars>>

LoadInProcess == /\ caller = "load"
                 /\ caller' = IF in_process THEN "idle" ELSE "exchange"
                 /\ UNCHANGED <<pushed, queue, in_process, chain, sendVars, netVars>>

(* The caller that wins the exchange runs OnSendNewMessage itself, until   *)
(* the first asynchronous write is started.                                *)
Exchange == /\ caller = "exchange"
            /\ IF in_process
               THEN /\ caller' = "idle"
                    /\ UNCHANGED <<in_process, chain>>
               ELSE /\ caller' = "sending"
                    /\ in_process' = TRUE
                    /\ chain' = "pop"
            /\ UNCHANGED <<pushed, queue, sendVars, netVars>>

CallerReturns == caller' = IF caller = "sending" THEN "idle" ELSE caller

(***************************************************************************)
(* OnSendNewMessage: Pop(0), then OnSendMessage with status_ = 0, which    *)
(* starts the write of the header; or, a step later, in_process_ = false.  *)
(***************************************************************************)
PopMessage == /\ chain = "pop"
              /\ queue # <<>>
              /\ pending' = Head(queue)
              /\ queue' = Tail(queue)
              /\ status' = 1
              /\ idx' = 0
              /\ chain' = "write"
              /\ CallerReturns
              /\ UNCHANGED <<pushed, in_process, netVars>>

PopNothing == /\ chain = "pop"
              /\ queue = <<>>
              /\ chain' = "clear"
              /\ UNCHANGED <<pushed, queue, in_process, caller, sendVars, netVars>>

ClearInProcess == /\ chain = "clear"
                  /\ in_process' = FALSE
                  /\ chain' = "none"
                  /\ CallerReturns
                  /\ UNCHANGED <<pushed, queue, sendVars, netVars>>

(***************************************************************************)
(* OnSend: the handler of async_write_some.  A part that is complete goes  *)
(* on to OnSendMessage: from the header to the body, from the body to the  *)
(* next message.  A broken connection may still accept data; it is lost.   *)
(***************************************************************************)
Connected == conns # <<>>
Current == Len(conns)
Part == IF status = 1 THEN Header(pending) ELSE Body(pending)

OnSendMessage == IF status = 1
                 THEN status' = 2 /\ idx' = 0 /\ chain' = "write"
                 ELSE status' = 0 /\ idx' = idx + 1 /\ chain' = "pop"

WriteSome == /\ chain = "write"
             /\ Connected
             /\ conns' = IF conns[Current].broken THEN conns
                         ELSE [conns EXCEPT ![Current].under_way = Append(@, Part[idx + 1])]
             /\ IF idx + 1 >= Len(Part)
                THEN OnSendMessage
                ELSE idx' = idx + 1 /\ UNCHANGED <<status, chain>>
             /\ UNCHANGED <<pushed, queue, in_process, caller, pending, session, received>>

WriteError == /\ chain = "write"
              /\ Connected => conns[Current].broken
              /\ chain' = "connect"
              /\ UNCHANGED <<pushed, queue, in_process, caller, sendVars, netVars>>

\* Mutant: the half-sent part is continued on the new connection.
ReConnectKeepsPart == /\ chain = "connect"
                      /\ Len(conns) < MaxConnections
                      /\ conns' = Append(conns, [under_way |-> <<>>, broken |-> FALSE])
                      /\ session' = Append(session, NewSession)
                      /\ chain' = "write"
                      /\ UNCHANGED <<pushed, queue, in_process, caller, sendVars, received>>
(* ReConnect: on success the message starts again with its header; on      *)
(* failure the handler sleeps and tries again, which changes nothing.      *)
ReConnect == /\ chain = "connect"
             /\ Len(conns) < MaxConnections
             /\ conns' = Append(conns, [under_way |-> <<>>, broken |-> FALSE])
             /\ session' = Append(session, NewSession)
             /\ status' = 1
             /\ idx' = 0
             /\ chain' = "write"
             /\ UNCHANGED <<pushed, queue, in_process, caller, pending, received>>

(***************************************************************************)
(* The connection breaks; some prefix of what is under way still arrives.  *)
(* The last connection of a behaviour does not break.                      *)
(***************************************************************************)
Break == /\ Connected
         /\ ~conns[Current].broken
         /\ Len(conns) < MaxConnections
         /\ \E k \in 0..Len(conns[Current].under_way) :
              conns' = [conns EXCEPT ![Current] =
                          [under_way |-> SubSeq(@.under_way, 1, k), broken |-> TRUE]]
         /\ UNCHANGED <<pushed, queue, in_process, caller, chain, sendVars, session, received>>

(***************************************************************************)
(* Session::OnRead with ReadDone and StartRead.  The size read from a      *)
(* header is the one of the message the header belongs to.                 *)
(***************************************************************************)
DataSize(buffer) == Size[buffer[1][1]]

OnRead(c) ==
    /\ conns[c].under_way # <<>>
    /\ conns' = [conns EXCEPT ![c].under_way = Tail(@)]
    /\ LET s == session[c]
           buffer == Append(s.buffer, Head(conns[c].under_way))
       IN  IF Len(buffer) < s.need
           THEN /\ session' = [session EXCEPT ![c].buffer = buffer]
                /\ UNCHANGED received
           ELSE /\ session' = [session EXCEPT ![c] =
                     IF s.status = 1 THEN NewSession
                     ELSE [status |-> 1, need |-> DataSize(buffer), buffer |-> <<>>]]
                /\ received' = IF s.status = 1
                               THEN Append(received, [conn |-> c, data |-> buffer])
                               ELSE received
    /\ UNCHANGED <<pushed, queue, in_process, caller, chain, sendVars>>

Send == Push \/ LoadInProcess \/ Exchange
Handle == PopMessage \/ PopNothing \/ ClearInProcess \/ WriteSome \/ WriteError \/ ReConnect
Read(c) == c \in DOMAIN conns /\ OnRead(c)

Next == Send \/ Handle \/ Break \/ \E c \in 1..MaxConnections : Read(c)

Spec == Init /\ [][Next]_vars

(* The threads run, and a connection attempt succeeds after finitely many  *)
(* failures.                                                               *)
FairSpec == /\ Spec
            /\ WF_vars(Send) /\ WF_vars(Handle)
            /\ \A c \in 1..MaxConnections : WF_vars(Read(c))

-----------------------------------------------------------------------------
(* Types; in_process_ is set exactly while a chain of handlers runs, and a  *)
(* chain that writes has a message with bytes left.                        *)
TypeOK ==
    /\ pushed \in 0..Len(Size)
    /\ queue \in Seq(Messages)
    /\ in_process \in BOOLEAN
    /\ caller \in {"idle", "load", "exchange", "sending"}
    /\ chain \in {"none", "pop", "clear", "write", "connect"}
    /\ pending \in Messages \cup {0}
    /\ status \in 0..2
    /\ DOMAIN session = DOMAIN conns
    /\ (chain \in {"write", "connect"} => pending # 0 /\ status # 0 /\ idx < Len(Part))
    /\ (in_process <=> chain # "none")

(***************************************************************************)
(* The callback of the receiver gets whole messages only: the body of one  *)
(* message, never the end of one and the beginning of another, although    *)
(* connections break in the middle of a header or a body (Session::ReadDone *)
(* relies on ReConnect starting the message again).                        *)
(***************************************************************************)
FramesWhole ==
    \A i \in DOMAIN received : \E m \in Messages : received[i].data = Body(m)

(***************************************************************************)
(* No message is received twice, although ReConnect sends the message      *)
(* again that was being written: the part of it that arrived on the old    *)
(* connection is never complete.                                           *)
(***************************************************************************)
AtMostOnce ==
    \A i, j \in DOMAIN received : received[i].data = received[j].data => i = j

(***************************************************************************)
(* The messages that arrive on one connection arrive in the order of the   *)
(* SendMessage calls (queue_ is a queue, and one chain of handlers empties *)
(* it).                                                                    *)
(***************************************************************************)
OrderedPerConnection ==
    \A i, j \in DOMAIN received :
        i < j /\ received[i].conn = received[j].conn
            => received[i].data[1][1] < received[j].data[1][1]

\* What the receiver's callback may rely on.
LinkSafe == FramesWhole /\ AtMostOnce /\ OrderedPerConnection

(***************************************************************************)
(* A SendMessage that finds no chain of handlers at work starts one, and   *)
(* that one empties the queue, whatever connections break meanwhile; also  *)
(* messages that an earlier call left behind are then sent.                *)
(***************************************************************************)
StartedChainDrains == (caller = "sending") ~> (queue = <<>>)

(***************************************************************************)
(* What the test MultiSendMessage (async_replica_client_test.cpp:107-123)  *)
(* expects of a burst of SendMessage calls to a server that stays up:      *)
(* every message is received.                                              *)
(***************************************************************************)
BurstIsReceived == <>(\A m \in Messages : \E i \in DOMAIN received : received[i].data = Body(m))
=============================================================================
