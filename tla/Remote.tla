------------------------------- MODULE Remote --------------------------------
(***************************************************************************)
(* Storage on another host: the client of the protocol and the server that *)
(* runs the storage commands.  A command, its data and its answers travel  *)
(* through one ordered channel each way without any number that would say  *)
(* which command an answer is for, so both sides must consume exactly what *)
(* the other side sends.                                                   *)
(*                                                                         *)
(* A noop, remove, path create or path sync is answered by an end, info    *)
(* and path remove by a result and an end, a list and a read by items, and *)
(* a write takes data until the client closes the file or frees it.        *)
(***************************************************************************)
EXTENDS Naturals, Sequences

CONSTANTS
    MaxCommand,     \* commands of the client
    MaxItem,        \* items of a list, blocks of a file
    Reuse           \* does a process go on after it has left an answer unread?

VARIABLES
    client,         \* [pc, op, n, put]: the n-th command and what was put so far
    server,         \* [pc, n, left]: the handler that runs, items left to send or read
    toServer, toClient,
    rfile,          \* the command whose file the name leads to on the remote, or Torn
    result,         \* per write command, what became of it
    took,           \* the command under way and the one it last took an answer of
    dirty           \* has an answer been left unread?

remoteVars == <<client, server, toServer, toClient, rfile, result, took, dirty>>

Torn == MaxCommand + 1
Operation == {"noop", "remove", "pathCreate", "pathSync", "info", "pathRemove", "list", "read", "write"}
EndOnly == {"noop", "remove", "pathCreate", "pathSync"}

RemoteInit ==
    /\ client = [pc |-> "idle", op |-> "noop", n |-> 0, put |-> 0]
    /\ server = [pc |-> "loop", n |-> 0, left |-> 0]
    /\ toServer = <<>>
    /\ toClient = <<>>
    /\ rfile = 0
    /\ result = [n \in 1 .. MaxCommand |-> "open"]
    /\ took = <<0, 0>>
    /\ dirty = FALSE

Command(op, n) == [type |-> "command", data |-> op, of |-> n]
Data(data, n) == [type |-> "data", data |-> data, of |-> n]
DataEnd(n) == [type |-> "end", data |-> "null", of |-> n]
ErrorOf(n) == [type |-> "error", data |-> "null", of |-> n]

(***************************************************************************)
(* The client.                                                             *)
(***************************************************************************)

\* protocolClientCommandPut(), and what the caller waits for then
StartCommand(op) ==
    /\ client.pc = "idle"
    /\ client.n < MaxCommand
    /\ Reuse \/ ~dirty
    /\ client' = [pc |-> IF op \in EndOnly THEN "end" ELSE IF op = "list" THEN "items" ELSE "result",
                  op |-> op, n |-> client.n + 1, put |-> 0]
    /\ toServer' = Append(toServer, Command(op, client.n + 1))
    /\ UNCHANGED <<server, toClient, rfile, result, took, dirty>>

Becoming(pc) == client' = [client EXCEPT !.pc = pc]
Ended(how) ==
    /\ Becoming("idle")
    /\ result' = IF client.op = "write" THEN [result EXCEPT ![client.n] = how] ELSE result

\* An error while a file is written: the free callback, which is set once the
\* file is open and cleared once it is closed, tells the remote to free it
FreeResourceAsClose ==
    /\ Becoming("free")
    /\ toServer' = Append(toServer, Data("null", client.n))
    /\ UNCHANGED result

FreeResource ==
    /\ Becoming("free")
    /\ toServer' = toServer \o <<Data("bool", client.n), Data("null", client.n)>>
    /\ UNCHANGED result

\* An error in any other place is the end of the operation
ClientError ==
    \/ /\ client.op = "write" /\ client.pc \in {"close", "end"}
       /\ FreeResource
    \/ /\ ~(client.op = "write" /\ client.pc \in {"close", "end"})
       /\ Ended("failed")
       /\ UNCHANGED toServer

\* What the caller does next with a data message, an error when the field it
\* reads is not of the type it expects
InfoGet(data) == IF data = "pack" THEN "end" ELSE "error"
PathRemoveGet(data) == IF data \in {"yes", "no"} THEN "end" ELSE "error"
InfoListGet(data) == IF data = "name" THEN "items" ELSE IF data \in {"yes", "no"} THEN "end" ELSE "error"
ReadOpen(data) == IF data = "yes" THEN "items" ELSE IF data = "no" THEN "end" ELSE "error"
ReadBlock(data) == IF data = "bin" THEN "items" ELSE IF data = "filter" THEN "end" ELSE "error"
WriteOpen(data) == "opened"
WriteClose(data) == IF data = "filter" THEN "end" ELSE "error"

Understands(pc, op, data) ==
    CASE op = "info" -> InfoGet(data)
      [] op = "pathRemove" -> PathRemoveGet(data)
      [] op = "list" -> InfoListGet(data)
      [] op = "read" -> IF pc = "result" THEN ReadOpen(data) ELSE ReadBlock(data)
      [] op = "write" -> IF pc = "result" THEN WriteOpen(data) ELSE WriteClose(data)

\* The message types a caller may get: an error is always one of them
InTurn(type, pc) == type = "error" \/ type = IF pc \in {"end", "free"} THEN "end" ELSE "data"

Takes(m) ==
    /\ toClient' = Tail(toClient)
    /\ took' = <<client.n, m.of>>

\* protocolClientDataGet()
ClientDataGet ==
    /\ client.pc \in {"result", "items", "close"}
    /\ toClient # <<>>
    /\ LET m == Head(toClient)
       IN  /\ Takes(m)
           /\ CASE ~InTurn(m.type, client.pc) ->
                    /\ Becoming("lost")
                    /\ UNCHANGED <<toServer, result, dirty>>
                [] m.type = "error" ->
                    /\ ClientError
                    /\ dirty' = (dirty \/ client.pc = "close")
                [] m.type = "data" ->
                    LET next == Understands(client.pc, client.op, m.data)
                    IN  /\ IF next = "error"
                           THEN ClientError
                           ELSE Becoming(next) /\ UNCHANGED <<toServer, result>>
                        /\ dirty' = (dirty \/ next = "error")
    /\ UNCHANGED <<server, rfile>>

\* protocolClientDataEndGet()
ClientEndGet ==
    /\ client.pc \in {"end", "free"}
    /\ toClient # <<>>
    /\ LET m == Head(toClient)
       IN  /\ Takes(m)
           /\ CASE ~InTurn(m.type, client.pc) ->
                    /\ Becoming("lost")
                    /\ UNCHANGED <<toServer, result, dirty>>
                [] m.type = "error" ->
                    /\ ClientError
                    /\ dirty' = (dirty \/ client.op = "write")
                [] m.type = "end" ->
                    /\ Ended(IF client.pc = "free" THEN "failed" ELSE "returned")
                    /\ UNCHANGED <<toServer, dirty>>
    /\ UNCHANGED <<server, rfile>>

\* storageWriteRemote()
ClientPut ==
    /\ client.pc = "opened"
    /\ client.put < MaxItem
    /\ client' = [client EXCEPT !.put = @ + 1]
    /\ toServer' = Append(toServer, Data("bin", client.n))
    /\ UNCHANGED <<server, toClient, rfile, result, took, dirty>>

\* storageWriteRemoteClose()
ClientClose ==
    /\ client.pc = "opened"
    /\ client.put = MaxItem
    /\ Becoming("close")
    /\ toServer' = Append(toServer, Data("null", client.n))
    /\ UNCHANGED <<server, toClient, rfile, result, took, dirty>>

\* The source of the data fails, and the file is freed
ClientAbort ==
    /\ client.pc = "opened"
    /\ FreeResource
    /\ UNCHANGED <<server, toClient, rfile, took, dirty>>

\* The caller stops before the last item, after an error of its own or because
\* the callback of a list begins a list of the path it was given.  Nothing
\* reads what is left.
ClientLeave ==
    /\ client.pc = "items"
    /\ client.op = "list" => took[1] = client.n
    /\ Ended("failed")
    /\ dirty' = TRUE
    /\ UNCHANGED <<server, toServer, toClient, rfile, took>>

(***************************************************************************)
(* The server.                                                             *)
(***************************************************************************)
Put(s) == toClient' = toClient \o s

\* protocolServerProcess() reports whatever a handler throws
HandlerError ==
    /\ Put(<<ErrorOf(server.n)>>)
    /\ server' = [server EXCEPT !.pc = "loop"]
    /\ UNCHANGED rfile

\* A message of the wrong type is not read to its end, so nothing can be said
\* of what the server reads from there on
ServerLost(n) ==
    /\ Put(<<ErrorOf(n)>>)
    /\ server' = [server EXCEPT !.pc = "lost"]
    /\ UNCHANGED rfile

\* The handlers: all of one that neither waits for data nor sends items, the
\* others up to there
NoOp(h) == Put(<<DataEnd(h.n)>>) /\ server' = h
RemoveProtocol(h) == Put(<<DataEnd(h.n)>>) /\ server' = h
PathCreateProtocol(h) == Put(<<DataEnd(h.n)>>) /\ server' = h
PathSyncProtocol(h) == Put(<<DataEnd(h.n)>>) /\ server' = h
InfoProtocol(h) == Put(<<Data("pack", h.n), DataEnd(h.n)>>) /\ server' = h
PathRemoveProtocol(h) == \E found \in {"yes", "no"} : Put(<<Data(found, h.n), DataEnd(h.n)>>) /\ server' = h
InfoListProtocol(h) ==
    /\ \E left \in 0 .. MaxItem : server' = [h EXCEPT !.pc = "list", !.left = left]
    /\ UNCHANGED toClient
OpenReadProtocol(h) ==
    \/ Put(<<Data("no", h.n), DataEnd(h.n)>>) /\ server' = h
    \/ /\ Put(<<Data("yes", h.n)>>)
       /\ \E left \in 0 .. MaxItem : server' = [h EXCEPT !.pc = "read", !.left = left]
OpenWriteProtocol(h) ==
    /\ Put(<<Data("null", h.n)>>)
    /\ server' = [h EXCEPT !.pc = "write", !.left = MaxItem]

\* protocolServerCommandGet() and protocolServerProcess(), with a handler that
\* may fail before it has sent anything
ServerCommand ==
    /\ server.pc = "loop"
    /\ toServer # <<>>
    /\ toServer' = Tail(toServer)
    /\ LET m == Head(toServer)
           h == [server EXCEPT !.n = m.of]
       IN  IF m.type # "command" THEN ServerLost(m.of)
           ELSE /\ \/ m.data = "noop" /\ NoOp(h)
                   \/ m.data = "remove" /\ RemoveProtocol(h)
                   \/ m.data = "pathCreate" /\ PathCreateProtocol(h)
                   \/ m.data = "pathSync" /\ PathSyncProtocol(h)
                   \/ m.data = "info" /\ InfoProtocol(h)
                   \/ m.data = "pathRemove" /\ PathRemoveProtocol(h)
                   \/ m.data = "list" /\ InfoListProtocol(h)
                   \/ m.data = "read" /\ OpenReadProtocol(h)
                   \/ m.data = "write" /\ OpenWriteProtocol(h)
                   \/ m.data # "noop" /\ Put(<<ErrorOf(m.of)>>) /\ server' = h
                /\ UNCHANGED rfile
    /\ UNCHANGED <<client, result, took, dirty>>

\* The rest of the list and of the read
ServerItem ==
    /\ server.pc \in {"list", "read"}
    /\ \/ /\ server.left > 0
          /\ Put(<<Data(IF server.pc = "read" THEN "bin" ELSE "name", server.n)>>)
          /\ server' = [server EXCEPT !.left = @ - 1]
          /\ UNCHANGED rfile
       \/ /\ server.left = 0
          /\ Put(<<Data(IF server.pc = "read" THEN "filter" ELSE "yes", server.n), DataEnd(server.n)>>)
          /\ server' = [server EXCEPT !.pc = "loop"]
          /\ UNCHANGED rfile
       \/ HandlerError
    /\ UNCHANGED <<client, toServer, result, took, dirty>>

\* storageRemoteOpenWriteProtocol() from the open file on.  The file becomes
\* visible when it is closed.
ServerWrite ==
    /\ server.pc \in {"write", "free"}
    /\ toServer # <<>>
    /\ toServer' = Tail(toServer)
    /\ LET m == Head(toServer)
       IN  CASE m.type # "data" -> ServerLost(m.of)
             [] m.type = "data" /\ server.pc = "free" ->
                    /\ Put(<<DataEnd(server.n)>>)
                    /\ server' = [server EXCEPT !.pc = "loop"]
                    /\ UNCHANGED rfile
             [] m.type = "data" /\ server.pc = "write" ->
                    \/ m.data = "bin" /\ server' = [server EXCEPT !.left = @ - 1] /\ UNCHANGED <<toClient, rfile>>
                    \/ m.data = "bool" /\ server' = [server EXCEPT !.pc = "free"] /\ UNCHANGED <<toClient, rfile>>
                    \/ /\ m.data = "null"
                       /\ rfile' = IF server.left = 0 THEN server.n ELSE Torn
                       /\ Put(<<Data("filter", server.n), DataEnd(server.n)>>)
                       /\ server' = [server EXCEPT !.pc = "loop"]
                    \/ m.data \in {"bin", "null"} /\ HandlerError
    /\ UNCHANGED <<client, result, took, dirty>>

RemoteNext ==
    \/ \E op \in Operation : StartCommand(op)
    \/ ClientDataGet \/ ClientEndGet \/ ClientPut \/ ClientClose \/ ClientAbort \/ ClientLeave
    \/ ServerCommand \/ ServerItem \/ ServerWrite

RemoteEnd == client.pc = "idle" /\ (dirty \/ client.n = MaxCommand)

(***************************************************************************)
(* Properties.                                                             *)
(***************************************************************************)

\* The write of a file as an atomic store sees it: it is stored when the server
\* has closed the file
RemoteObject == rfile
RemotePut == [n \in 1 .. MaxCommand |-> IF result[n] = "open" /\ rfile = n THEN "stored" ELSE result[n]]

\* A command takes answers of its own only, whatever failed before it on either
\* side, as long as nothing was left unread (protocolClientDataGet(),
\* protocolClientDataEndGet()).
AnswersMatch == took[1] = took[2]

=============================================================================
