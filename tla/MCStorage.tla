----------------------------- MODULE MCStorage ------------------------------
(***************************************************************************)
(* The parts of the storage layer, each on an instance of its own: a       *)
(* behaviour is one of the part chosen at first.                           *)
(***************************************************************************)
EXTENDS Upload, PosixWrite, Remote, ObjectRemove, Http

VARIABLE part

vars == <<part, uploadVars, posixVars, remoteVars, removeVars, httpVars>>

Parts == {"upload", "posix", "remote", "remove", "http"}

\* The parts that do not run stay in one initial state
Init ==
    /\ part \in Parts
    /\ UploadInit
    /\ part # "upload" => driver = "s3" /\ \A p \in Process : size[p] = 0
    /\ PosixInit
    /\ part # "posix" => wopt.atomic /\ wopt.createPath /\ wopt.syncFile /\ wopt.syncPath /\ path.name = OldFile
    /\ RemoteInit
    /\ RemoveInit
    /\ part # "remove" => rmDriver = "s3" /\ bucket = {}
    /\ HttpInit
    \* one of the requests hands out its content while it is read
    /\ part = "http" => \E q \in Request : hreq[q] = NewRequest("GET", FALSE)
    /\ part # "http" => \A q \in Request : hreq[q] = NewRequest("GET", TRUE)

Symmetry == Permutations(Request)

Next ==
    \/ /\ part = "upload"
       /\ UploadNext \/ (UploadEnd /\ UNCHANGED uploadVars)
       /\ UNCHANGED <<part, posixVars, remoteVars, removeVars, httpVars>>
    \/ /\ part = "posix"
       /\ PosixNext \/ (PosixEnd /\ UNCHANGED posixVars)
       /\ UNCHANGED <<part, uploadVars, remoteVars, removeVars, httpVars>>
    \/ /\ part = "remote"
       /\ RemoteNext \/ (RemoteEnd /\ UNCHANGED remoteVars)
       /\ UNCHANGED <<part, uploadVars, posixVars, removeVars, httpVars>>
    \/ /\ part = "remove"
       /\ RemoveNext \/ (RemoveEnd /\ UNCHANGED removeVars)
       /\ UNCHANGED <<part, uploadVars, posixVars, remoteVars, httpVars>>
    \/ /\ part = "http"
       /\ HttpNext \/ (HttpEnd /\ UNCHANGED httpVars)
       /\ UNCHANGED <<part, uploadVars, posixVars, remoteVars, removeVars>>

Spec == Init /\ [][Next]_vars

\* A file is written as an atomic store promises, with retries of the requests,
\* crashes of the host and errors on either side of a remote in between
\* (storageWriteS3Close(), storageWriteAzureClose(), storageWriteGcsClose(),
\* storageWritePosixClose(), storageRemoteOpenWriteProtocol()).
Cloud == INSTANCE AtomicStore WITH Writer <- Process, First <- "nobody", object <- UploadObject, put <- UploadPut
Away == INSTANCE AtomicStore WITH Writer <- 1 .. MaxCommand, First <- 0, object <- RemoteObject, put <- RemotePut
CloudStore == Cloud!StoreSpec
RemoteStore == Away!StoreSpec

\* Whoever waits for an answer takes the one to its own request: an HTTP request
\* on a session that others used before, with errors and retries in between
\* (httpRequestProcess()), and a command of a remote after another one failed on
\* either side (protocolClientDataGet(), protocolClientDataEndGet()).
AnswersExact == HttpExact /\ AnswersMatch
=============================================================================
