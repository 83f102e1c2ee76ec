-------------------------------- MODULE Http --------------------------------
(***************************************************************************)
(* The HTTP client: requests that are sent and answered later, sessions    *)
(* that are kept for another request once a response has been read, and    *)
(* the retry of a request after any error and after a 5xx response.  The   *)
(* server answers the requests of a session in order and may close the     *)
(* session at any time, with what is under way lost.                       *)
(***************************************************************************)
EXTENDS Naturals, Sequences

CONSTANTS
    Request,        \* requests
    MaxSession,     \* sessions that can be opened
    MaxBody,        \* pieces of content in a response
    MaxSend         \* how often a request is sent before its time is over

VARIABLES
    hreq,           \* the requests
    sent,           \* per session, requests the server has not answered
    reply,          \* per session, what the client has not read
    shut,           \* sessions the server has closed
    opened,         \* sessions opened so far
    reuse           \* sessions that wait for another request

httpVars == <<hreq, sent, reply, shut, opened, reuse>>

\* How the end of the content is known
Framing == {"none", "length", "chunked", "close"}

NewRequest(verb, cache) ==
    [verb |-> verb, cache |-> cache, pc |-> "new", sess |-> 0, tries |-> 0,
     framing |-> "none", code |-> "ok", close |-> FALSE, remain |-> 0,
     whole |-> 0, got |-> 0, of |-> {}]

HttpInit ==
    /\ hreq \in [Request -> {NewRequest("GET", TRUE), NewRequest("GET", FALSE), NewRequest("HEAD", TRUE)}]
    /\ sent = [s \in 1 .. MaxSession |-> <<>>]
    /\ reply = [s \in 1 .. MaxSession |-> <<>>]
    /\ shut = {}
    /\ opened = 0
    /\ reuse = <<>>

Fresh(q) == NewRequest(hreq[q].verb, hreq[q].cache)
Becomes(q, new) == hreq' = [hreq EXCEPT ![q] = new]

(***************************************************************************)
(* The server.                                                             *)
(***************************************************************************)
StatusLine(q, f, code, close, n) ==
    [q |-> q, it |-> "head", framing |-> f, code |-> code, close |-> close, n |-> n]
Piece(q, it) == [q |-> q, it |-> it]

Response(q, f, code, close, n) ==
    <<StatusLine(q, f, code, close, n)>>
    \o (IF hreq[q].verb = "HEAD" THEN <<>>
        ELSE [i \in 1 .. n |-> Piece(q, "content")]
             \o (IF f = "chunked" THEN <<Piece(q, "last")>> ELSE <<>>))

ServerAnswer(s) ==
    /\ sent[s] # <<>>
    /\ s \notin shut
    /\ LET q == Head(sent[s])
       IN  \E f \in Framing, code \in {"ok", "missing", "retry"}, close \in BOOLEAN, n \in 0 .. MaxBody :
            /\ f = "none" <=> n = 0
            /\ f = "close" => close
            /\ reply' = [reply EXCEPT ![s] = @ \o Response(q, f, code, close, n)]
            /\ shut' = IF close THEN shut \cup {s} ELSE shut
    /\ sent' = [sent EXCEPT ![s] = Tail(@)]
    /\ UNCHANGED <<hreq, opened, reuse>>

\* The connection breaks; a suffix of what was on its way is lost
ServerShut(s) ==
    /\ s \in 1 .. opened
    /\ s \notin shut
    /\ shut' = shut \cup {s}
    /\ \E n \in 0 .. Len(reply[s]) : reply' = [reply EXCEPT ![s] = SubSeq(@, 1, n)]
    /\ sent' = [sent EXCEPT ![s] = <<>>]
    /\ UNCHANGED <<hreq, opened, reuse>>

(***************************************************************************)
(* The client.                                                             *)
(***************************************************************************)

\* The client closes the session: nobody reads what is on its way
Shut(s) ==
    /\ shut' = shut \cup {s}
    /\ sent' = [sent EXCEPT ![s] = <<>>]
    /\ reply' = [reply EXCEPT ![s] = <<>>]

\* httpClientOpen() and the write of the request; a write into a session that
\* the server has closed is noticed when the response is read
Send(q) ==
    /\ hreq[q].pc = "new"
    /\ IF reuse # <<>>
       THEN /\ Becomes(q, [hreq[q] EXCEPT !.pc = "sent", !.sess = Head(reuse), !.tries = @ + 1])
            /\ sent' = [sent EXCEPT ![Head(reuse)] = Append(@, q)]
            /\ reuse' = Tail(reuse)
            /\ UNCHANGED opened
       ELSE /\ opened < MaxSession
            /\ opened' = opened + 1
            /\ Becomes(q, [hreq[q] EXCEPT !.pc = "sent", !.sess = opened + 1, !.tries = @ + 1])
            /\ sent' = [sent EXCEPT ![opened + 1] = Append(@, q)]
            /\ UNCHANGED reuse
    /\ UNCHANGED <<reply, shut>>

\* httpResponseDone() and what follows in httpRequestProcess(): a session is
\* kept unless the server asked to close it
ResponseDone(q, h) ==
    /\ reuse' = IF h.close THEN reuse ELSE Append(reuse, h.sess)
    /\ Becomes(q, CASE h.code = "retry" /\ h.tries < MaxSend -> [Fresh(q) EXCEPT !.tries = h.tries]
                    [] h.code = "retry" -> [Fresh(q) EXCEPT !.pc = "failed"]
                    [] OTHER -> [h EXCEPT !.pc = "done"])

ContentExists(h, verb) == (h.framing \in {"length", "chunked"} \/ h.close) /\ verb # "HEAD"

\* httpResponseNew() up to the blank line after the headers
ReadHead(q) ==
    /\ hreq[q].pc = "sent"
    /\ reply[hreq[q].sess] # <<>>
    /\ Head(reply[hreq[q].sess]).it = "head"
    /\ LET m == Head(reply[hreq[q].sess])
           h == [hreq[q] EXCEPT !.framing = m.framing, !.code = m.code, !.close = m.close,
                                !.remain = m.n, !.whole = m.n, !.of = {m.q}, !.got = 0]
       IN  IF ContentExists(h, h.verb)
           THEN Becomes(q, [h EXCEPT !.pc = "content"]) /\ UNCHANGED reuse
           ELSE ResponseDone(q, h)
    /\ reply' = [reply EXCEPT ![hreq[q].sess] = Tail(@)]
    /\ UNCHANGED <<sent, shut, opened>>

\* Does the response reach the caller before its content has been read?
Streams(h) == ~h.cache /\ h.code = "ok"

\* httpResponseRead(): one piece of content, or the end of chunked content
ReadContent(q) ==
    /\ hreq[q].pc = "content"
    /\ reply[hreq[q].sess] # <<>>
    /\ LET m == Head(reply[hreq[q].sess])
           h == [hreq[q] EXCEPT !.of = @ \cup {m.q},
                                !.got = IF m.it = "content" THEN @ + 1 ELSE @,
                                !.remain = IF m.it = "content" /\ @ > 0 THEN @ - 1 ELSE @]
       IN  IF m.it = "last" \/ (h.framing = "length" /\ h.remain = 0)
           THEN ResponseDone(q, h)
           ELSE Becomes(q, h) /\ UNCHANGED reuse
    /\ reply' = [reply EXCEPT ![hreq[q].sess] = Tail(@)]
    /\ UNCHANGED <<sent, shut, opened>>

AtEof(q) == reply[hreq[q].sess] = <<>> /\ hreq[q].sess \in shut

\* Content without a length ends with the connection
ReadToEof(q) ==
    /\ hreq[q].pc = "content"
    /\ AtEof(q)
    /\ hreq[q].framing \in {"none", "close"}
    /\ ResponseDone(q, hreq[q])
    /\ UNCHANGED <<sent, reply, shut, opened>>

\* An error closes the session.  The request is sent again, unless its time is
\* over or the caller has the response already.
Again(q) ==
    Becomes(q, IF hreq[q].tries < MaxSend /\ ~(hreq[q].pc = "content" /\ Streams(hreq[q]))
               THEN [Fresh(q) EXCEPT !.tries = hreq[q].tries]
               ELSE [Fresh(q) EXCEPT !.pc = "failed"])

\* The connection ended too early, or nothing came in time, or it is not a
\* status line
ReadError(q) ==
    /\ hreq[q].pc \in {"sent", "content"}
    /\ \/ reply[hreq[q].sess] = <<>>
       \/ /\ hreq[q].pc = "sent"
          /\ reply[hreq[q].sess] # <<>>
          /\ Head(reply[hreq[q].sess]).it # "head"
    /\ Again(q)
    /\ Shut(hreq[q].sess)
    /\ UNCHANGED <<opened, reuse>>

\* No session can be opened, which counts as an attempt
OpenError(q) ==
    /\ hreq[q].pc = "new"
    /\ reuse = <<>>
    /\ Becomes(q, [hreq[q] EXCEPT !.tries = @ + 1, !.pc = IF hreq[q].tries + 1 < MaxSend THEN "new" ELSE "failed"])
    /\ UNCHANGED <<sent, reply, shut, opened, reuse>>

\* The caller frees a request that it sent ahead, or a response whose content it
\* has not read, and the session goes with it
LeaveOpen(q) ==
    /\ hreq[q].pc = "sent" \/ (hreq[q].pc = "content" /\ Streams(hreq[q]))
    /\ Becomes(q, [Fresh(q) EXCEPT !.pc = "left"])
    /\ reuse' = Append(reuse, hreq[q].sess)
    /\ UNCHANGED <<sent, reply, shut, opened>>

Leave(q) ==
    /\ hreq[q].pc = "sent" \/ (hreq[q].pc = "content" /\ Streams(hreq[q]))
    /\ Becomes(q, [Fresh(q) EXCEPT !.pc = "left"])
    /\ Shut(hreq[q].sess)
    /\ UNCHANGED <<opened, reuse>>

HttpNext ==
    \/ \E q \in Request : Send(q) \/ OpenError(q) \/ ReadHead(q) \/ ReadContent(q) \/ ReadToEof(q) \/ ReadError(q) \/ Leave(q)
    \/ \E s \in 1 .. MaxSession : ServerAnswer(s) \/ ServerShut(s)

HttpEnd == \A q \in Request : hreq[q].pc \in {"done", "failed", "left"}

(***************************************************************************)
(* Properties.                                                             *)
(***************************************************************************)

\* What a request reads was sent in answer to it, although its session has
\* served other requests, of which some were left or sent again
\* (httpSessionDone(), httpClientOpen()).
AnswersOwn == \A q \in Request : hreq[q].of \subseteq {q}

\* A response that was read to its end is complete when the server said how
\* long it is (httpResponseRead()).
ContentWhole ==
    \A q \in Request :
        hreq[q].pc = "done" /\ hreq[q].verb = "GET" /\ hreq[q].framing \in {"length", "chunked"} =>
            hreq[q].got = hreq[q].whole

\* A request reads the whole answer to it and nothing else.
HttpExact == AnswersOwn /\ ContentWhole
=============================================================================
